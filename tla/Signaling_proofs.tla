---------------------------- MODULE Signaling_proofs ----------------------------
(* Safety of the signalling of a session, for any number of viewer pages and of  *)
(* candidates.                                                                   *)
EXTENDS Signaling, SequenceTheorems, TLAPS

-------------------------------------------------------------------------------
(* Messages and queues *)

LEMMA PeerFacts == /\ Host \in Peers /\ Viewers \subseteq Peers
                   /\ \A v \in Viewers : v # Host
                   /\ Candidates \in Nat
  BY SignalingAssumption DEF Host, Viewers, Peers

LEMMA MessageFacts ==
    /\ Offer \in Messages /\ Offer.from = Host /\ Offer.type = "offer"
    /\ \A p \in Peers : /\ Answer(p) \in Messages /\ Answer(p).from = p
                        /\ Answer(p).type = "answer"
    /\ \A p \in Peers, i \in 0 .. Candidates :
          /\ Candidate(p, i) \in Messages /\ Candidate(p, i).from = p
          /\ Candidate(p, i).type = "ice-candidate"
  BY PeerFacts DEF Offer, Answer, Candidate, Messages

LEMMA Appended ==
    ASSUME NEW q \in Seq(Messages), NEW m \in Messages
    PROVE  /\ Append(q, m) \in Seq(Messages)
           /\ DOMAIN q = 1 .. Len(q) /\ Len(q) \in Nat
           /\ DOMAIN Append(q, m) = 1 .. (Len(q) + 1)
           /\ Len(Append(q, m)) = Len(q) + 1
           /\ \A i \in DOMAIN q : Append(q, m)[i] = q[i]
           /\ Append(q, m)[Len(q) + 1] = m
  BY AppendProperties, LenProperties

LEMMA Tailed ==
    ASSUME NEW q \in Seq(Messages), q # <<>>
    PROVE  /\ Head(q) \in Messages /\ Head(q) = q[1]
           /\ Tail(q) \in Seq(Messages)
           /\ DOMAIN q = 1 .. Len(q) /\ Len(q) \in Nat \ {0}
           /\ DOMAIN Tail(q) = 1 .. (Len(q) - 1)
           /\ Len(Tail(q)) = Len(q) - 1
           /\ \A i \in DOMAIN Tail(q) : i + 1 \in DOMAIN q /\ Tail(q)[i] = q[i + 1]
<1>1. DOMAIN q = 1 .. Len(q) /\ Len(q) \in Nat \ {0}
  BY EmptySeq, LenProperties
<1>2. /\ Tail(q) \in Seq(Messages) /\ Len(Tail(q)) = Len(q) - 1 /\ Head(q) \in Messages
      /\ \A i \in 1 .. Len(Tail(q)) : Tail(q)[i] = q[i + 1]
  BY HeadTailProperties
<1>3. DOMAIN Tail(q) = 1 .. Len(Tail(q))
  BY <1>2, LenProperties
<1>4. Head(q) = q[1]
  OBVIOUS
<1>5. QED BY <1>1, <1>2, <1>3, <1>4

(* A broadcast reaches those in the room, at the end of their queues. *)
LEMMA BroadcastFacts ==
    ASSUME TypeOK, NEW p \in Peers, NEW m \in Messages, Broadcast(p, m)
    PROVE  /\ inbox' \in [Peers -> Seq(Messages)]
           /\ \A q \in Peers :
                \/ q # p /\ {p, q} \subseteq room /\ inbox'[q] = Append(inbox[q], m)
                \/ ~(q # p /\ {p, q} \subseteq room) /\ inbox'[q] = inbox[q]
<1>1. \A q \in Peers : inbox[q] \in Seq(Messages) /\ Append(inbox[q], m) \in Seq(Messages)
  BY AppendProperties DEF TypeOK
<1>2. QED BY <1>1 DEF Broadcast

LEMMA LeaveFacts ==
    ASSUME TypeOK, NEW ps \in SUBSET Peers, Leave(ps)
    PROVE  /\ inbox' \in [Peers -> Seq(Messages)]
           /\ room' \in SUBSET Peers /\ room' = room \ ps
           /\ \A q \in Peers : IF q \in ps THEN inbox'[q] = <<>> ELSE inbox'[q] = inbox[q]
<1>1. <<>> \in Seq(Messages) /\ \A q \in Peers : inbox[q] \in Seq(Messages)
  BY EmptySeq DEF TypeOK
<1>2. QED BY <1>1 DEF Leave, TypeOK

LEMMA TakeFacts ==
    ASSUME TypeOK, NEW p \in Peers, inbox[p] # <<>>, Take(p)
    PROVE  /\ inbox' \in [Peers -> Seq(Messages)]
           /\ inbox'[p] = Tail(inbox[p])
           /\ \A q \in Peers \ {p} : inbox'[q] = inbox[q]
           /\ Head(inbox[p]) \in Messages /\ Head(inbox[p]).from \in Peers
<1>1. inbox[p] \in Seq(Messages)
  BY DEF TypeOK
<1>2. Tail(inbox[p]) \in Seq(Messages) /\ Head(inbox[p]) \in Messages
  BY <1>1, Tailed
<1>3. QED BY <1>2 DEF Take, TypeOK, Messages

LEMMA LeftFacts ==
    ASSUME TypeOK, NEW p \in Peers, left[p] > 0, left' = [left EXCEPT ![p] = @ - 1]
    PROVE  /\ left' \in [Peers -> 0 .. Candidates]
           /\ \A q \in Peers \ {p} : left'[q] = left[q]
           /\ left[p] \in 0 .. Candidates
<1>1. left[p] \in 0 .. Candidates /\ Candidates \in Nat
  BY PeerFacts DEF TypeOK
<1>2. left[p] - 1 \in 0 .. Candidates
  BY <1>1
<1>3. QED BY <1>1, <1>2 DEF TypeOK

LEMMA CandidateFacts ==
    ASSUME TypeOK, NEW p \in Peers, NEW m \in Messages, NEW able, AddCandidate(p, m, able)
    PROVE  /\ knows' \in [Peers -> SUBSET Peers] /\ refused' \in SUBSET (Peers \X Messages)
           /\ refused' \subseteq refused \cup {<<p, m>>}
           /\ able => refused' = refused
<1>1. m.from \in Peers
  BY DEF Messages
<1>2. QED BY <1>1 DEF TypeOK, AddCandidate

-------------------------------------------------------------------------------
(* Types *)

LEMMA HostTypes ==
    ASSUME TypeOK, HostInv, HostSteps \/ GatherSteps \/ ConcurrentWrite
    PROVE  TypeOK'
<1> USE DEF viewing, hosting
<1>1. ASSUME Dial PROVE TypeOK'
  BY <1>1, PeerFacts DEF TypeOK, Dial
<1>2. ASSUME Describe PROVE TypeOK'
  <2>1. CASE HostLeaves("ended")
    <3>1. inbox' \in [Peers -> Seq(Messages)] /\ room' \in SUBSET Peers
      BY <2>1, PeerFacts, LeaveFacts DEF HostLeaves
    <3>2. QED BY <1>2, <2>1, <3>1 DEF TypeOK, Describe, HostLeaves
  <2>2. QED BY <1>2, <2>1 DEF TypeOK, Describe
<1>3. ASSUME BeginOffer PROVE TypeOK'
  BY <1>3 DEF TypeOK, BeginOffer
<1>4. ASSUME EndOffer PROVE TypeOK'
  <2>1. inbox' \in [Peers -> Seq(Messages)]
    BY <1>4, PeerFacts, MessageFacts, BroadcastFacts DEF EndOffer
  <2>2. QED BY <1>4, <2>1 DEF TypeOK, EndOffer
<1>5. ASSUME BeginCandidate PROVE TypeOK'
  BY <1>5 DEF TypeOK, BeginCandidate
<1>6. ASSUME EndCandidate PROVE TypeOK'
  <2> DEFINE m == Candidate(Host, left[Host])
  <2>1. left' \in [Peers -> 0 .. Candidates] /\ left[Host] \in 0 .. Candidates
    BY <1>6, PeerFacts, LeftFacts DEF EndCandidate, HostInv
  <2>2. m \in Messages
    BY <2>1, PeerFacts, MessageFacts
  <2>3. inbox' \in [Peers -> Seq(Messages)]
    BY <1>6, <2>2, PeerFacts, BroadcastFacts DEF EndCandidate
  <2>4. early' \in SUBSET Messages
    BY <1>6, <2>2 DEF EndCandidate, TypeOK
  <2>5. QED BY <1>6, <2>1, <2>3, <2>4 DEF TypeOK, EndCandidate
<1>7. ASSUME ConcurrentWrite PROVE TypeOK'
  <2>1. inbox' \in [Peers -> Seq(Messages)] /\ room' \in SUBSET Peers
    BY <1>7, PeerFacts, LeaveFacts DEF ConcurrentWrite, HostLeaves
  <2>2. QED BY <1>7, <2>1 DEF TypeOK, ConcurrentWrite, HostLeaves
<1>8. ASSUME HostReceives PROVE TypeOK'
  <2> DEFINE m == Head(inbox[Host])
  <2>1. m \in Messages /\ m.from \in Peers /\ m.type \in {"answer", "ice-candidate"}
    <3>1. inbox[Host] \in Seq(Messages) /\ inbox[Host] # <<>>
      BY <1>8, PeerFacts DEF TypeOK, HostReceives
    <3>2. m \in Messages /\ m = inbox[Host][1] /\ 1 \in DOMAIN inbox[Host]
      BY <3>1, Tailed
    <3>3. m.type # "offer"
      BY <3>2 DEF HostInv, NoOffer
    <3>4. QED BY <3>2, <3>3 DEF Messages
  <2>2. peer' \in Peers /\ knows' \in [Peers -> SUBSET Peers] /\ refused' \in SUBSET (Peers \X Messages)
    <3>1. CASE m.type = "answer"
      BY <1>8, <2>1, <3>1 DEF HostReceives, TypeOK
    <3>2. CASE m.type = "ice-candidate"
      BY <1>8, <2>1, <3>2, PeerFacts, CandidateFacts DEF HostReceives, TypeOK
    <3>3. QED BY <2>1, <3>1, <3>2
  <2>3. CASE link = "failed"
    <3>1. HostLeaves("ended")
      BY <1>8, <2>3 DEF HostReceives
    <3>2. inbox' \in [Peers -> Seq(Messages)] /\ room' \in SUBSET Peers
      BY <3>1, PeerFacts, LeaveFacts DEF HostLeaves
    <3>3. QED BY <1>8, <2>2, <3>1, <3>2 DEF TypeOK, HostReceives, HostLeaves
  <2>4. CASE link # "failed"
    <3>1. Take(Host) /\ UNCHANGED <<host, writing, link, room>>
      BY <1>8, <2>4 DEF HostReceives
    <3>2. inbox' \in [Peers -> Seq(Messages)]
      BY <1>8, <3>1, PeerFacts, TakeFacts DEF HostReceives
    <3>3. QED BY <1>8, <2>2, <3>1, <3>2 DEF TypeOK, HostReceives
  <2>5. QED BY <2>3, <2>4
<1>9. ASSUME HostReadError PROVE TypeOK'
  <2>1. inbox' \in [Peers -> Seq(Messages)] /\ room' \in SUBSET Peers
    BY <1>9, PeerFacts, LeaveFacts DEF HostReadError, HostLeaves
  <2>2. QED BY <1>9, <2>1 DEF TypeOK, HostReadError, HostLeaves
<1>10. QED BY <1>1, <1>2, <1>3, <1>4, <1>5, <1>6, <1>7, <1>8, <1>9
          DEF HostSteps, HostWrites, GatherSteps

LEMMA PageTypes ==
    ASSUME TypeOK, \/ Load
                   \/ \E v \in Viewers : Reads(v) \/ Answers(v) \/ SendCandidate(v) \/ Close(v)
    PROVE  TypeOK'
<1> USE DEF hosting
<1>1. ASSUME Load PROVE TypeOK'
  <2>1. page \in 0 .. Pages /\ page < Pages /\ Pages \in Nat
    BY <1>1, SignalingAssumption DEF Load, TypeOK
  <2>2. PICK old \in SUBSET Closing({page} \cap Viewers) :
          /\ view' = [w \in Viewers |-> IF w = page + 1 THEN "loading"
                                        ELSE IF w \in old THEN "closed" ELSE view[w]]
          /\ Leave(old)
    BY <1>1 DEF Load
  <2>3. old \in SUBSET Peers
    BY <2>2, PeerFacts DEF Closing
  <2>4. inbox' \in [Peers -> Seq(Messages)] /\ room' \in SUBSET Peers
    BY <2>2, <2>3, LeaveFacts
  <2>5. page' \in 0 .. Pages
    BY <1>1, <2>1 DEF Load
  <2>6. QED BY <1>1, <2>2, <2>4, <2>5 DEF Load, TypeOK
<1> SUFFICES ASSUME NEW v \in Viewers,
                    Reads(v) \/ Answers(v) \/ SendCandidate(v) \/ Close(v)
             PROVE  TypeOK'
  BY <1>1
<1>2. v \in Peers
  BY PeerFacts
<1>3. ASSUME TakeOffer(v) PROVE TypeOK'
  <2>1. inbox' \in [Peers -> Seq(Messages)]
    BY <1>2, <1>3, TakeFacts DEF TakeOffer
  <2>2. QED BY <1>3, <2>1 DEF TypeOK, TakeOffer, See
<1>4. ASSUME TakeCandidate(v) PROVE TypeOK'
  <2>1. inbox' \in [Peers -> Seq(Messages)] /\ Head(inbox[v]) \in Messages
    BY <1>2, <1>4, TakeFacts DEF TakeCandidate
  <2>2. knows' \in [Peers -> SUBSET Peers] /\ refused' \in SUBSET (Peers \X Messages)
    BY <1>2, <1>4, <2>1, CandidateFacts DEF TakeCandidate
  <2>3. QED BY <1>4, <2>1, <2>2 DEF TypeOK, TakeCandidate
<1>5. ASSUME SkipAnswer(v) PROVE TypeOK'
  <2>1. inbox' \in [Peers -> Seq(Messages)]
    BY <1>2, <1>5, TakeFacts DEF SkipAnswer
  <2>2. QED BY <1>5, <2>1 DEF TypeOK, SkipAnswer
<1>6. ASSUME Join(v) PROVE TypeOK'
  BY <1>2, <1>6 DEF TypeOK, Join, See
<1>7. ASSUME SetLocalDescription(v) PROVE TypeOK'
  BY <1>7 DEF TypeOK, SetLocalDescription, See
<1>8. ASSUME SendAnswer(v) PROVE TypeOK'
  <2>1. inbox' \in [Peers -> Seq(Messages)]
    BY <1>2, <1>8, MessageFacts, BroadcastFacts DEF SendAnswer, AnswerSent
  <2>2. QED BY <1>8, <2>1 DEF TypeOK, SendAnswer, See
<1>9. ASSUME SendCandidate(v) PROVE TypeOK'
  <2> DEFINE m == Candidate(v, left[v])
  <2>1. left' \in [Peers -> 0 .. Candidates] /\ left[v] \in 0 .. Candidates
    BY <1>2, <1>9, LeftFacts DEF SendCandidate, Gathers
  <2>2. m \in Messages
    BY <1>2, <2>1, MessageFacts
  <2>3. inbox' \in [Peers -> Seq(Messages)]
    BY <1>2, <1>9, <2>2, BroadcastFacts DEF SendCandidate
  <2>4. early' \in SUBSET Messages
    BY <1>9, <2>2 DEF SendCandidate, TypeOK
  <2>5. QED BY <1>9, <2>1, <2>3, <2>4 DEF TypeOK, SendCandidate
<1>10. ASSUME Close(v) PROVE TypeOK'
  <2>1. inbox' \in [Peers -> Seq(Messages)] /\ room' \in SUBSET Peers
    BY <1>2, <1>10, LeaveFacts DEF Close
  <2>2. QED BY <1>10, <2>1 DEF TypeOK, Close, See
<1>11. QED BY <1>3, <1>4, <1>5, <1>6, <1>7, <1>8, <1>9, <1>10 DEF Reads, Answers

LEMMA OtherTypes ==
    ASSUME TypeOK, Connect \/ LinkFails \/ (\E p \in Peers : Drop(p)) \/ UNCHANGED vars
    PROVE  TypeOK'
<1>1. ASSUME Connect \/ LinkFails PROVE TypeOK'
  BY <1>1 DEF TypeOK, Connect, LinkFails, viewing
<1>2. ASSUME NEW p \in Peers, Drop(p) PROVE TypeOK'
  <2>1. inbox' \in [Peers -> Seq(Messages)] /\ room' \in SUBSET Peers
    BY <1>2, LeaveFacts DEF Drop
  <2>2. QED BY <1>2, <2>1 DEF TypeOK, Drop, hosting, viewing
<1>3. ASSUME UNCHANGED vars PROVE TypeOK'
  BY <1>3 DEF TypeOK, vars
<1>4. QED BY <1>1, <1>2, <1>3

LEMMA InitTypes == ASSUME Init PROVE TypeOK
<1>1. <<>> \in Seq(Messages) /\ Pages \in Nat /\ Candidates \in Nat /\ Host \in Peers
  BY PeerFacts, EmptySeq, SignalingAssumption
<1>2. inbox \in [Peers -> Seq(Messages)]
  BY <1>1 DEF Init
<1>3. left \in [Peers -> 0 .. Candidates]
  BY <1>1 DEF Init
<1>4. page \in 0 .. Pages
  BY <1>1 DEF Init
<1>5. knows \in [Peers -> SUBSET Peers]
  BY DEF Init
<1>6. QED BY <1>1, <1>2, <1>3, <1>4, <1>5 DEF Init, TypeOK

LEMMA NextTypes == ASSUME TypeOK, HostInv, [Next]_vars PROVE TypeOK'
  BY HostTypes, PageTypes, OtherTypes DEF Next

-------------------------------------------------------------------------------
(* What the steps do to the queues, index by index *)

LEMMA QueueType == ASSUME TypeOK, NEW p \in Peers
                   PROVE  /\ DOMAIN inbox[p] = 1 .. Len(inbox[p]) /\ Len(inbox[p]) \in Nat
                          /\ \A i \in DOMAIN inbox[p] : inbox[p][i] \in Messages
<1>1. inbox[p] \in Seq(Messages)
  BY DEF TypeOK
<1>2. QED BY <1>1, LenProperties

LEMMA AfterTake ==
    ASSUME TypeOK, NEW p \in Peers, inbox[p] # <<>>, Take(p)
    PROVE  /\ \A i \in DOMAIN inbox'[p] :
                 i + 1 \in DOMAIN inbox[p] /\ inbox'[p][i] = inbox[p][i + 1]
           /\ 1 \in DOMAIN inbox[p] /\ Head(inbox[p]) = inbox[p][1]
           /\ DOMAIN inbox'[p] = 1 .. Len(inbox'[p])
           /\ Len(inbox'[p]) = Len(inbox[p]) - 1 /\ Len(inbox'[p]) \in Nat
<1>1. inbox[p] \in Seq(Messages)
  BY DEF TypeOK
<1>2. inbox'[p] = Tail(inbox[p])
  BY TakeFacts
<1>3. QED BY <1>1, <1>2, Tailed

LEMMA AfterBroadcast ==
    ASSUME TypeOK, NEW p \in Peers, NEW m \in Messages, Broadcast(p, m), NEW q \in Peers
    PROVE  /\ \A i \in DOMAIN inbox[q] : i \in DOMAIN inbox'[q] /\ inbox'[q][i] = inbox[q][i]
           /\ \/ inbox'[q] = inbox[q] /\ ~(q # p /\ {p, q} \subseteq room)
              \/ /\ q # p /\ {p, q} \subseteq room
                 /\ Len(inbox'[q]) = Len(inbox[q]) + 1
                 /\ DOMAIN inbox'[q] = 1 .. (Len(inbox[q]) + 1)
                 /\ inbox'[q][Len(inbox[q]) + 1] = m
<1>1. inbox[q] \in Seq(Messages)
  BY DEF TypeOK
<1>2. CASE q # p /\ {p, q} \subseteq room /\ inbox'[q] = Append(inbox[q], m)
  BY <1>1, <1>2, Appended
<1>3. CASE ~(q # p /\ {p, q} \subseteq room) /\ inbox'[q] = inbox[q]
  BY <1>3
<1>4. QED BY <1>2, <1>3, BroadcastFacts

(* A broadcast of another message than the offer keeps the order, and what was   *)
(* answered stays so.                                                            *)
LEMMA BroadcastOrder ==
    ASSUME SignalingInv, NEW p \in Peers, NEW m \in Messages, Broadcast(p, m),
           m.type # "offer", early \subseteq early', refused' = refused,
           \A v \in Viewers : view[v] \in {"waiting", "closed"} => view'[v] = view[v]
    PROVE  OrderInv'
<1>1. TypeOK /\ OrderInv
  BY DEF SignalingInv
<1>2. ASSUME NEW v \in Viewers, NEW i \in DOMAIN inbox'[v], NEW j \in DOMAIN inbox'[v],
             i < j, Late(inbox[v][i])', inbox'[v][j].type = "offer"
      PROVE  FALSE
  <2>1. v \in Peers
    BY PeerFacts
  <2>2. DOMAIN inbox[v] = 1 .. Len(inbox[v]) /\ Len(inbox[v]) \in Nat
    BY <1>1, <2>1, QueueType
  <2>3. j \in DOMAIN inbox[v] /\ inbox'[v][j] = inbox[v][j]
    BY <1>1, <1>2, <2>1, <2>2, AfterBroadcast
  <2>4. i \in DOMAIN inbox[v] /\ inbox'[v][i] = inbox[v][i]
    BY <1>1, <1>2, <2>1, <2>2, <2>3, AfterBroadcast
  <2>5. Late(inbox[v][i])
    BY <1>2, <2>4 DEF Late
  <2>6. QED BY <1>1, <1>2, <2>3, <2>4, <2>5 DEF OrderInv
<1>3. ASSUME NEW r \in refused', r[1] # Host, Late(r[2])'
      PROVE  view'[r[1]] \in {"waiting", "closed"} /\ NoOffer(inbox[r[1]])'
  <2>1. r[1] \in Peers /\ r \in refused /\ Late(r[2])
    BY <1>1, <1>3 DEF TypeOK, Late
  <2>2. view[r[1]] \in {"waiting", "closed"} /\ NoOffer(inbox[r[1]])
    BY <1>1, <1>3, <2>1 DEF OrderInv
  <2>3. DOMAIN inbox[r[1]] = 1 .. Len(inbox[r[1]]) /\ Len(inbox[r[1]]) \in Nat
    BY <1>1, <2>1, QueueType
  <2>4. r[1] \in Viewers
    BY <1>3, <2>1 DEF Peers
  <2>5. QED BY <1>1, <2>1, <2>2, <2>3, <2>4, AfterBroadcast DEF NoOffer
<1>4. QED BY <1>2, <1>3 DEF OrderInv

-------------------------------------------------------------------------------
(* Steps that send and receive nothing: queues stay, or go with their peer. *)

LEMMA QuietStep ==
    ASSUME SignalingInv, TypeOK',
           early' = early, refused' = refused, peer' = peer,
           \A q \in Peers : inbox'[q] = inbox[q] \/ inbox'[q] = <<>>,
           Host \in room' => inbox'[Host] = inbox[Host],
           writing' => left'[Host] > 0,
           \A v \in Viewers : v > page' => view'[v] = "none",
           Unoffered' => Unoffered,
           \A v \in Viewers :
              /\ view'[v] \in {"applying", "described", "negotiating"} =>
                    view[v] \in {"applying", "described", "negotiating"}
              /\ view[v] \in {"waiting", "closed"} => view'[v] \in {"waiting", "closed"}
              /\ view'[v] = "negotiating" /\ Together(v)' =>
                    view[v] = "negotiating" /\ Together(v)
    PROVE  SignalingInv'
<1>1. /\ TypeOK /\ HostInv /\ OfferInv /\ OrderInv /\ AnswerInv
      /\ Host \in Peers /\ Viewers \subseteq Peers
  BY PeerFacts DEF SignalingInv
<1>2. \A q \in Peers : \A i \in DOMAIN inbox'[q] :
        inbox'[q] = inbox[q] /\ i \in DOMAIN inbox[q]
  OBVIOUS
<1>3. HostInv'
  BY <1>1, <1>2 DEF HostInv, NoOffer
<1>4. PageInv'
  BY DEF PageInv
<1>5. OfferInv'
  <2> SUFFICES ASSUME Unoffered' PROVE
        /\ \A v \in Viewers :
              /\ view'[v] \notin {"applying", "described", "negotiating"}
              /\ NoOffer(inbox[v])'
              /\ \A i \in DOMAIN inbox'[v] : ~Late(inbox[v][i])'
        /\ \A r \in refused' : ~Late(r[2])'
    BY DEF OfferInv
  <2>1. /\ \A v \in Viewers :
              /\ view[v] \notin {"applying", "described", "negotiating"}
              /\ NoOffer(inbox[v])
              /\ \A i \in DOMAIN inbox[v] : ~Late(inbox[v][i])
        /\ \A r \in refused : ~Late(r[2])
    BY <1>1 DEF OfferInv
  <2>2. ASSUME NEW v \in Viewers PROVE NoOffer(inbox[v])'
    BY <1>1, <1>2, <2>1 DEF NoOffer
  <2>3. ASSUME NEW v \in Viewers, NEW i \in DOMAIN inbox'[v] PROVE ~Late(inbox[v][i])'
    BY <1>1, <1>2, <2>1 DEF Late
  <2>4. \A r \in refused' : ~Late(r[2])'
    BY <2>1 DEF Late
  <2>5. QED BY <2>1, <2>2, <2>3, <2>4
<1>6. OrderInv'
  <2>1. ASSUME NEW v \in Viewers, NEW i \in DOMAIN inbox'[v], NEW j \in DOMAIN inbox'[v],
               i < j, Late(inbox[v][i])'
        PROVE  inbox'[v][j].type # "offer"
    BY <1>1, <1>2, <2>1 DEF OrderInv, Late
  <2>2. ASSUME NEW r \in refused', r[1] # Host, Late(r[2])'
        PROVE  view'[r[1]] \in {"waiting", "closed"} /\ NoOffer(inbox[r[1]])'
    <3>1. r \in refused /\ r[1] \in Viewers /\ Late(r[2])
      BY <1>1, <2>2 DEF TypeOK, Late, Peers
    <3>2. view[r[1]] \in {"waiting", "closed"} /\ NoOffer(inbox[r[1]])
      BY <1>1, <2>2, <3>1 DEF OrderInv
    <3>3. QED BY <1>1, <1>2, <3>1, <3>2 DEF NoOffer
  <2>3. QED BY <2>1, <2>2 DEF OrderInv
<1>7. AnswerInv'
  <2>1. ASSUME NEW i \in DOMAIN inbox'[Host], peer' = Host
        PROVE  \/ inbox'[Host][i] \in early' \/ inbox'[Host][i].type = "answer"
               \/ Answered(i)'
    BY <1>1, <1>2, <2>1 DEF AnswerInv, Answered
  <2>2. ASSUME NEW v \in Viewers, peer' = Host, view'[v] = "negotiating", Together(v)'
        PROVE  Answered(Len(inbox[Host]) + 1)'
    <3>1. inbox'[Host] = inbox[Host]
      BY <2>2 DEF Together
    <3>2. Answered(Len(inbox[Host]) + 1)
      BY <1>1, <2>2 DEF AnswerInv
    <3>3. QED BY <3>1, <3>2 DEF Answered
  <2>3. \A r \in refused' : r[1] = Host => r[2] \in early'
    BY <1>1 DEF AnswerInv
  <2>4. QED BY <2>1, <2>2, <2>3 DEF AnswerInv
<1>8. QED BY <1>3, <1>4, <1>5, <1>6, <1>7 DEF SignalingInv

LEMMA LeaveIsQuiet ==
    ASSUME TypeOK, NEW ps \in SUBSET Peers, Leave(ps)
    PROVE  /\ \A q \in Peers : inbox'[q] = inbox[q] \/ inbox'[q] = <<>>
           /\ Host \in room' => inbox'[Host] = inbox[Host]
           /\ room' \subseteq room
  BY LeaveFacts, PeerFacts

LEMMA QuietHost ==
    ASSUME SignalingInv, TypeOK',
           \/ Dial \/ Describe \/ BeginOffer \/ BeginCandidate
           \/ ConcurrentWrite \/ HostReadError
    PROVE  SignalingInv'
<1>1. /\ TypeOK /\ HostInv /\ PageInv /\ OfferInv
      /\ Host \in Peers /\ {Host} \in SUBSET Peers
  BY PeerFacts DEF SignalingInv
<1>2. ASSUME Dial PROVE SignalingInv'
  <2>1. \A v \in Viewers : view[v] # "negotiating"
    BY <1>1, <1>2 DEF Dial, OfferInv, Unoffered
  <2>2. QED BY <1>1, <1>2, <2>1, QuietStep
           DEF Dial, HostInv, PageInv, Unoffered, Together, viewing
<1>3. ASSUME Describe \/ BeginOffer PROVE SignalingInv'
  <2>1. CASE Describe /\ HostLeaves("ended")
    <3>1. /\ \A q \in Peers : inbox'[q] = inbox[q] \/ inbox'[q] = <<>>
          /\ Host \in room' => inbox'[Host] = inbox[Host]
          /\ room' \subseteq room
      BY <1>1, <2>1, LeaveIsQuiet DEF HostLeaves
    <3>2. QED BY <1>1, <2>1, <3>1, QuietStep
             DEF Describe, HostLeaves, PageInv, Unoffered, Together, viewing
  <2>2. QED BY <1>1, <1>3, <2>1, QuietStep
           DEF Describe, BeginOffer, HostInv, PageInv, Unoffered, Together, viewing
<1>4. ASSUME BeginCandidate PROVE SignalingInv'
  BY <1>1, <1>4, QuietStep
  DEF BeginCandidate, Gathers, HostInv, PageInv, Unoffered, Together, viewing
<1>5. ASSUME ConcurrentWrite PROVE SignalingInv'
  <2>1. /\ \A q \in Peers : inbox'[q] = inbox[q] \/ inbox'[q] = <<>>
        /\ Host \in room' => inbox'[Host] = inbox[Host]
        /\ room' \subseteq room
    BY <1>1, <1>5, LeaveIsQuiet DEF ConcurrentWrite, HostLeaves
  <2>2. QED BY <1>1, <1>5, <2>1, QuietStep
           DEF ConcurrentWrite, HostLeaves, PageInv, Unoffered, Together, viewing
<1>6. ASSUME HostReadError PROVE SignalingInv'
  <2>1. /\ \A q \in Peers : inbox'[q] = inbox[q] \/ inbox'[q] = <<>>
        /\ Host \in room' => inbox'[Host] = inbox[Host]
        /\ room' \subseteq room
    BY <1>1, <1>6, LeaveIsQuiet DEF HostReadError, HostLeaves
  <2>2. QED BY <1>1, <1>6, <2>1, QuietStep
           DEF HostReadError, HostLeaves, PageInv, Unoffered, Together, viewing
<1>7. QED BY <1>2, <1>3, <1>4, <1>5, <1>6

LEMMA QuietPages ==
    ASSUME SignalingInv, TypeOK',
           \/ Load
           \/ \E v \in Viewers : Join(v) \/ SetLocalDescription(v) \/ Close(v)
    PROVE  SignalingInv'
<1>1. /\ TypeOK /\ HostInv /\ PageInv
      /\ Host \in Peers /\ Viewers \subseteq Peers /\ \A v \in Viewers : v # Host
  BY PeerFacts DEF SignalingInv
<1>2. ASSUME Load PROVE SignalingInv'
  <2>1. page \in Nat /\ page' = page + 1 /\ page < Pages /\ Pages \in Nat
    BY <1>1, <1>2, SignalingAssumption DEF Load, TypeOK
  <2>2. PICK old \in SUBSET Closing({page} \cap Viewers) :
          /\ view' = [w \in Viewers |-> IF w = page + 1 THEN "loading"
                                        ELSE IF w \in old THEN "closed" ELSE view[w]]
          /\ Leave(old)
    BY <1>2 DEF Load
  <2>3. old \in SUBSET Peers /\ Host \notin old /\ old \subseteq {page}
    BY <1>1, <2>2 DEF Closing
  <2>4. /\ \A q \in Peers : inbox'[q] = inbox[q] \/ inbox'[q] = <<>>
        /\ Host \in room' => inbox'[Host] = inbox[Host]
        /\ room' \subseteq room
    BY <1>1, <2>2, <2>3, LeaveIsQuiet
  <2>5. \A v \in Viewers : v \in Nat /\ (v = page + 1 => view[v] = "none")
    BY <1>1, <2>1 DEF PageInv, Viewers
  <2>6. \A v \in Viewers : v > page' => view'[v] = "none"
    BY <1>1, <2>1, <2>2, <2>3, <2>5 DEF PageInv
  <2>7. \A v \in Viewers : \/ view'[v] = view[v]
                           \/ view'[v] = "loading" /\ view[v] = "none"
                           \/ view'[v] = "closed"
    BY <2>2, <2>5
  <2>8. UNCHANGED <<host, writing, peer, link, left, knows, early, refused>>
    BY <1>2 DEF Load, hosting
  <2>9. writing' => left'[Host] > 0
    BY <1>1, <2>8 DEF HostInv
  <2>10. \A v \in Viewers : Together(v)' => Together(v)
    BY <2>4 DEF Together
  <2>11. Unoffered' => Unoffered
    BY <2>8 DEF Unoffered
  <2>12. QED BY <2>4, <2>6, <2>7, <2>8, <2>9, <2>10, <2>11, QuietStep
<1>3. ASSUME NEW v \in Viewers, Join(v) PROVE SignalingInv'
  BY <1>1, <1>3, QuietStep
  DEF Join, See, TypeOK, HostInv, PageInv, Unoffered, Together, hosting
<1>4. ASSUME NEW v \in Viewers, SetLocalDescription(v) PROVE SignalingInv'
  BY <1>1, <1>4, QuietStep
  DEF SetLocalDescription, See, TypeOK, HostInv, PageInv, Unoffered, Together, hosting
<1>5. ASSUME NEW v \in Viewers, Close(v) PROVE SignalingInv'
  <2>1. /\ \A q \in Peers : inbox'[q] = inbox[q] \/ inbox'[q] = <<>>
        /\ Host \in room' => inbox'[Host] = inbox[Host]
        /\ room' \subseteq room
    BY <1>1, <1>5, LeaveIsQuiet DEF Close
  <2>2. QED BY <1>1, <1>5, <2>1, QuietStep
           DEF Close, See, TypeOK, HostInv, PageInv, Unoffered, Together, hosting
<1>6. QED BY <1>2, <1>3, <1>4, <1>5

LEMMA QuietOthers ==
    ASSUME SignalingInv, TypeOK',
           Connect \/ LinkFails \/ (\E p \in Peers : Drop(p)) \/ UNCHANGED vars
    PROVE  SignalingInv'
<1>1. /\ TypeOK /\ HostInv /\ PageInv
      /\ Host \in Peers /\ Viewers \subseteq Peers
  BY PeerFacts DEF SignalingInv
<1>2. ASSUME Connect \/ LinkFails \/ UNCHANGED vars PROVE SignalingInv'
  BY <1>1, <1>2, QuietStep
  DEF Connect, LinkFails, vars, HostInv, PageInv, Unoffered, Together, viewing
<1>3. ASSUME NEW p \in Peers, Drop(p) PROVE SignalingInv'
  <2>1. /\ \A q \in Peers : inbox'[q] = inbox[q] \/ inbox'[q] = <<>>
        /\ Host \in room' => inbox'[Host] = inbox[Host]
        /\ room' \subseteq room
    BY <1>3, <1>1, LeaveIsQuiet DEF Drop
  <2>2. QED BY <1>1, <1>3, <2>1, QuietStep
           DEF Drop, HostInv, PageInv, Unoffered, Together, hosting, viewing
<1>4. QED BY <1>2, <1>3

-------------------------------------------------------------------------------
(* Steps that send *)

(* The offer: nothing that is on its way follows it. *)
LEMMA OfferStep == ASSUME SignalingInv, TypeOK', EndOffer PROVE SignalingInv'
<1>1. /\ TypeOK /\ HostInv /\ PageInv /\ OfferInv /\ AnswerInv /\ Offer \in Messages
      /\ Host \in Peers /\ Viewers \subseteq Peers
  BY PeerFacts, MessageFacts DEF SignalingInv
<1>2. /\ Broadcast(Host, Offer) /\ host = "offering" /\ host' = "serving"
      /\ UNCHANGED <<writing, peer, link, room, left, knows, early, refused, page, view>>
  BY DEF EndOffer, viewing
<1>3. inbox'[Host] = inbox[Host]
  BY <1>1, <1>2, BroadcastFacts
<1>4. HostInv' /\ PageInv' /\ OfferInv' /\ AnswerInv'
  BY <1>1, <1>2, <1>3
  DEF HostInv, PageInv, OfferInv, AnswerInv, NoOffer, Unoffered, Answered, Together
<1>5. \A r \in refused : ~Late(r[2])
  BY <1>1, <1>2 DEF OfferInv, Unoffered
<1>6. ASSUME NEW v \in Viewers, NEW i \in DOMAIN inbox'[v], NEW j \in DOMAIN inbox'[v],
             i < j, Late(inbox[v][i])'
      PROVE  FALSE
  <2>1. DOMAIN inbox[v] = 1 .. Len(inbox[v]) /\ Len(inbox[v]) \in Nat
    BY <1>1, QueueType
  <2>2. i \in DOMAIN inbox[v] /\ inbox'[v][i] = inbox[v][i]
    BY <1>1, <1>2, <1>6, <2>1, AfterBroadcast
  <2>3. Late(inbox[v][i])
    BY <1>2, <1>6, <2>2 DEF Late
  <2>4. QED BY <1>1, <1>2, <2>2, <2>3 DEF OfferInv, Unoffered
<1>7. OrderInv'
  BY <1>2, <1>5, <1>6 DEF OrderInv, Late
<1>8. QED BY <1>4, <1>7 DEF SignalingInv

LEMMA HostCandidateStep == ASSUME SignalingInv, TypeOK', EndCandidate PROVE SignalingInv'
<1> DEFINE m == Candidate(Host, left[Host])
<1>1. /\ TypeOK /\ HostInv /\ PageInv /\ OfferInv /\ AnswerInv
      /\ Host \in Peers /\ Viewers \subseteq Peers
  BY PeerFacts DEF SignalingInv
<1>2. m \in Messages /\ m.type # "offer"
  BY <1>1, MessageFacts DEF TypeOK
<1>3. /\ Broadcast(Host, m) /\ writing' = FALSE
      /\ UNCHANGED <<host, peer, link, room, knows, refused, page, view>>
      /\ early' = IF host = "serving" THEN early ELSE early \cup {m}
  BY DEF EndCandidate, viewing
<1>4. inbox'[Host] = inbox[Host] /\ early \subseteq early'
  BY <1>1, <1>2, <1>3, BroadcastFacts
<1>5. HostInv' /\ PageInv'
  BY <1>1, <1>3, <1>4 DEF HostInv, PageInv, NoOffer
<1>6. AnswerInv'
  BY <1>1, <1>3, <1>4 DEF AnswerInv, Answered, Together
<1>7. OrderInv'
  BY <1>2, <1>1, <1>3, <1>4, BroadcastOrder
<1>8. OfferInv'
  <2> SUFFICES ASSUME Unoffered' PROVE
        /\ \A v \in Viewers :
              /\ view'[v] \notin {"applying", "described", "negotiating"}
              /\ NoOffer(inbox[v])'
              /\ \A i \in DOMAIN inbox'[v] : ~Late(inbox[v][i])'
        /\ \A r \in refused' : ~Late(r[2])'
    BY DEF OfferInv
  <2>1. /\ m \in early'
        /\ \A v \in Viewers :
              /\ view[v] \notin {"applying", "described", "negotiating"}
              /\ NoOffer(inbox[v])
              /\ \A i \in DOMAIN inbox[v] : ~Late(inbox[v][i])
        /\ \A r \in refused : ~Late(r[2])
    BY <1>1, <1>3 DEF OfferInv, Unoffered
  <2>2. ASSUME NEW v \in Viewers, NEW i \in DOMAIN inbox'[v]
        PROVE  inbox'[v][i].type # "offer" /\ ~Late(inbox[v][i])'
    <3>1. DOMAIN inbox[v] = 1 .. Len(inbox[v]) /\ Len(inbox[v]) \in Nat
      BY <1>1, QueueType
    <3>2. CASE i \in DOMAIN inbox[v]
      <4>1. inbox'[v][i] = inbox[v][i]
        BY <1>1, <1>2, <1>3, <3>2, AfterBroadcast
      <4>2. QED BY <1>4, <2>1, <3>2, <4>1 DEF NoOffer, Late
    <3>3. CASE i \notin DOMAIN inbox[v]
      <4>1. inbox'[v][i] = m
        BY <1>1, <1>2, <1>3, <3>1, <3>3, AfterBroadcast
      <4>2. QED BY <1>2, <2>1, <4>1 DEF Late
    <3>4. QED BY <3>2, <3>3
  <2>3. QED BY <1>3, <1>4, <2>1, <2>2 DEF NoOffer, Late
<1>9. QED BY <1>5, <1>6, <1>7, <1>8 DEF SignalingInv

(* A viewer has taken the offer before it sends anything: the host finds its     *)
(* answer, or has one.                                                           *)
LEMMA ViewerSends ==
    ASSUME SignalingInv, TypeOK', NEW v \in Viewers, NEW m \in Messages, Broadcast(v, m),
           m.from = v,
           m.type = "answer" \/ /\ m.type = "ice-candidate"
                                /\ m \in early' \/ view[v] = "negotiating",
           view[v] \in {"described", "negotiating"},
           view' = view \/ /\ view' = [view EXCEPT ![v] = "negotiating"]
                           /\ m.type = "answer",
           early \subseteq early', left'[Host] = left[Host],
           UNCHANGED <<host, writing, peer, page, room, refused>>
    PROVE  SignalingInv'
<1>1. /\ TypeOK /\ HostInv /\ PageInv /\ OfferInv /\ OrderInv /\ AnswerInv
      /\ Host \in Peers /\ v \in Peers /\ v # Host
  BY PeerFacts DEF SignalingInv
<1>2. ~Unoffered /\ ~Unoffered'
  BY <1>1 DEF OfferInv, Unoffered
<1>3. DOMAIN inbox[Host] = 1 .. Len(inbox[Host]) /\ Len(inbox[Host]) \in Nat
  BY <1>1, QueueType
<1>4. DOMAIN inbox'[Host] = 1 .. Len(inbox'[Host]) /\ Len(inbox'[Host]) \in Nat
  <2>1. inbox'[Host] \in Seq(Messages)
    BY <1>1 DEF TypeOK
  <2>2. QED BY <2>1, LenProperties
<1>5. \A i \in DOMAIN inbox[Host] : i \in DOMAIN inbox'[Host] /\ inbox'[Host][i] = inbox[Host][i]
  BY <1>1, AfterBroadcast
<1>6. \A i \in DOMAIN inbox'[Host] :
        i \in DOMAIN inbox[Host] \/ /\ i = Len(inbox[Host]) + 1 /\ inbox'[Host][i] = m
                                    /\ Together(v)
  BY <1>1, <1>3, AfterBroadcast DEF Together
<1>7. HostInv'
  BY <1>1, <1>5, <1>6 DEF HostInv, NoOffer
<1>8. PageInv'
  BY <1>1 DEF PageInv, TypeOK
<1>9. OfferInv'
  BY <1>2 DEF OfferInv
<1>10. OrderInv'
  <2>1. \A w \in Viewers : view[w] \in {"waiting", "closed"} => view'[w] = view[w]
    BY <1>1 DEF TypeOK
  <2>2. QED BY <1>1, <2>1, BroadcastOrder
<1>11. AnswerInv'
  <2>1. \A r \in refused' : r[1] = Host => r[2] \in early'
    BY <1>1 DEF AnswerInv
  <2> SUFFICES ASSUME peer = Host PROVE
        /\ \A i \in DOMAIN inbox'[Host] :
              inbox'[Host][i] \in early' \/ inbox'[Host][i].type = "answer" \/ Answered(i)'
        /\ \A w \in Viewers : view'[w] = "negotiating" /\ Together(w)' =>
              Answered(Len(inbox[Host]) + 1)'
    BY <2>1 DEF AnswerInv
  <2>2. \A i : Answered(i) => Answered(i)'
    BY <1>5 DEF Answered
  <2>3. view[v] = "negotiating" /\ Together(v) => Answered(Len(inbox[Host]) + 1)
    BY <1>1 DEF AnswerInv
  <2>4. ASSUME NEW i \in DOMAIN inbox'[Host]
        PROVE  inbox'[Host][i] \in early' \/ inbox'[Host][i].type = "answer" \/ Answered(i)'
    <3>1. CASE i \in DOMAIN inbox[Host]
      BY <1>1, <1>5, <2>2, <3>1 DEF AnswerInv
    <3>2. CASE i = Len(inbox[Host]) + 1 /\ inbox'[Host][i] = m /\ Together(v)
      BY <2>2, <2>3, <3>2
    <3>3. QED BY <1>6, <3>1, <3>2
  <2>5. ASSUME NEW w \in Viewers, view'[w] = "negotiating", Together(w)'
        PROVE  Answered(Len(inbox[Host]) + 1)'
    <3>1. CASE view[w] = "negotiating"
      <4>1. Answered(Len(inbox[Host]) + 1)
        BY <1>1, <2>5, <3>1 DEF AnswerInv, Together
      <4>2. PICK j \in DOMAIN inbox[Host] : inbox[Host][j].type = "answer"
        BY <4>1 DEF Answered
      <4>3. QED BY <1>4, <1>5, <4>2 DEF Answered
    <3>2. CASE view[w] # "negotiating"
      <4>1. w = v /\ m.type = "answer" /\ Together(v)
        BY <1>1, <2>5, <3>2 DEF TypeOK, Together
      <4>2. /\ Len(inbox[Host]) + 1 \in DOMAIN inbox'[Host]
            /\ inbox'[Host][Len(inbox[Host]) + 1] = m
        BY <1>1, <1>3, <4>1, AfterBroadcast DEF Together
      <4>3. QED BY <1>3, <1>4, <4>1, <4>2 DEF Answered
    <3>3. QED BY <3>1, <3>2
  <2>6. QED BY <2>4, <2>5
<1>12. QED BY <1>7, <1>8, <1>9, <1>10, <1>11 DEF SignalingInv

LEMMA SendSteps ==
    ASSUME SignalingInv, TypeOK', NEW v \in Viewers, SendAnswer(v) \/ SendCandidate(v)
    PROVE  SignalingInv'
<1>1. TypeOK /\ v \in Peers /\ v # Host /\ Host \in Peers
  BY PeerFacts DEF SignalingInv
<1>2. CASE SendAnswer(v)
  <2>1. Answer(v) \in Messages /\ Answer(v).from = v /\ Answer(v).type = "answer"
    BY <1>1, MessageFacts
  <2>2. QED BY <1>1, <1>2, <2>1, ViewerSends DEF SendAnswer, AnswerSent, See, hosting
<1>3. CASE SendCandidate(v)
  <2> DEFINE m == Candidate(v, left[v])
  <2>1. m \in Messages /\ m.from = v /\ m.type = "ice-candidate"
    BY <1>1, MessageFacts DEF TypeOK
  <2>2. left'[Host] = left[Host]
    BY <1>1, <1>3, LeftFacts DEF SendCandidate, Gathers
  <2>3. /\ Broadcast(v, m) /\ view[v] \in {"described", "negotiating"}
        /\ early' = IF view[v] = "negotiating" THEN early ELSE early \cup {m}
        /\ UNCHANGED <<host, writing, peer, page, view, room, refused>>
    BY <1>3 DEF SendCandidate, hosting
  <2>4. early \subseteq early' /\ (m \in early' \/ view[v] = "negotiating")
    BY <2>3
  <2>5. QED BY <2>1, <2>2, <2>3, <2>4, ViewerSends
<1>4. QED BY <1>2, <1>3

-------------------------------------------------------------------------------
(* Steps that receive *)

LEMMA ViewerReads ==
    ASSUME SignalingInv, TypeOK', NEW v \in Viewers, Reads(v)
    PROVE  SignalingInv'
<1> DEFINE m == Head(inbox[v])
<1>1. /\ TypeOK /\ HostInv /\ PageInv /\ OfferInv /\ OrderInv /\ AnswerInv
      /\ Host \in Peers /\ v \in Peers /\ v # Host
  BY PeerFacts DEF SignalingInv
<1>2. /\ inbox[v] # <<>> /\ Take(v)
      /\ UNCHANGED <<host, writing, peer, link, page, room, left, early>>
  BY DEF Reads, TakeOffer, TakeCandidate, SkipAnswer, hosting
<1>3. /\ \A q \in Peers \ {v} : inbox'[q] = inbox[q]
      /\ \A i \in DOMAIN inbox'[v] : i + 1 \in DOMAIN inbox[v] /\ inbox'[v][i] = inbox[v][i + 1]
      /\ 1 \in DOMAIN inbox[v] /\ m = inbox[v][1] /\ m \in Messages
      /\ DOMAIN inbox'[v] = 1 .. Len(inbox'[v]) /\ Len(inbox'[v]) \in Nat
  BY <1>1, <1>2, TakeFacts, AfterTake
<1>4. inbox'[Host] = inbox[Host]
  BY <1>1, <1>3
<1>5. \/ /\ TakeOffer(v) /\ m.type = "offer" /\ view[v] = "waiting"
         /\ view' = [view EXCEPT ![v] = "applying"] /\ refused' = refused
      \/ /\ ~TakeOffer(v) /\ m.type # "offer" /\ view' = view
         /\ \/ refused' = refused
            \/ /\ refused' \subseteq refused \cup {<<v, m>>}
               /\ view[v] = "waiting"
  <2>1. CASE TakeOffer(v)
    BY <2>1 DEF TakeOffer, See
  <2>2. CASE TakeCandidate(v)
    <3>1. AddCandidate(v, m, Able(v)) /\ view[v] \notin {"none", "loading", "closed"}
      BY <2>2 DEF TakeCandidate
    <3>2. \/ refused' = refused
          \/ refused' \subseteq refused \cup {<<v, m>>} /\ view[v] = "waiting"
      BY <1>1, <1>3, <3>1, CandidateFacts DEF Able, TypeOK
    <3>3. QED BY <2>2, <3>2 DEF TakeCandidate, TakeOffer
  <2>3. CASE SkipAnswer(v)
    BY <2>3 DEF SkipAnswer, TakeOffer
  <2>4. QED BY <2>1, <2>2, <2>3 DEF Reads
<1>6. HostInv' /\ PageInv'
  BY <1>1, <1>2, <1>4, <1>5 DEF HostInv, PageInv, NoOffer, TypeOK
<1>7. AnswerInv'
  <2>1. \A w \in Viewers : view'[w] = "negotiating" => view[w] = "negotiating"
    BY <1>1, <1>5 DEF TypeOK
  <2>2. \A r \in refused' : r[1] = Host => r \in refused
    BY <1>1, <1>5
  <2>3. QED BY <1>1, <1>2, <1>4, <2>1, <2>2 DEF AnswerInv, Answered, Together
<1>8. \A w \in Viewers : NoOffer(inbox[w]) => NoOffer(inbox[w])'
  BY <1>1, <1>3, PeerFacts DEF NoOffer
<1>9. OfferInv'
  <2> SUFFICES ASSUME Unoffered' PROVE
        /\ \A w \in Viewers :
              /\ view'[w] \notin {"applying", "described", "negotiating"}
              /\ NoOffer(inbox[w])'
              /\ \A i \in DOMAIN inbox'[w] : ~Late(inbox[w][i])'
        /\ \A r \in refused' : ~Late(r[2])'
    BY DEF OfferInv
  <2>1. /\ \A w \in Viewers :
              /\ view[w] \notin {"applying", "described", "negotiating"}
              /\ NoOffer(inbox[w])
              /\ \A i \in DOMAIN inbox[w] : ~Late(inbox[w][i])
        /\ \A r \in refused : ~Late(r[2])
    BY <1>1, <1>2 DEF OfferInv, Unoffered
  <2>2. m.type # "offer" /\ ~Late(m)
    BY <1>3, <2>1 DEF NoOffer
  <2>3. ASSUME NEW w \in Viewers, NEW i \in DOMAIN inbox'[w] PROVE ~Late(inbox[w][i])'
    <3>1. CASE w = v
      BY <1>2, <1>3, <2>1, <2>3, <3>1 DEF Late
    <3>2. CASE w # v
      BY <1>2, <1>3, <2>1, <2>3, <3>2, PeerFacts DEF Late
    <3>3. QED BY <3>1, <3>2
  <2>4. \A r \in refused' : ~Late(r[2])'
    BY <1>2, <1>5, <2>1, <2>2 DEF Late
  <2>5. QED BY <1>5, <1>8, <2>1, <2>2, <2>3, <2>4
<1>10. OrderInv'
  <2>1. ASSUME NEW w \in Viewers, NEW i \in DOMAIN inbox'[w], NEW j \in DOMAIN inbox'[w],
               i < j, Late(inbox[w][i])'
        PROVE  inbox'[w][j].type # "offer"
    <3>1. CASE w = v
      <4>1. i \in Nat /\ j \in Nat /\ i + 1 < j + 1
        BY <1>3, <2>1, <3>1
      <4>2. QED BY <1>1, <1>2, <1>3, <2>1, <3>1, <4>1 DEF OrderInv, Late
    <3>2. CASE w # v
      BY <1>1, <1>2, <1>3, <2>1, <3>2, PeerFacts DEF OrderInv, Late
    <3>3. QED BY <3>1, <3>2
  <2>2. ASSUME NEW r \in refused', r[1] # Host, Late(r[2])'
        PROVE  view'[r[1]] \in {"waiting", "closed"} /\ NoOffer(inbox[r[1]])'
    <3>1. CASE r \in refused
      <4>1. r[1] \in Viewers /\ Late(r[2])
        BY <1>1, <1>2, <2>2, <3>1 DEF TypeOK, Late, Peers
      <4>2. view[r[1]] \in {"waiting", "closed"} /\ NoOffer(inbox[r[1]])
        BY <1>1, <2>2, <3>1, <4>1 DEF OrderInv
      <4>3. r[1] = v => m.type # "offer"
        BY <1>3, <4>2 DEF NoOffer
      <4>4. view'[r[1]] = view[r[1]]
        BY <1>1, <1>5, <4>1, <4>3 DEF TypeOK
      <4>5. QED BY <1>8, <4>1, <4>2, <4>4
    <3>2. CASE r = <<v, m>> /\ view[v] = "waiting" /\ view' = view
      <4>1. Late(m)
        BY <1>2, <2>2, <3>2 DEF Late
      <4>2. \A j \in DOMAIN inbox'[v] : 1 < j + 1
        BY <1>3
      <4>3. NoOffer(inbox[v])'
        BY <1>1, <1>3, <4>1, <4>2 DEF OrderInv, NoOffer
      <4>4. QED BY <3>2, <4>3
    <3>3. QED BY <1>5, <2>2, <3>1, <3>2
  <2>3. QED BY <2>1, <2>2 DEF OrderInv
<1>11. QED BY <1>6, <1>7, <1>9, <1>10 DEF SignalingInv

LEMMA HostReads == ASSUME SignalingInv, TypeOK', HostReceives PROVE SignalingInv'
<1> DEFINE m == Head(inbox[Host])
<1>1. /\ TypeOK /\ HostInv /\ PageInv /\ OfferInv /\ OrderInv /\ AnswerInv
      /\ Host \in Peers /\ Viewers \subseteq Peers /\ \A v \in Viewers : v # Host
  BY PeerFacts DEF SignalingInv
<1>2. inbox[Host] # <<>> /\ host = "serving" /\ UNCHANGED <<left, early, page, view>>
  BY DEF HostReceives, viewing
<1>3. /\ 1 \in DOMAIN inbox[Host] /\ m = inbox[Host][1] /\ m \in Messages
      /\ m.from \in Peers /\ m.from # Host
  <2>1. inbox[Host] \in Seq(Messages)
    BY <1>1 DEF TypeOK
  <2>2. 1 \in DOMAIN inbox[Host] /\ m = inbox[Host][1] /\ m \in Messages
    BY <1>2, <2>1, Tailed
  <2>3. QED BY <1>1, <2>2 DEF HostInv, Messages
<1>4. \/ /\ link = "failed" /\ Leave({Host}) /\ host' = "ended" /\ writing' = FALSE
      \/ /\ Take(Host) /\ UNCHANGED <<host, writing, room>>
  BY DEF HostReceives, HostLeaves
<1>5. \/ /\ inbox'[Host] = <<>> /\ Host \notin room'
      \/ /\ room' = room
         /\ \A i \in DOMAIN inbox'[Host] :
               i + 1 \in DOMAIN inbox[Host] /\ inbox'[Host][i] = inbox[Host][i + 1]
         /\ Len(inbox'[Host]) = Len(inbox[Host]) - 1
  BY <1>1, <1>2, <1>4, LeaveFacts, AfterTake
<1>6. /\ \A v \in Viewers : inbox'[v] = inbox[v]
      /\ ~Unoffered'
      /\ writing' => writing
  BY <1>1, <1>2, <1>4, LeaveFacts, TakeFacts DEF Unoffered
<1>7. \/ /\ refused' = refused /\ (peer' = Host => peer = Host /\ m.type # "answer")
      \/ /\ m.type # "answer" /\ peer = Host
         /\ refused' \subseteq refused \cup {<<Host, m>>}
  <2>1. CASE m.type = "answer" /\ refused' = refused /\ peer' = (IF AcceptsAnswer THEN m.from ELSE peer)
    BY <1>3, <2>1 DEF AcceptsAnswer
  <2>2. CASE m.type = "ice-candidate" /\ AddCandidate(Host, m, peer # Host) /\ peer' = peer
    BY <1>1, <1>3, <2>2, CandidateFacts
  <2>3. QED BY <2>1, <2>2 DEF HostReceives
<1>8. HostInv'
  <2>1. \A i \in DOMAIN inbox'[Host] : inbox'[Host][i].from # Host /\ inbox'[Host][i].type # "offer"
    BY <1>1, <1>5 DEF HostInv, NoOffer
  <2>2. QED BY <1>1, <1>2, <1>6, <2>1 DEF HostInv, NoOffer
<1>9. PageInv' /\ OfferInv'
  BY <1>1, <1>2, <1>6 DEF PageInv, OfferInv
<1>10. OrderInv'
  <2>1. ASSUME NEW r \in refused', r[1] # Host, Late(r[2])'
        PROVE  view'[r[1]] \in {"waiting", "closed"} /\ NoOffer(inbox[r[1]])'
    <3>1. r \in refused
      BY <1>7, <2>1
    <3>2. r[1] \in Viewers /\ Late(r[2])
      BY <1>1, <1>2, <2>1, <3>1 DEF TypeOK, Late, Peers
    <3>3. QED BY <1>1, <1>2, <1>6, <2>1, <3>1, <3>2 DEF OrderInv, NoOffer
  <2>2. QED BY <1>1, <1>2, <1>6, <2>1 DEF OrderInv, Late
<1>11. AnswerInv'
  <2>1. ~Answered(1)
    BY <1>1, QueueType DEF Answered
  <2>2. \A r \in refused' : r[1] = Host => r[2] \in early'
    <3>1. peer = Host /\ m.type # "answer" => m \in early
      BY <1>1, <1>3, <2>1 DEF AnswerInv
    <3>2. QED BY <1>1, <1>2, <1>7, <3>1 DEF AnswerInv
  <2>3. ASSUME peer' = Host PROVE peer = Host /\ m.type # "answer"
    BY <1>7, <2>3 DEF HostReceives
  <2>4. ASSUME NEW i \in Nat, peer' = Host, Answered(i + 1), Take(Host) PROVE Answered(i)'
    <3>1. PICK j \in DOMAIN inbox[Host] : j < i + 1 /\ inbox[Host][j].type = "answer"
      BY <2>4 DEF Answered
    <3>2. DOMAIN inbox[Host] = 1 .. Len(inbox[Host]) /\ Len(inbox[Host]) \in Nat
      BY <1>1, QueueType
    <3>3. j # 1
      BY <1>3, <2>3, <2>4, <3>1
    <3>4. j - 1 \in DOMAIN inbox'[Host] /\ j - 1 < i /\ (j - 1) + 1 = j
      BY <1>1, <1>2, <2>4, <3>1, <3>2, <3>3, AfterTake
    <3>5. inbox'[Host][j - 1] = inbox[Host][j]
      BY <1>1, <1>2, <2>4, <3>4, AfterTake
    <3>6. QED BY <3>1, <3>4, <3>5 DEF Answered
  <2>5. ASSUME NEW i \in DOMAIN inbox'[Host], peer' = Host
        PROVE  inbox'[Host][i] \in early' \/ inbox'[Host][i].type = "answer" \/ Answered(i)'
    <3>1. Take(Host)
      <4>1. inbox'[Host] # <<>>
        BY <2>5
      <4>2. QED BY <1>1, <1>4, <4>1, LeaveFacts
    <3>2. i + 1 \in DOMAIN inbox[Host] /\ inbox'[Host][i] = inbox[Host][i + 1] /\ i \in Nat
      BY <1>1, <1>2, <2>5, <3>1, AfterTake
    <3>3. \/ inbox[Host][i + 1] \in early \/ inbox[Host][i + 1].type = "answer"
          \/ Answered(i + 1)
      BY <1>1, <2>3, <2>5, <3>2 DEF AnswerInv
    <3>4. QED BY <1>2, <2>4, <2>5, <3>1, <3>2, <3>3
  <2>6. ASSUME NEW v \in Viewers, peer' = Host, view'[v] = "negotiating", Together(v)'
        PROVE  Answered(Len(inbox[Host]) + 1)'
    <3>1. Take(Host) /\ room' = room
      BY <1>1, <1>4, <2>6, LeaveFacts DEF Together
    <3>2. Answered(Len(inbox[Host]) + 1)
      BY <1>1, <1>2, <2>3, <2>6, <3>1 DEF AnswerInv, Together
    <3>3. Len(inbox'[Host]) + 1 \in Nat /\ (Len(inbox'[Host]) + 1) + 1 = Len(inbox[Host]) + 1
      BY <1>1, <1>2, <3>1, AfterTake, QueueType
    <3>4. QED BY <2>4, <2>6, <3>1, <3>2, <3>3
  <2>7. QED BY <2>2, <2>5, <2>6 DEF AnswerInv
<1>12. QED BY <1>8, <1>9, <1>10, <1>11 DEF SignalingInv

-------------------------------------------------------------------------------
(* Theorems *)

(* The inductive invariant: nobody has a candidate that follows the offer before *)
(* the offer, and the host none that follows an answer before an answer.         *)
THEOREM SignalingCorrect == Spec => []SignalingInv
<1>1. Init => SignalingInv
  <2> SUFFICES ASSUME Init PROVE SignalingInv
    OBVIOUS
  <2>1. TypeOK
    BY InitTypes
  <2>2. /\ \A p \in Peers : inbox[p] = <<>> /\ DOMAIN inbox[p] = {}
        /\ \A v \in Viewers : view[v] = "none"
        /\ refused = {} /\ writing = FALSE /\ Host \in Peers /\ Viewers \subseteq Peers
    BY PeerFacts DEF Init
  <2>3. QED BY <2>1, <2>2
           DEF SignalingInv, HostInv, PageInv, OfferInv, OrderInv, AnswerInv, NoOffer, Late
<1>2. SignalingInv /\ [Next]_vars => SignalingInv'
  <2> SUFFICES ASSUME SignalingInv, [Next]_vars PROVE SignalingInv'
    OBVIOUS
  <2>1. TypeOK'
    BY NextTypes DEF SignalingInv
  <2>2. CASE HostSteps \/ GatherSteps \/ ConcurrentWrite
    BY <2>1, <2>2, QuietHost, OfferStep, HostCandidateStep, HostReads
    DEF HostSteps, HostWrites, GatherSteps
  <2>3. ASSUME NEW v \in Viewers, Reads(v) \/ Answers(v) \/ SendCandidate(v) \/ Close(v)
        PROVE  SignalingInv'
    BY <2>1, <2>3, QuietPages, SendSteps, ViewerReads DEF Answers
  <2>4. CASE Load
    BY <2>1, <2>4, QuietPages
  <2>5. CASE Connect \/ LinkFails \/ (\E p \in Peers : Drop(p)) \/ UNCHANGED vars
    BY <2>1, <2>5, QuietOthers
  <2>6. QED BY <2>2, <2>3, <2>4, <2>5 DEF Next
<1>3. QED BY <1>1, <1>2, PTL DEF Spec

(* Everybody and every message stays of its kind: the host is never sent an      *)
(* offer, for which session.go has no case.                                      *)
THEOREM SignalingTypeCorrect == Spec => []TypeOK
<1>1. SignalingInv => TypeOK
  BY DEF SignalingInv
<1>2. QED BY <1>1, SignalingCorrect, PTL

(* However many pages answer, drop out or come late, a candidate between the     *)
(* host and a viewer is swallowed (session.go:132, viewer.js:139) only when it   *)
(* was sent before the description of its sender, or came to a page that is too  *)
(* late to get the offer.                                                        *)
THEOREM NoCandidateLost == Spec => []CandidatesKept
<1>1. SignalingInv => CandidatesKept
  <2> SUFFICES ASSUME SignalingInv, NEW r \in refused
               PROVE  \/ r[2] \in early
                      \/ r[1] # Host /\ (r[2].from # Host \/ view[r[1]] \in {"waiting", "closed"})
    BY DEF CandidatesKept
  <2>1. CASE r[1] = Host
    BY <2>1 DEF SignalingInv, AnswerInv
  <2>2. CASE r[1] # Host
    BY <2>2 DEF SignalingInv, OrderInv, Late
  <2>3. QED BY <2>1, <2>2
<1>2. QED BY <1>1, SignalingCorrect, PTL

(* Two viewers may answer the same offer, in any order and with drops in between;*)
(* the host (session.go:112) never changes over from one to the other.           *)
THEOREM NoTakeover == Spec => FirstAnswerStays
<1>1. ASSUME [Next]_vars, peer # Host PROVE peer' = peer
  <2>1. CASE HostReceives
    BY <1>1, <2>1 DEF HostReceives, AcceptsAnswer
  <2>2. CASE Dial \/ Describe \/ BeginOffer \/ EndOffer \/ HostReadError \/ GatherSteps \/ ConcurrentWrite
    BY <2>2 DEF Dial, Describe, BeginOffer, EndOffer, HostReadError, GatherSteps,
                BeginCandidate, EndCandidate, ConcurrentWrite
  <2>3. ASSUME NEW v \in Viewers, Reads(v) \/ Answers(v) \/ SendCandidate(v) \/ Close(v)
        PROVE  peer' = peer
    BY <2>3 DEF Reads, Answers, TakeOffer, TakeCandidate, SkipAnswer, Join,
                SetLocalDescription, SendAnswer, SendCandidate, Close, hosting
  <2>4. CASE Load \/ Connect \/ LinkFails \/ (\E p \in Peers : Drop(p)) \/ UNCHANGED vars
    BY <2>4 DEF Load, Connect, LinkFails, Drop, hosting, vars
  <2>5. QED BY <1>1, <2>1, <2>2, <2>3, <2>4 DEF Next, HostSteps, HostWrites
<1>2. QED BY <1>1, PTL DEF Spec, FirstAnswerStays

-------------------------------------------------------------------------------
(* Signaling implements Handshake *)

LEMMA ViewsOn ==
    ASSUME TypeOK, PageInv, [Next]_vars, NEW v \in Viewers,
           view[v] \in {"negotiating", "closed"}
    PROVE  view'[v] \in {"negotiating", "closed"}
<1>1. CASE Load
  <2>1. page \in Nat /\ v \in Nat
    BY SignalingAssumption DEF TypeOK, Viewers
  <2>2. v # page + 1
    BY <2>1 DEF PageInv
  <2>3. QED BY <1>1, <2>2 DEF Load
<1>2. CASE HostSteps \/ GatherSteps \/ ConcurrentWrite
  BY <1>2 DEF HostSteps, HostWrites, GatherSteps, Dial, Describe, BeginOffer, EndOffer,
     HostReceives, HostReadError, BeginCandidate, EndCandidate, ConcurrentWrite, viewing
<1>3. ASSUME NEW w \in Viewers, Reads(w) \/ Answers(w) \/ SendCandidate(w) \/ Close(w)
      PROVE  view'[v] \in {"negotiating", "closed"}
  BY <1>3 DEF TypeOK, Reads, Answers, TakeOffer, TakeCandidate, SkipAnswer, Join,
     SetLocalDescription, SendAnswer, SendCandidate, Close, See
<1>4. CASE Connect \/ LinkFails \/ (\E p \in Peers : Drop(p)) \/ UNCHANGED vars
  BY <1>4 DEF Connect, LinkFails, Drop, viewing, vars
<1>5. QED BY <1>1, <1>2, <1>3, <1>4 DEF Next

(* The host's queue stays, is emptied (k is 0) or loses its head (k is 1). *)
LEMMA OnceKept ==
    ASSUME TypeOK, TypeOK', OnceInv, NEW k \in {0, 1},
           \A i \in DOMAIN inbox'[Host] :
              i + k \in DOMAIN inbox[Host] /\ inbox'[Host][i] = inbox[Host][i + k],
           \A v \in Viewers : view[v] \in {"negotiating", "closed"} =>
              view'[v] \in {"negotiating", "closed"},
           link' # "none" => peer' # Host, link' = "up" => host' = "serving"
    PROVE  OnceInv' /\ OnTheWay' \subseteq OnTheWay
<1>1. DOMAIN inbox'[Host] \subseteq Nat
  BY PeerFacts, LenProperties DEF TypeOK
<1>2. \A i \in DOMAIN inbox'[Host] : AnswerAt(i)' => AnswerAt(i + k)
  BY DEF AnswerAt
<1>3. OnTheWay' \subseteq OnTheWay
  <2> SUFFICES ASSUME NEW v \in Viewers, NEW i \in DOMAIN inbox'[Host], AnswerAt(i)',
                      inbox'[Host][i].from = v
               PROVE  v \in OnTheWay
    BY DEF OnTheWay
  <2>1. i + k \in DOMAIN inbox[Host] /\ AnswerAt(i + k) /\ inbox[Host][i + k].from = v
    BY <1>2
  <2>2. QED BY <2>1 DEF OnTheWay
<1>4. ASSUME NEW i \in DOMAIN inbox'[Host], NEW j \in DOMAIN inbox'[Host],
             AnswerAt(i)', AnswerAt(j)', inbox'[Host][i].from = inbox'[Host][j].from
      PROVE  i = j
  <2>1. /\ i + k \in DOMAIN inbox[Host] /\ AnswerAt(i + k)
        /\ j + k \in DOMAIN inbox[Host] /\ AnswerAt(j + k)
        /\ inbox[Host][i + k].from = inbox[Host][j + k].from
    BY <1>2, <1>4
  <2>2. i + k = j + k
    BY <2>1 DEF OnceInv
  <2>3. QED BY <1>1, <2>2
<1>5. \A v \in OnTheWay' : view'[v] \in {"negotiating", "closed"}
  BY <1>3 DEF OnceInv, OnTheWay
<1>6. QED BY <1>3, <1>4, <1>5 DEF OnceInv

LEMMA OnceSame ==
    ASSUME TypeOK, TypeOK', OnceInv, inbox'[Host] = inbox[Host],
           \A v \in Viewers : view[v] \in {"negotiating", "closed"} =>
              view'[v] \in {"negotiating", "closed"},
           link' # "none" => peer' # Host, link' = "up" => host' = "serving"
    PROVE  OnceInv' /\ OnTheWay' = OnTheWay
<1>1. DOMAIN inbox[Host] \subseteq Nat
  BY PeerFacts, LenProperties DEF TypeOK
<1>2. \A i \in DOMAIN inbox'[Host] :
         i + 0 \in DOMAIN inbox[Host] /\ inbox'[Host][i] = inbox[Host][i + 0]
  BY <1>1
<1>3. OnceInv'
  BY <1>2, OnceKept
<1>4. OnTheWay' = OnTheWay
  BY DEF OnTheWay, AnswerAt
<1>5. QED BY <1>3, <1>4

(* A viewer sends a candidate, or its only answer. *)
LEMMA OnceGrows ==
    ASSUME TypeOK, OnceInv, NEW p \in Viewers, NEW m \in Messages, Broadcast(p, m),
           m.from = p,
           m.type # "answer" \/ (p \notin OnTheWay /\ view'[p] = "negotiating"),
           \A v \in Viewers : view[v] \in {"negotiating", "closed"} =>
              view'[v] \in {"negotiating", "closed"},
           UNCHANGED <<host, peer, link>>
    PROVE  /\ OnceInv' /\ OnTheWay' \in {OnTheWay, OnTheWay \cup {p}}
           /\ m.type # "answer" => OnTheWay' = OnTheWay
<1>0. /\ Host \in Peers /\ p \in Peers
      /\ DOMAIN inbox[Host] = 1 .. Len(inbox[Host]) /\ Len(inbox[Host]) \in Nat
  BY PeerFacts, QueueType
<1> PICK n \in Nat : n = Len(inbox[Host]) + 1
  BY <1>0
<1>1. /\ Host \in Peers /\ p \in Peers
      /\ DOMAIN inbox[Host] = 1 .. n - 1 /\ n - 1 \in Nat
  BY <1>0
<1>2. \/ inbox'[Host] = inbox[Host]
      \/ /\ \A i \in DOMAIN inbox[Host] : inbox'[Host][i] = inbox[Host][i]
         /\ DOMAIN inbox'[Host] = 1 .. n /\ inbox'[Host][n] = m
  BY <1>0, AfterBroadcast
<1>3. CASE inbox'[Host] = inbox[Host]
  <2>1. OnTheWay' = OnTheWay /\ \A i : AnswerAt(i)' <=> AnswerAt(i)
    BY <1>3 DEF OnTheWay, AnswerAt
  <2>2. \A v \in OnTheWay' : view'[v] \in {"negotiating", "closed"}
    BY <2>1 DEF OnceInv, OnTheWay
  <2>3. OnceInv'
    BY <1>3, <2>1, <2>2 DEF OnceInv
  <2>4. QED BY <2>1, <2>3
<1>4. CASE /\ \A i \in DOMAIN inbox[Host] : inbox'[Host][i] = inbox[Host][i]
           /\ DOMAIN inbox'[Host] = 1 .. n /\ inbox'[Host][n] = m
  <2>1. DOMAIN inbox'[Host] = DOMAIN inbox[Host] \cup {n} /\ n \notin DOMAIN inbox[Host]
    BY <1>1, <1>4
  <2>2. \A i \in DOMAIN inbox[Host] : AnswerAt(i)' <=> AnswerAt(i)
    BY <1>4, <2>1 DEF AnswerAt
  <2>3. AnswerAt(n)' <=> m.type = "answer"
    BY <1>4, <2>1 DEF AnswerAt
  <2>4. OnTheWay \subseteq OnTheWay'
    BY <1>4, <2>1, <2>2 DEF OnTheWay
  <2>5. ASSUME NEW v \in OnTheWay' PROVE v \in OnTheWay \/ (v = p /\ m.type = "answer")
    <3>1. PICK i \in DOMAIN inbox'[Host] : AnswerAt(i)' /\ inbox'[Host][i].from = v
      BY <2>5 DEF OnTheWay
    <3>2. CASE i = n
      BY <1>4, <2>3, <3>1, <3>2
    <3>3. CASE i \in DOMAIN inbox[Host]
      BY <1>4, <2>2, <2>5, <3>1, <3>3 DEF OnTheWay
    <3>4. QED BY <2>1, <3>2, <3>3
  <2>6. OnTheWay' \in {OnTheWay, OnTheWay \cup {p}}
        /\ (m.type # "answer" => OnTheWay' = OnTheWay)
    BY <2>4, <2>5
  <2>7. \A v \in OnTheWay' : view'[v] \in {"negotiating", "closed"}
    BY <2>5 DEF OnceInv, OnTheWay
  <2>8. \A i \in DOMAIN inbox[Host] : AnswerAt(i) /\ m.type = "answer" =>
           inbox[Host][i].from # p
    BY DEF OnTheWay
  <2>9. ASSUME NEW i \in DOMAIN inbox'[Host], NEW j \in DOMAIN inbox'[Host],
               AnswerAt(i)', AnswerAt(j)', inbox'[Host][i].from = inbox'[Host][j].from
        PROVE  i = j
    <3>1. CASE i \in DOMAIN inbox[Host] /\ j \in DOMAIN inbox[Host]
      BY <1>4, <2>2, <2>9, <3>1 DEF OnceInv
    <3>2. CASE i = n /\ j \in DOMAIN inbox[Host]
      BY <1>4, <2>2, <2>3, <2>8, <2>9, <3>2
    <3>3. CASE j = n /\ i \in DOMAIN inbox[Host]
      BY <1>4, <2>2, <2>3, <2>8, <2>9, <3>3
    <3>4. QED BY <2>1, <3>1, <3>2, <3>3
  <2>10. OnceInv'
    BY <2>7, <2>9 DEF OnceInv
  <2>11. QED BY <2>6, <2>10
<1>5. QED BY <1>2, <1>3, <1>4

LEMMA PhaseSame ==
    ASSUME view' = view
    PROVE  [v \in Viewers |-> Phase(v)]' = [v \in Viewers |-> Phase(v)]
  BY DEF Phase

LEMMA PhaseMoves ==
    ASSUME NEW v \in Viewers, NEW ph, Phase(v)' = ph,
           \A w \in Viewers \ {v} : view'[w] = view[w]
    PROVE  Shakes!Becomes(v, ph)
<1>1. \A w \in Viewers \ {v} : Phase(w)' = Phase(w)
  BY DEF Phase
<1>2. QED BY <1>1 DEF Shakes!Becomes

LEMMA HandshakeQuiet ==
    ASSUME HostPhase' = HostPhase, OnTheWay' = OnTheWay, UNCHANGED <<peer, link>>,
           [v \in Viewers |-> Phase(v)]' = [v \in Viewers |-> Phase(v)]
    PROVE  UNCHANGED Shakes!vars
  BY DEF Shakes!vars

(* RunSession returns, from wherever it is. *)
LEMMA LeavingHost ==
    ASSUME SignalingInv, OnceInv, TypeOK', NEW how \in {"ended", "crashed"},
           HostLeaves(how), ~HostGone, UNCHANGED <<view, peer>>
    PROVE  OnceInv' /\ Shakes!HostGoes
<1>1. TypeOK /\ Host \in Peers
  BY PeerFacts DEF SignalingInv
<1>2. inbox'[Host] = <<>>
  BY <1>1, PeerFacts, LeaveFacts DEF HostLeaves
<1>3. (link' # "none" => peer' # Host) /\ link' # "up"
  BY DEF HostLeaves, OnceInv
<1>4. OnceInv' /\ OnTheWay' \subseteq OnTheWay
  <2>1. \A i \in DOMAIN inbox'[Host] :
           i + 0 \in DOMAIN inbox[Host] /\ inbox'[Host][i] = inbox[Host][i + 0]
    BY <1>2
  <2>2. QED BY <1>1, <1>3, <2>1, OnceKept
<1>5. HostPhase' = "gone" /\ HostPhase # "gone"
  BY <1>1 DEF HostPhase, Unoffered, HostLeaves, HostGone, TypeOK
<1>6. QED BY <1>4, <1>5, PhaseSame DEF Shakes!HostGoes, HostLeaves

(* The host hears an answer, or takes a candidate. *)
LEMMA HearingHost ==
    ASSUME SignalingInv, OnceInv, TypeOK', HostReceives
    PROVE  OnceInv' /\ [Shakes!Next]_(Shakes!vars)
<1> DEFINE m == Head(inbox[Host])
<1>1. /\ TypeOK /\ HostInv /\ Host \in Peers
      /\ host = "serving" /\ inbox[Host] # <<>> /\ view' = view
  BY PeerFacts DEF SignalingInv, HostReceives, viewing
<1>2. /\ 1 \in DOMAIN inbox[Host] /\ m = inbox[Host][1] /\ m \in Messages
      /\ DOMAIN inbox[Host] = 1 .. Len(inbox[Host]) /\ Len(inbox[Host]) \in Nat
      /\ m.from \in Viewers
  <2>1. inbox[Host] \in Seq(Messages)
    BY <1>1 DEF TypeOK
  <2>2. 1 \in DOMAIN inbox[Host] /\ m = inbox[Host][1] /\ m \in Messages
    BY <1>1, <2>1, Tailed
  <2>3. QED BY <1>1, <2>2, QueueType DEF HostInv, Messages, Peers
<1>3. CASE link = "failed"
  <2>1. peer # Host
    BY <1>3 DEF OnceInv
  <2>2. peer' = peer /\ HostLeaves("ended")
    BY <1>3, <2>1 DEF HostReceives, AcceptsAnswer
  <2>3. OnceInv' /\ Shakes!HostGoes
    BY <1>1, <2>2, LeavingHost DEF HostGone
  <2>4. QED BY <2>3 DEF Shakes!Next
<1>4. CASE link # "failed"
  <2>1. Take(Host) /\ UNCHANGED <<host, link>>
    BY <1>4 DEF HostReceives
  <2>2. /\ \A i \in DOMAIN inbox'[Host] :
              i + 1 \in DOMAIN inbox[Host] /\ inbox'[Host][i] = inbox[Host][i + 1]
        /\ DOMAIN inbox'[Host] = 1 .. Len(inbox[Host]) - 1
    BY <1>1, <2>1, AfterTake
  <2>3. (link' # "none" => peer' # Host) /\ (link' = "up" => host' = "serving")
    BY <1>1, <1>2, <2>1, PeerFacts DEF OnceInv, HostReceives
  <2>4. OnceInv' /\ OnTheWay' \subseteq OnTheWay
    BY <1>1, <2>2, <2>3, OnceKept
  <2>5. ASSUME NEW v \in OnTheWay, m.type # "answer" \/ v # m.from
        PROVE  v \in OnTheWay'
    <3>1. PICK i \in DOMAIN inbox[Host] : AnswerAt(i) /\ inbox[Host][i].from = v
      BY <2>5 DEF OnTheWay
    <3>2. i # 1
      BY <1>2, <2>5, <3>1 DEF AnswerAt
    <3>3. PICK j \in Nat : j = i - 1
      BY <1>2, <3>2
    <3>4. j \in DOMAIN inbox'[Host] /\ j + 1 = i
      BY <1>2, <2>2, <3>2, <3>3
    <3>5. inbox'[Host][j] = inbox[Host][i]
      BY <2>2, <3>4
    <3>6. AnswerAt(j)'
      BY <3>1, <3>4, <3>5 DEF AnswerAt
    <3>7. QED BY <2>5, <3>1, <3>4, <3>5, <3>6 DEF OnTheWay
  <2>6. HostPhase' = HostPhase /\ HostPhase = "offered"
    BY <1>1, <2>1 DEF HostPhase, Unoffered
  <2>7. CASE m.type = "answer"
    <3>1. PICK v \in Viewers : v = m.from
      BY <1>2
    <3>2. v \in OnTheWay
      BY <1>2, <2>7, <3>1 DEF OnTheWay, AnswerAt
    <3>3. v \notin OnTheWay'
      <4> SUFFICES ASSUME NEW i \in DOMAIN inbox'[Host], AnswerAt(i)',
                          inbox'[Host][i].from = v
                   PROVE  FALSE
        BY DEF OnTheWay
      <4>1. i + 1 \in DOMAIN inbox[Host] /\ AnswerAt(i + 1) /\ inbox[Host][i + 1].from = v
        BY <2>2 DEF AnswerAt
      <4>2. AnswerAt(1)
        BY <1>2, <2>7 DEF AnswerAt
      <4>3. i + 1 = 1
        BY <1>2, <3>1, <4>1, <4>2 DEF OnceInv
      <4>4. QED BY <1>2, <2>2, <4>3
    <3>4. OnTheWay' = OnTheWay \ {v}
      BY <2>4, <2>5, <3>1, <3>3
    <3>5. peer' = IF peer = Host THEN v ELSE peer
      BY <2>7, <3>1 DEF HostReceives, AcceptsAnswer
    <3>6. Shakes!Hear(v)
      BY <1>1, <2>1, <2>6, <3>2, <3>4, <3>5, PhaseSame DEF Shakes!Hear
    <3>7. QED BY <2>4, <3>6 DEF Shakes!Next
  <2>8. CASE m.type # "answer"
    <3>1. OnTheWay' = OnTheWay
      BY <2>4, <2>5, <2>8
    <3>2. peer' = peer
      BY <2>8 DEF HostReceives
    <3>3. QED BY <1>1, <2>1, <2>4, <2>6, <3>1, <3>2, PhaseSame, HandshakeQuiet
  <2>9. QED BY <2>7, <2>8
<1>5. QED BY <1>3, <1>4

LEMMA HostHandshake ==
    ASSUME SignalingInv, OnceInv, TypeOK', HostSteps \/ GatherSteps \/ ConcurrentWrite
    PROVE  OnceInv' /\ [Shakes!Next]_(Shakes!vars)
<1>1. TypeOK /\ HostInv /\ Host \in Peers
  BY PeerFacts DEF SignalingInv
<1>2. ASSUME inbox'[Host] = inbox[Host], UNCHANGED <<view, peer, link>>,
             host = "serving" => host' = "serving"
      PROVE  /\ OnceInv' /\ OnTheWay' = OnTheWay
             /\ HostPhase' = HostPhase => UNCHANGED Shakes!vars
  <2>1. OnceInv' /\ OnTheWay' = OnTheWay
    BY <1>1, <1>2, OnceSame DEF OnceInv
  <2>2. QED BY <1>2, <2>1, PhaseSame, HandshakeQuiet
<1>3. CASE Dial
  <2>1. inbox'[Host] = inbox[Host] /\ UNCHANGED <<view, peer, link>>
    BY <1>3 DEF Dial, viewing
  <2>2. OnceInv' /\ OnTheWay' = OnTheWay /\ (HostPhase' = HostPhase => UNCHANGED Shakes!vars)
    BY <1>2, <1>3, <2>1 DEF Dial
  <2>3. CASE host' = "joined"
    BY <1>3, <2>2, <2>3 DEF Dial, HostPhase, Unoffered
  <2>4. CASE host' = "ended"
    <3>1. HostPhase = "before" /\ HostPhase' = "gone"
      BY <1>3, <2>4 DEF Dial, HostPhase, Unoffered
    <3>2. link # "up"
      BY <1>3 DEF Dial, OnceInv
    <3>3. Shakes!HostGoes
      BY <2>1, <2>2, <3>1, <3>2, PhaseSame DEF Shakes!HostGoes
    <3>4. QED BY <2>2, <3>3 DEF Shakes!Next
  <2>5. QED BY <1>3, <2>3, <2>4 DEF Dial
<1>4. CASE (Describe /\ host' = "described") \/ BeginOffer \/ BeginCandidate
  <2>0. Describe /\ host' = "described" => UNCHANGED <<inbox, link>>
    BY DEF Describe, HostLeaves
  <2>1. inbox'[Host] = inbox[Host] /\ UNCHANGED <<view, peer, link>>
    BY <1>4, <2>0 DEF Describe, BeginOffer, BeginCandidate, viewing
  <2>2. HostPhase' = HostPhase
    BY <1>4 DEF Describe, BeginOffer, BeginCandidate, HostPhase, Unoffered
  <2>3. QED BY <1>2, <1>4, <2>1, <2>2 DEF Describe, BeginOffer, BeginCandidate
<1>10. CASE Describe /\ HostLeaves("ended")
  <2>1. OnceInv' /\ Shakes!HostGoes
    BY <1>10, LeavingHost DEF Describe, HostGone, viewing
  <2>2. QED BY <2>1 DEF Shakes!Next
<1>11. Describe => host' = "described" \/ HostLeaves("ended")
  BY DEF Describe
<1>5. CASE EndOffer
  <2>1. inbox'[Host] = inbox[Host] /\ UNCHANGED <<view, peer, link>>
    BY <1>1, <1>5, MessageFacts, BroadcastFacts DEF EndOffer, viewing
  <2>2. OnceInv' /\ OnTheWay' = OnTheWay
    BY <1>2, <1>5, <2>1 DEF EndOffer
  <2>3. HostPhase = "before" /\ HostPhase' = "offered"
    BY <1>5 DEF EndOffer, HostPhase, Unoffered
  <2>4. Shakes!Offer
    BY <2>1, <2>2, <2>3, PhaseSame DEF Shakes!Offer
  <2>5. QED BY <2>2, <2>4 DEF Shakes!Next
<1>6. CASE EndCandidate
  <2>1. Candidate(Host, left[Host]) \in Messages
    BY <1>1, MessageFacts DEF TypeOK
  <2>2. inbox'[Host] = inbox[Host] /\ UNCHANGED <<view, peer, link>>
    BY <1>1, <1>6, <2>1, BroadcastFacts DEF EndCandidate, viewing
  <2>3. HostPhase' = HostPhase
    BY <1>6 DEF EndCandidate, HostPhase, Unoffered
  <2>4. QED BY <1>2, <1>6, <2>2, <2>3 DEF EndCandidate
<1>7. CASE ConcurrentWrite
  <2>1. OnceInv' /\ Shakes!HostGoes
    BY <1>7, LeavingHost DEF ConcurrentWrite, HostGone, viewing
  <2>2. QED BY <2>1 DEF Shakes!Next
<1>8. CASE HostReadError
  <2>1. OnceInv' /\ Shakes!HostGoes
    BY <1>8, LeavingHost DEF HostReadError, HostGone, viewing
  <2>2. QED BY <2>1 DEF Shakes!Next
<1>9. QED BY <1>3, <1>4, <1>5, <1>6, <1>7, <1>8, <1>10, <1>11, HearingHost
         DEF HostSteps, HostWrites, GatherSteps

(* What no step of a page or of the network touches. *)
LEMMA HostStays ==
    ASSUME UNCHANGED hosting
    PROVE  HostPhase' = HostPhase /\ UNCHANGED <<host, peer, link>>
  BY DEF hosting, HostPhase, Unoffered

LEMMA ViewerHandshake ==
    ASSUME SignalingInv, OnceInv, TypeOK', [Next]_vars,
           NEW v \in Viewers, Reads(v) \/ Answers(v) \/ SendCandidate(v) \/ Close(v)
    PROVE  OnceInv' /\ [Shakes!Next]_(Shakes!vars)
<1>1. /\ TypeOK /\ PageInv /\ OfferInv /\ Host \in Peers /\ v \in Peers /\ v # Host
  BY PeerFacts DEF SignalingInv, TypeOK
<1>2. UNCHANGED hosting
  BY DEF Reads, Answers, TakeOffer, TakeCandidate, SkipAnswer, Join, SetLocalDescription,
     SendAnswer, SendCandidate, Close
<1>3. \A w \in Viewers : view[w] \in {"negotiating", "closed"} =>
         view'[w] \in {"negotiating", "closed"}
  BY <1>1, ViewsOn
<1>4. \A w \in Viewers \ {v} : view'[w] = view[w]
  BY <1>1 DEF TypeOK, Reads, Answers, TakeOffer, TakeCandidate, SkipAnswer, Join,
     SetLocalDescription, SendAnswer, SendCandidate, Close, See
<1>5. HostPhase' = HostPhase /\ UNCHANGED <<host, peer, link>>
  BY <1>2, HostStays
<1>6. ASSUME inbox'[Host] = inbox[Host]
      PROVE  OnceInv' /\ OnTheWay' = OnTheWay
  BY <1>1, <1>3, <1>5, <1>6, OnceSame DEF OnceInv
<1>7. ASSUME Phase(v)' = Phase(v), OnTheWay' = OnTheWay
      PROVE  UNCHANGED Shakes!vars
  <2>1. [w \in Viewers |-> Phase(w)]' = [w \in Viewers |-> Phase(w)]
    BY <1>4, <1>7 DEF Phase
  <2>2. QED BY <1>5, <1>7, <2>1, HandshakeQuiet
<1>8. CASE TakeOffer(v)
  <2>1. inbox'[Host] = inbox[Host] /\ view[v] = "waiting" /\ view'[v] = "applying"
    BY <1>1, <1>8, TakeFacts DEF TypeOK, TakeOffer, See
  <2>2. OnceInv' /\ OnTheWay' = OnTheWay
    BY <1>6, <2>1
  <2>3. HostPhase # "before"
    <3>1. 1 \in DOMAIN inbox[v] /\ Head(inbox[v]) = inbox[v][1]
      BY <1>1, <1>8, AfterTake DEF TakeOffer
    <3>2. ~Unoffered
      BY <1>1, <1>8, <3>1 DEF OfferInv, NoOffer, TakeOffer
    <3>3. QED BY <3>2 DEF HostPhase
  <2>4. Phase(v) = "waiting" /\ Phase(v)' = "took"
    BY <2>1 DEF Phase
  <2>5. Shakes!Becomes(v, "took")
    BY <1>4, <2>4, PhaseMoves
  <2>6. Shakes!Take(v)
    BY <1>5, <2>2, <2>3, <2>4, <2>5 DEF Shakes!Take
  <2>7. QED BY <2>2, <2>6 DEF Shakes!Next
<1>9. CASE TakeCandidate(v) \/ SkipAnswer(v)
  <2>1. inbox'[Host] = inbox[Host] /\ view' = view
    BY <1>1, <1>9, TakeFacts DEF TakeCandidate, SkipAnswer
  <2>2. Phase(v)' = Phase(v)
    BY <2>1 DEF Phase
  <2>3. QED BY <1>6, <1>7, <2>1, <2>2
<1>10. CASE Join(v) \/ SetLocalDescription(v)
  <2>1. /\ inbox' = inbox
        /\ \/ view[v] = "loading" /\ view'[v] = "waiting"
           \/ view[v] = "applying" /\ view'[v] = "described"
    BY <1>1, <1>10 DEF TypeOK, Join, SetLocalDescription, See
  <2>2. Phase(v)' = Phase(v)
    BY <2>1 DEF Phase
  <2>3. QED BY <1>6, <1>7, <2>1, <2>2
<1>11. CASE SendAnswer(v)
  <2>1. view[v] = "described" /\ view'[v] = "negotiating" /\ Broadcast(v, Answer(v))
    BY <1>1, <1>11 DEF TypeOK, SendAnswer, AnswerSent, See
  <2>2. v \notin OnTheWay
    BY <2>1 DEF OnceInv
  <2>3. Answer(v) \in Messages /\ Answer(v).from = v
    BY <1>1, MessageFacts
  <2>4. OnceInv' /\ OnTheWay' \in {OnTheWay, OnTheWay \cup {v}}
    BY <1>1, <1>3, <1>5, <2>1, <2>2, <2>3, OnceGrows
  <2>5. Phase(v) = "took" /\ Phase(v)' = "answered"
    BY <2>1 DEF Phase
  <2>6. Shakes!Becomes(v, "answered")
    BY <1>4, <2>5, PhaseMoves
  <2>7. Shakes!Answer(v)
    BY <1>5, <2>2, <2>4, <2>5, <2>6 DEF Shakes!Answer
  <2>8. QED BY <2>4, <2>7 DEF Shakes!Next
<1>12. CASE SendCandidate(v)
  <2> DEFINE m == Candidate(v, left[v])
  <2>1. m \in Messages /\ m.from = v /\ m.type # "answer"
    BY <1>1, MessageFacts DEF TypeOK
  <2>2. Broadcast(v, m) /\ view' = view
    BY <1>12 DEF SendCandidate
  <2>3. OnceInv' /\ OnTheWay' = OnTheWay
    BY <1>1, <1>3, <1>5, <2>1, <2>2, OnceGrows
  <2>4. Phase(v)' = Phase(v)
    BY <2>2 DEF Phase
  <2>5. QED BY <1>7, <2>3, <2>4
<1>13. CASE Close(v)
  <2>1. inbox'[Host] = inbox[Host] /\ view'[v] = "closed"
    <3>1. {v} \in SUBSET Peers /\ Leave({v}) /\ Host \notin {v}
      BY <1>1, <1>13 DEF Close
    <3>2. inbox'[Host] = inbox[Host]
      BY <1>1, <3>1, LeaveFacts
    <3>3. QED BY <1>13, <3>2 DEF TypeOK, Close, See, SignalingInv
  <2>2. OnceInv' /\ OnTheWay' = OnTheWay
    BY <1>6, <2>1
  <2>3. Phase(v)' = "gone"
    BY <2>1 DEF Phase
  <2>4. Shakes!Becomes(v, "gone")
    BY <1>4, <2>3, PhaseMoves
  <2>5. Shakes!Leave(v)
    BY <1>5, <2>2, <2>4 DEF Shakes!Leave
  <2>6. QED BY <2>2, <2>5 DEF Shakes!Next
<1>14. QED BY <1>8, <1>9, <1>10, <1>11, <1>12, <1>13 DEF Reads, Answers

(* A page is loaded, and perhaps the one in the frame closed. *)
LEMMA LoadHandshake ==
    ASSUME SignalingInv, OnceInv, TypeOK', [Next]_vars, Load
    PROVE  OnceInv' /\ [Shakes!Next]_(Shakes!vars)
<1>1. TypeOK /\ PageInv /\ Host \in Peers
  BY PeerFacts DEF SignalingInv
<1>2. PICK old \in SUBSET Closing({page} \cap Viewers) :
        /\ view' = [w \in Viewers |-> IF w = page + 1 THEN "loading"
                                      ELSE IF w \in old THEN "closed" ELSE view[w]]
        /\ Leave(old)
  BY DEF Load
<1>3. old \subseteq {page} \cap Viewers /\ page \in Nat /\ page < Pages
  BY <1>1, <1>2, SignalingAssumption DEF Closing, TypeOK, Load
<1>4. inbox'[Host] = inbox[Host]
  <2>1. old \in SUBSET Peers /\ Host \notin old
    BY <1>3, PeerFacts
  <2>2. QED BY <1>1, <1>2, <2>1, LeaveFacts
<1>5. HostPhase' = HostPhase /\ UNCHANGED <<host, peer, link>>
  BY HostStays DEF Load
<1>6. \A w \in Viewers : view[w] \in {"negotiating", "closed"} =>
         view'[w] \in {"negotiating", "closed"}
  BY <1>1, ViewsOn
<1>7. OnceInv' /\ OnTheWay' = OnTheWay
  BY <1>1, <1>4, <1>5, <1>6, OnceSame DEF OnceInv
<1>8. \A w \in Viewers : w = page + 1 => view[w] = "none" /\ view'[w] = "loading"
  BY <1>1, <1>2, <1>3 DEF PageInv
<1>9. CASE old = {}
  <2>1. \A w \in Viewers : Phase(w)' = Phase(w)
    BY <1>2, <1>8, <1>9 DEF Phase
  <2>2. QED BY <1>5, <1>7, <2>1, HandshakeQuiet
<1>10. CASE old # {}
  <2>1. PICK v \in Viewers : v = page
    BY <1>3, <1>10
  <2>2. old = {v} /\ v # page + 1
    <3>1. old = {v}
      BY <1>3, <1>10, <2>1
    <3>2. page # page + 1
      BY <1>3
    <3>3. QED BY <2>1, <3>1, <3>2
  <2>3. \A w \in Viewers : Phase(w)' = IF w = v THEN "gone" ELSE Phase(w)
    BY <1>2, <1>8, <2>2 DEF Phase
  <2>4. Shakes!Becomes(v, "gone")
    BY <2>3 DEF Shakes!Becomes
  <2>5. Shakes!Leave(v)
    BY <1>5, <1>7, <2>4 DEF Shakes!Leave
  <2>6. QED BY <1>7, <2>5 DEF Shakes!Next
<1>11. QED BY <1>9, <1>10

LEMMA OtherHandshake ==
    ASSUME SignalingInv, OnceInv, TypeOK',
           Connect \/ LinkFails \/ (\E p \in Peers : Drop(p)) \/ UNCHANGED vars
    PROVE  OnceInv' /\ [Shakes!Next]_(Shakes!vars)
<1>1. TypeOK /\ Host \in Peers /\ Viewers \subseteq Peers /\ \A v \in Viewers : v # Host
  BY PeerFacts DEF SignalingInv
<1>2. view' = view /\ HostPhase' = HostPhase /\ UNCHANGED <<host, peer>>
  BY HostStays DEF Connect, LinkFails, Drop, viewing, hosting, vars, HostPhase, Unoffered
<1>3. ASSUME inbox'[Host] = inbox[Host],
             link' # "none" => peer # Host, link' = "up" => host = "serving"
      PROVE  OnceInv' /\ OnTheWay' = OnTheWay
  BY <1>1, <1>2, <1>3, OnceSame
<1>4. CASE Connect
  <2>1. PICK v \in Viewers : Connects(v)
    BY <1>4 DEF Connect
  <2>2. OnceInv' /\ OnTheWay' = OnTheWay
    BY <1>1, <1>3, <1>4, <2>1 DEF Connect, Connects
  <2>3. Phase(v) = "answered" /\ HostPhase = "offered" /\ peer = v
    BY <2>1 DEF Connects, Phase, HostPhase, Unoffered
  <2>4. Shakes!Connect
    BY <1>2, <1>4, <2>2, <2>3, PhaseSame DEF Shakes!Connect, Connect
  <2>5. QED BY <2>2, <2>4 DEF Shakes!Next
<1>5. CASE LinkFails
  <2>1. OnceInv' /\ OnTheWay' = OnTheWay
    BY <1>3, <1>5 DEF LinkFails, OnceInv
  <2>2. Shakes!Break
    BY <1>2, <1>5, <2>1, PhaseSame DEF Shakes!Break, LinkFails
  <2>3. QED BY <2>1, <2>2 DEF Shakes!Next
<1>6. ASSUME NEW p \in Peers, Drop(p), p # Host
      PROVE  OnceInv' /\ UNCHANGED Shakes!vars
  <2>1. inbox'[Host] = inbox[Host] /\ link' = link
    BY <1>1, <1>6, LeaveFacts DEF Drop, hosting
  <2>2. OnceInv' /\ OnTheWay' = OnTheWay
    BY <1>3, <2>1 DEF OnceInv
  <2>3. QED BY <1>2, <2>1, <2>2, PhaseSame, HandshakeQuiet
<1>7. ASSUME Drop(Host)
      PROVE  OnceInv' /\ Shakes!Lose
  <2>1. inbox'[Host] = <<>> /\ link' = link
    BY <1>1, <1>7, LeaveFacts DEF Drop, hosting
  <2>2. OnTheWay' = {}
    BY <2>1 DEF OnTheWay, AnswerAt
  <2>3. OnceInv'
    BY <1>2, <2>1, <2>2 DEF OnceInv
  <2>4. QED BY <1>2, <2>1, <2>2, <2>3, PhaseSame DEF Shakes!Lose
<1>8. CASE UNCHANGED vars
  <2>1. inbox' = inbox /\ link' = link
    BY <1>8 DEF vars
  <2>2. OnceInv' /\ OnTheWay' = OnTheWay
    BY <1>3, <2>1 DEF OnceInv
  <2>3. QED BY <1>2, <2>1, <2>2, PhaseSame, HandshakeQuiet
<1>9. QED BY <1>4, <1>5, <1>6, <1>7, <1>8 DEF Shakes!Next

(* For any number of pages and candidates, whatever is closed and dropped: the   *)
(* offer is taken once by a page and after it was made, each answer is heard at  *)
(* most once, the first one heard stays (session.go:112), and a link is only to  *)
(* the viewer whose answer that was.                                             *)
THEOREM SignalingKeepsHandshake == Spec => KeepsHandshake /\ []OnceInv
<1>1. Init => OnceInv /\ Shakes!Init
  <2> SUFFICES ASSUME Init PROVE OnceInv /\ Shakes!Init
    OBVIOUS
  <2>1. inbox[Host] = <<>> /\ DOMAIN inbox[Host] = {}
    BY PeerFacts DEF Init
  <2>2. OnTheWay = {}
    BY <2>1 DEF OnTheWay
  <2>3. [v \in Viewers |-> Phase(v)] = [v \in Viewers |-> "waiting"]
    BY DEF Init, Phase
  <2>4. HostPhase = "before"
    BY DEF Init, HostPhase, Unoffered
  <2>5. QED BY <2>1, <2>2, <2>3, <2>4 DEF Init, OnceInv, Shakes!Init
<1>2. SignalingInv /\ SignalingInv' /\ OnceInv /\ [Next]_vars =>
         OnceInv' /\ [Shakes!Next]_(Shakes!vars)
  <2> SUFFICES ASSUME SignalingInv, TypeOK', OnceInv, [Next]_vars
               PROVE  OnceInv' /\ [Shakes!Next]_(Shakes!vars)
    BY DEF SignalingInv
  <2>1. CASE HostSteps \/ GatherSteps \/ ConcurrentWrite
    BY <2>1, HostHandshake
  <2>2. ASSUME NEW v \in Viewers, Reads(v) \/ Answers(v) \/ SendCandidate(v) \/ Close(v)
        PROVE  OnceInv' /\ [Shakes!Next]_(Shakes!vars)
    BY <2>2, ViewerHandshake
  <2>3. CASE Load
    BY <2>3, LoadHandshake
  <2>4. CASE Connect \/ LinkFails \/ (\E p \in Peers : Drop(p)) \/ UNCHANGED vars
    BY <2>4, OtherHandshake
  <2>5. QED BY <2>1, <2>2, <2>3, <2>4 DEF Next
<1>3. QED
  BY SignalingCorrect, <1>1, <1>2, PTL DEF Spec, KeepsHandshake, Shakes!Spec

===============================================================================
