------------------------------ MODULE Bridge_proofs ------------------------------
(* Safety of the bridge for any number of messages and any room in the log.       *)
EXTENDS Bridge, SequenceTheorems, TLAPS

Fates == Pending \cup {"answered", "silent", "added", "dropped", "over"}

(* What a step of a handler does to its message: it goes on from one fate to the  *)
(* next, is answered after its answer was set, and is refused for a reason.       *)
GoesOn(i, here, there) ==
    /\ fate[i] = here /\ fate' = [fate EXCEPT ![i] = there]
    /\ here \in Pending
    /\ here \in {"written", "answered"} => there \in {"written", "answered"}
    /\ came[i] = "candidate" /\ there \in {"refused", "dropped"} =>
          \/ here = "refused" \/ peer = "closed"
          \/ \A j \in DOMAIN fate : fate[j] \notin Accepted
    /\ \/ UNCHANGED answers
       \/ /\ here = "set" /\ there \in {"written", "answered"}
          /\ answers' = Append(answers, i)

LEMMA HandlerSteps ==
    ASSUME BridgeOK, NEW i \in DOMAIN fate, Handle(i)
    PROVE  /\ \E here, there \in Fates : GoesOn(i, here, there)
           /\ UNCHANGED <<main, serve, ws, came, owed, listen>>
           /\ peer' = "closed" <=> peer = "closed"
           /\ peer' \in {"none", "new", "answered", "connected", "failed", "closed"}
           /\ lines' = lines \/ (lines < LogCap /\ lines' = lines + 1)
  BY DEF Handle, PassOver, Unknown, ApplyOffer, SetAnswer, WriteAnswer, AddCandidate,
     LogFate, Goes, rest, GoesOn, Fates, Pending, Accepted, BridgeOK, Line

(* The rest of the program and its surroundings: what is in the list of messages  *)
(* changes only at its end, and the peer connection is closed by Close alone.     *)
Others ==
    \/ Begin \/ Connect \/ ConnectFails \/ Fatal \/ Interrupt \/ ShutDown \/ Close
    \/ Leave \/ Killed \/ Serve \/ ReadError \/ Part
    \/ HubCloses \/ PeerConnects \/ PeerFails \/ Callback

LEMMA OtherSteps ==
    ASSUME Others
    PROVE  UNCHANGED <<came, fate, answers>>
  BY DEF Others, Begin, Connect, ConnectFails, Fatal, Interrupt, ShutDown, Close, Leave,
     Killed, Serve, ReadError, Part, HubCloses, PeerConnects, PeerFails, Callback, session

LEMMA OtherTypes ==
    ASSUME BridgeInv, Others
    PROVE  BridgeOK' /\ StartInv' /\ (peer' = "closed" => main' \in {"leaving", "ended"})
<1>1. UNCHANGED <<came, fate, answers>>
  BY OtherSteps
<1>2. came' \in Seq(Kinds) /\ fate' \in Seq(Fates) /\ answers' \in Seq(Nat)
  BY <1>1 DEF BridgeInv, BridgeOK, Fates
<1>3. LogCap \in Nat /\ LogCap >= 3
  BY BridgeAssumption
<1>4. CASE Begin \/ Connect \/ ConnectFails \/ Fatal \/ Interrupt
  BY <1>1, <1>2, <1>3, <1>4 DEF BridgeInv, BridgeOK, StartInv, ListenInv, Fates, Begin, Connect,
     ConnectFails, Fatal, Interrupt, Main, session, Line
<1>5. CASE ShutDown \/ Close \/ Leave \/ Killed \/ Serve \/ ReadError \/ Part
  BY <1>1, <1>2, <1>3, <1>5 DEF BridgeInv, BridgeOK, StartInv, ListenInv, Fates, ShutDown, Close,
     Leave, Killed, Serve, ReadError, Part, Main, session, Line, Up
<1>6. CASE HubCloses \/ PeerConnects \/ PeerFails \/ Callback
  <2>1. owed' \in Nat
    BY <1>6 DEF BridgeInv, BridgeOK, HubCloses, PeerConnects, PeerFails, Callback
  <2>2. lines' \in 0 .. LogCap /\ UNCHANGED <<main, serve, listen>>
    BY <1>3, <1>6 DEF BridgeInv, BridgeOK, HubCloses, PeerConnects, PeerFails, Callback, Line
  <2>3. /\ peer' = "closed" <=> peer = "closed"
        /\ peer' \in {"none", "new", "answered", "connected", "failed", "closed"}
        /\ ws' \in {"none", "open", "broken", "closed"}
    BY <1>6 DEF BridgeInv, BridgeOK, HubCloses, PeerConnects, PeerFails, Callback
  <2>4. /\ main = "starting" => lines' = 0 /\ owed' = 0
        /\ listen = "off" => UNCHANGED peer
    BY <1>6 DEF BridgeInv, StartInv, HubCloses, PeerConnects, PeerFails, Callback
  <2>5. QED
    BY <1>1, <1>2, <2>1, <2>2, <2>3, <2>4 DEF BridgeInv, BridgeOK, StartInv, ListenInv, Fates
<1>7. QED
  BY <1>4, <1>5, <1>6 DEF Others

LEMMA HandlerTypes ==
    ASSUME BridgeInv, NEW i \in DOMAIN fate, Handle(i)
    PROVE  BridgeOK' /\ StartInv'
<1>1. PICK here \in Fates, there \in Fates : GoesOn(i, here, there)
  BY HandlerSteps DEF BridgeInv
<1>2. fate' \in Seq(Fates) /\ answers' \in Seq(Nat)
  <2>1. fate \in Seq(Fates) /\ answers \in Seq(Nat) /\ i \in Nat
    BY DEF BridgeInv, BridgeOK, Fates
  <2>2. fate' \in Seq(Fates)
    BY <1>1, <2>1, ExceptSeq DEF GoesOn
  <2>3. answers' \in Seq(Nat)
    BY <1>1, <2>1 DEF GoesOn
  <2>4. QED
    BY <2>2, <2>3
<1>3. /\ UNCHANGED <<main, serve, ws, came, owed, listen>>
      /\ peer' \in {"none", "new", "answered", "connected", "failed", "closed"}
      /\ lines' \in 0 .. LogCap
  BY HandlerSteps, BridgeAssumption DEF BridgeInv, BridgeOK
<1>4. BridgeOK'
  BY <1>2, <1>3 DEF BridgeInv, BridgeOK, Fates
<1>5. listen # "off"
  BY DEF BridgeInv, StartInv
<1>6. main # "starting"
  BY <1>5 DEF BridgeInv, StartInv
<1>7. QED
  BY <1>3, <1>4, <1>5, <1>6 DEF StartInv

(* The message in hand is the last one read, so all that Listen has let go stays  *)
(* as it is.                                                                     *)
LEMMA HandlerListens ==
    ASSUME BridgeInv, NEW i \in DOMAIN fate, Handle(i)
    PROVE  ListenInv'
<1>1. PICK here \in Fates, there \in Fates : GoesOn(i, here, there)
  BY HandlerSteps DEF BridgeInv
<1>2. UNCHANGED <<main, came>> /\ (peer' = "closed" <=> peer = "closed")
  BY HandlerSteps DEF BridgeInv
<1>3. i = Len(fate) /\ i \in Nat /\ DOMAIN fate = 1 .. Len(fate) /\ Len(fate) \in Nat
  BY <1>1 DEF BridgeInv, BridgeOK, ListenInv, GoesOn
<1>4. /\ DOMAIN fate' = DOMAIN fate /\ Len(fate') = Len(fate)
      /\ \A j \in DOMAIN fate : fate'[j] = IF j = i THEN there ELSE fate[j]
  BY <1>1, <1>3 DEF BridgeInv, BridgeOK, GoesOn
<1>5. CandidatesFollow'
  <2> SUFFICES ASSUME NEW k \in DOMAIN fate, came[k] = "candidate",
                      fate'[k] \in {"refused", "dropped"}, peer # "closed",
                      NEW j \in 1 .. k - 1
               PROVE  fate'[j] \notin Accepted
    BY <1>2, <1>4 DEF CandidatesFollow
  <2>1. j \in DOMAIN fate /\ j # i /\ fate'[j] = fate[j]
    BY <1>3, <1>4
  <2>2. CASE k = i
    BY <1>1, <1>4, <2>1, <2>2 DEF GoesOn, BridgeInv, ListenInv, CandidatesFollow
  <2>3. CASE k # i
    BY <1>4, <2>1, <2>3 DEF BridgeInv, ListenInv, CandidatesFollow
  <2>4. QED
    BY <2>2, <2>3
<1>6. QED
  BY <1>2, <1>3, <1>4, <1>5 DEF BridgeInv, ListenInv

(* The message that is answered now is not among those answered, which are all   *)
(* past their answers, and it was read after them.                               *)
LEMMA HandlerAnswers ==
    ASSUME BridgeInv, NEW i \in DOMAIN fate, Handle(i)
    PROVE  AnswerInv'
<1>1. PICK here \in Fates, there \in Fates : GoesOn(i, here, there)
  BY HandlerSteps DEF BridgeInv
<1>2. i = Len(fate) /\ i \in Nat /\ DOMAIN fate = 1 .. Len(fate)
  BY <1>1 DEF BridgeInv, BridgeOK, ListenInv, GoesOn
<1>3. /\ DOMAIN fate' = DOMAIN fate
      /\ \A j \in DOMAIN fate : fate'[j] = IF j = i THEN there ELSE fate[j]
  BY <1>1, <1>2 DEF BridgeInv, BridgeOK, GoesOn
<1>4. answers \in Seq(Nat)
  BY DEF BridgeInv, BridgeOK
<1>5. CASE UNCHANGED answers
  BY <1>1, <1>3, <1>5 DEF BridgeInv, AnswerInv, AnswersFollow, GoesOn
<1>6. CASE answers' = Append(answers, i) /\ here = "set" /\ there \in {"written", "answered"}
  <2>1. /\ DOMAIN answers' = 1 .. Len(answers) + 1 /\ DOMAIN answers = 1 .. Len(answers)
        /\ Len(answers) \in Nat
        /\ \A m \in DOMAIN answers : answers'[m] = answers[m]
        /\ answers'[Len(answers) + 1] = i
    BY <1>2, <1>4, <1>6
  <2>2. \A m \in DOMAIN answers : answers[m] \in DOMAIN fate /\ answers[m] # i
    BY <1>1, <1>6 DEF BridgeInv, AnswerInv, GoesOn
  <2>3. \A m \in DOMAIN answers' :
           answers'[m] \in DOMAIN fate' /\ fate'[answers'[m]] \in {"written", "answered"}
    BY <1>3, <1>6, <2>1, <2>2 DEF BridgeInv, AnswerInv
  <2>4. AnswersFollow'
    BY <1>2, <2>1, <2>2 DEF BridgeInv, AnswerInv, AnswersFollow
  <2>5. QED
    BY <2>3, <2>4 DEF AnswerInv
<1>7. QED
  BY <1>1, <1>5, <1>6 DEF GoesOn

LEMMA TakeStep ==
    ASSUME BridgeInv, Take
    PROVE  BridgeInv'
<1>1. /\ fate' = Append(fate, "taken") /\ Len(fate) < Len(came)
      /\ UNCHANGED <<main, serve, ws, peer, listen, came, answers, lines, owed>>
      /\ listen = "reading" /\ \A i \in DOMAIN fate : fate[i] \notin Pending
  BY DEF Take, Idle
<1>2. fate \in Seq(Fates) /\ came \in Seq(Kinds)
  BY DEF BridgeInv, BridgeOK, Fates
<1>3. /\ fate' \in Seq(Fates) /\ Len(fate') = Len(fate) + 1
      /\ Len(fate) \in Nat /\ Len(came) \in Nat
      /\ DOMAIN fate = 1 .. Len(fate) /\ DOMAIN fate' = 1 .. Len(fate) + 1
      /\ \A j \in DOMAIN fate : fate'[j] = fate[j]
      /\ fate'[Len(fate) + 1] = "taken"
  BY <1>1, <1>2 DEF Fates, Pending
<1>4. BridgeOK' /\ StartInv'
  BY <1>1, <1>3 DEF BridgeInv, BridgeOK, StartInv, Fates
<1>5. CandidatesFollow'
  BY <1>1, <1>3 DEF BridgeInv, ListenInv, CandidatesFollow
<1>6. ListenInv'
  BY <1>1, <1>3, <1>5 DEF BridgeInv, ListenInv
<1>7. AnswerInv'
  BY <1>1, <1>3 DEF BridgeInv, AnswerInv, AnswersFollow
<1>8. QED
  BY <1>4, <1>6, <1>7 DEF BridgeInv

LEMMA HubSendsStep ==
    ASSUME BridgeInv, HubSends
    PROVE  BridgeInv'
<1>1. PICK k \in Kinds : came' = Append(came, k)
  BY DEF HubSends
<1>2. UNCHANGED <<main, serve, ws, peer, listen, fate, answers, lines, owed>>
  BY DEF HubSends
<1>3. fate \in Seq(Fates) /\ came \in Seq(Kinds)
  BY DEF BridgeInv, BridgeOK, Fates
<1>4. /\ came' \in Seq(Kinds) /\ Len(came') = Len(came) + 1
      /\ \A j \in 1 .. Len(came) : came'[j] = came[j]
      /\ Len(fate) \in Nat /\ Len(came) \in Nat /\ DOMAIN fate = 1 .. Len(fate)
  BY <1>1, <1>3
<1>5. BridgeOK' /\ StartInv'
  BY <1>2, <1>4 DEF BridgeInv, BridgeOK, StartInv
<1>6. \A j \in DOMAIN fate : came'[j] = came[j]
  BY <1>4 DEF BridgeInv, ListenInv
<1>7. ListenInv'
  BY <1>2, <1>4, <1>6 DEF BridgeInv, ListenInv, CandidatesFollow
<1>8. AnswerInv'
  BY <1>2 DEF BridgeInv, AnswerInv, AnswersFollow
<1>9. QED
  BY <1>5, <1>7, <1>8 DEF BridgeInv

THEOREM BridgeCorrect == Spec => []BridgeInv
<1>1. Init => BridgeInv
  BY BridgeAssumption DEF Init, BridgeInv, BridgeOK, StartInv, ListenInv, AnswerInv,
     CandidatesFollow, AnswersFollow
<1>2. BridgeInv /\ [Next]_vars => BridgeInv'
  <2> SUFFICES ASSUME BridgeInv, [Next]_vars PROVE BridgeInv'
    OBVIOUS
  <2>1. CASE Others
    <3>1. UNCHANGED <<came, fate, answers>>
      BY <2>1, OtherSteps
    <3>2. BridgeOK' /\ StartInv' /\ (peer' = "closed" => main' \in {"leaving", "ended"})
      BY <2>1, OtherTypes
    <3>3. peer = "closed" => peer' = "closed"
      BY <2>1 DEF Others, Begin, Connect, ConnectFails, Fatal, Interrupt, ShutDown, Close,
         Leave, Killed, Serve, ReadError, Part, HubCloses, PeerConnects, PeerFails,
         Callback, session, BridgeInv, ListenInv, Main
    <3>4. ListenInv' /\ AnswerInv'
      BY <3>1, <3>2, <3>3 DEF BridgeInv, ListenInv, AnswerInv, CandidatesFollow, AnswersFollow
    <3>5. QED
      BY <3>2, <3>4 DEF BridgeInv
  <2>2. ASSUME NEW i \in DOMAIN fate, Handle(i) PROVE BridgeInv'
    BY <2>2, HandlerTypes, HandlerListens, HandlerAnswers DEF BridgeInv
  <2>3. CASE UNCHANGED vars
    BY <2>3 DEF vars, BridgeInv, BridgeOK, StartInv, ListenInv, AnswerInv, CandidatesFollow,
       AnswersFollow
  <2>4. QED
    BY <2>1, <2>2, <2>3, TakeStep, HubSendsStep DEF Next, Others
<1>3. QED
  BY <1>1, <1>2, PTL DEF Spec

(* A candidate that the bridge throws away is one that came before any offer was  *)
(* applied (peer.go does not keep it, unlike the host), or one met at the end.    *)
THEOREM CandidatesInOrder == Spec => []CandidatesFollow
<1>1. BridgeInv => CandidatesFollow
  BY DEF BridgeInv, ListenInv
<1>2. QED
  BY <1>1, BridgeCorrect, PTL

(* The answers go out in the order of the offers, and none is given twice.       *)
THEOREM AnswersInOrder == Spec => []AnswersFollow
<1>1. BridgeInv => AnswersFollow
  BY DEF BridgeInv, AnswerInv
<1>2. QED
  BY <1>1, BridgeCorrect, PTL

===============================================================================
