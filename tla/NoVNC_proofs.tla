------------------------------ MODULE NoVNC_proofs ------------------------------
(* Proofs about NoVNC: its inductive invariant, and that it implements Relay, for *)
(* any number of messages.                                                        *)
EXTENDS NoVNC, TLAPS

(* Each end has another one opposite, which has it opposite. *)
LEMMA Opposite ==
    ASSUME NEW e \in Ends
    PROVE  Other[e] \in Ends /\ Other[e] # e /\ Other[Other[e]] = e
BY SMT DEF Ends, Other

LEMMA InitProxy == Init => ProxyInv
<1> SUFFICES ASSUME Init PROVE ProxyInv
    OBVIOUS
<1>1. TypeOK
    <2>1. name \in BOOLEAN
        BY DEF Init
    <2>2. <<>> \in Seq(Nat)
        BY SMT
    <2> QED
        BY <2>1, <2>2, SMT DEF Init, TypeOK, Ends
<1>2. StreamInv
    BY Opposite, SMT DEF Init, StreamInv
<1>3. HandlerInv
    BY SMT DEF Init, HandlerInv, Ends
<1> QED
    BY <1>1, <1>2, <1>3 DEF ProxyInv

(* The steps that touch neither the streams nor the goroutines that copy them. *)
LEMMA StreamFrame ==
    ASSUME StreamInv, UNCHANGED <<copier, sent, taken, got>>, gone \subseteq gone'
    PROVE  StreamInv'
<1> SUFFICES ASSUME NEW e \in Ends
             PROVE  (/\ taken[e] <= sent[e]
                     /\ copier[e] = "off" => taken[e] = 0 /\ got[Other[e]] = <<>>
                     /\ Other[e] \notin gone =>
                           /\ copier[e] = "reading" => Len(got[Other[e]]) = taken[e]
                           /\ copier[e] = "writing" => Len(got[Other[e]]) + 1 = taken[e])'
    BY DEF StreamInv
<1> QED
    BY SMT DEF StreamInv

LEMMA StepProxy == ProxyInv /\ [Next]_vars => ProxyInv'
<1> SUFFICES ASSUME ProxyInv, [Next]_vars PROVE ProxyInv'
    OBVIOUS
<1> USE DEF ProxyInv
<1>1. CASE ContainerStarts
    <2>1. TypeOK'
        BY <1>1, SMT DEF TypeOK, ContainerStarts, stream
    <2>2. StreamInv'
        BY <1>1, StreamFrame DEF ContainerStarts, stream
    <2>3. HandlerInv'
        BY <1>1, SMT DEF HandlerInv, stream, ContainerStarts
    <2> QED
        BY <2>1, <2>2, <2>3
<1>2. CASE ContainerEnds
    <2>1. TypeOK'
        BY <1>2, SMT DEF TypeOK, ContainerEnds, stream, Ends
    <2>2. gone \subseteq gone'
        BY <1>2 DEF ContainerEnds
    <2>3. StreamInv'
        BY <1>2, <2>2, StreamFrame DEF ContainerEnds, stream
    <2>4. HandlerInv'
        BY <1>2, SMT DEF HandlerInv, stream, ContainerEnds
    <2> QED
        BY <2>1, <2>3, <2>4
<1>3. CASE ClearRow
    <2>1. TypeOK'
        <3>1. name' \in BOOLEAN
            BY <1>3 DEF ClearRow
        <3>2. UNCHANGED <<kind, alive, page, handler, copier, conn, gone, errCh,
                          sent, taken, got, told>>
            BY <1>3 DEF ClearRow, stream
        <3> QED
            BY <3>1, <3>2, SMT DEF TypeOK
    <2>2. StreamInv'
        BY <1>3, StreamFrame DEF ClearRow, stream
    <2>3. HandlerInv'
        BY <1>3, SMT DEF HandlerInv, stream, ClearRow
    <2> QED
        BY <2>1, <2>2, <2>3
<1>4. CASE GetViewer
    <2>0. page' \in {"none", "viewer", "novnc", "refused"}
        BY <1>4 DEF GetViewer
    <2>1. TypeOK'
        <3>1. UNCHANGED <<kind, name, alive, handler, copier, conn, gone, errCh,
                          sent, taken, got, told>>
            BY <1>4 DEF GetViewer, stream
        <3> QED
            BY <2>0, <3>1, SMT DEF TypeOK
    <2>2. StreamInv'
        BY <1>4, StreamFrame DEF GetViewer, stream
    <2>3. HandlerInv'
        BY <1>4, SMT DEF HandlerInv, stream, GetViewer
    <2> QED
        BY <2>1, <2>2, <2>3
<1>5. CASE FindTarget
    <2>1. TypeOK'
        BY <1>5, SMT DEF TypeOK, FindTarget, Handler, session, stream
    <2>2. StreamInv'
        BY <1>5, StreamFrame DEF FindTarget, stream
    <2>3. HandlerInv'
        BY <1>5, SMT DEF HandlerInv, stream, FindTarget, Handler
    <2> QED
        BY <2>1, <2>2, <2>3
<1>6. CASE Upgrade
    <2>1. TypeOK'
        BY <1>6, SMT DEF TypeOK, Upgrade, Handler, session, stream, Ends
    <2>2. StreamInv'
        BY <1>6, StreamFrame DEF Upgrade, stream
    <2>3. HandlerInv'
        BY <1>6, SMT DEF HandlerInv, stream, Upgrade, Handler, Ends, TypeOK
    <2> QED
        BY <2>1, <2>2, <2>3
<1>7. CASE Dial
    <2>1. \A e \in Ends : copier[e] = "off"
        BY <1>7 DEF Dial, Handler, HandlerInv
    <2>2. TypeOK'
        BY <1>7, SMT DEF TypeOK, Dial, Handler, Copiers, session, stream, Ends
    <2>3. StreamInv'
        BY <1>7, <2>1, Opposite, SMT DEF StreamInv, Dial, Copiers, stream
    <2>4. HandlerInv'
        BY <1>7, SMT DEF HandlerInv, stream, Dial, Handler, Copiers, Ends, TypeOK
    <2> QED
        BY <2>2, <2>3, <2>4
<1>8. CASE DialFails
    <2>1. TypeOK'
        BY <1>8, SMT DEF TypeOK, DialFails, Handler, session, Ends
    <2>2. StreamInv'
        BY <1>8, StreamFrame DEF DialFails, stream
    <2>3. HandlerInv'
        BY <1>8, SMT DEF HandlerInv, stream, DialFails, Handler, session
    <2> QED
        BY <2>1, <2>2, <2>3
<1>9. CASE Return
    <2>1. TypeOK'
        BY <1>9, SMT DEF TypeOK, Return, AnError, Handler, session, stream
    <2>2. StreamInv'
        BY <1>9, StreamFrame DEF Return, stream
    <2>0. errCh \in Nat
        BY DEF TypeOK
    <2>3. HandlerInv'
        BY <1>9, <2>0, SMT DEF HandlerInv, stream, Return, AnError, Handler, Ends
    <2> QED
        BY <2>1, <2>2, <2>3
<1>10. CASE CloseTarget
    <2>1. TypeOK'
        BY <1>10, SMT DEF TypeOK, CloseTarget, Handler, session, stream, Ends
    <2>2. StreamInv'
        BY <1>10, StreamFrame DEF CloseTarget, stream
    <2>3. HandlerInv'
        BY <1>10, SMT DEF HandlerInv, stream, CloseTarget, Handler, Ends, TypeOK
    <2> QED
        BY <2>1, <2>2, <2>3
<1>11. CASE CloseClient
    <2>1. TypeOK'
        BY <1>11, SMT DEF TypeOK, CloseClient, Handler, session, stream, Ends
    <2>2. StreamInv'
        BY <1>11, StreamFrame DEF CloseClient, stream
    <2>3. HandlerInv'
        BY <1>11, SMT DEF HandlerInv, stream, CloseClient, Handler, Ends, TypeOK
    <2> QED
        BY <2>1, <2>2, <2>3
<1>12. ASSUME NEW e \in Ends, Read(e) PROVE ProxyInv'
    <2>1. TypeOK'
        BY <1>12, SMT DEF TypeOK, Read, Copier, session
    <2>2. StreamInv'
        BY <1>12, Opposite, SMT DEF StreamInv, Read, Copier, TypeOK
    <2>3. HandlerInv'
        BY <1>12, SMT DEF HandlerInv, stream, Read, Copier, TypeOK
    <2> QED
        BY <2>1, <2>2, <2>3
<1>13. ASSUME NEW e \in Ends, ReadError(e) PROVE ProxyInv'
    <2>1. TypeOK'
        BY <1>13, SMT DEF TypeOK, ReadError, Copier, session, stream
    <2>2. StreamInv'
        BY <1>13, Opposite, SMT DEF StreamInv, ReadError, Copier, stream, TypeOK
    <2>3. HandlerInv'
        BY <1>13, SMT DEF HandlerInv, stream, ReadError, Broken, Copier, TypeOK
    <2> QED
        BY <2>1, <2>2, <2>3
<1>14. ASSUME NEW e \in Ends, WriteDone(e) PROVE ProxyInv'
    <2>1. TypeOK'
        BY <1>14, Opposite, SMT DEF TypeOK, WriteDone, Payload, Copier, session
    <2>2. StreamInv'
        <3>1. CASE Other[e] \in gone
            BY <1>14, <3>1, Opposite, SMT DEF StreamInv, WriteDone, Copier, TypeOK
        <3>2. CASE Other[e] \notin gone
            <4>1. PICK g \in Seq(Nat) : g = got[Other[e]]
                BY Opposite DEF TypeOK
            <4>2. Len(Append(g, taken[e])) = Len(g) + 1
                BY SMT DEF TypeOK
            <4>3. got' = [got EXCEPT ![Other[e]] = Append(g, taken[e])]
                BY <1>14, <3>2, <4>1 DEF WriteDone, Payload
            <4>4. Len(g) + 1 = taken[e] /\ taken[e] <= sent[e]
                BY <1>14, <3>2, <4>1 DEF StreamInv, WriteDone, Copier
            <4>5. copier' = [copier EXCEPT ![e] = "reading"] /\ UNCHANGED <<gone, sent, taken>>
                BY <1>14 DEF WriteDone, Copier
            <4>6. got'[Other[e]] = Append(g, taken[e]) /\ got'[e] = got[e]
                BY <4>3, Opposite, SMT DEF TypeOK
            <4>7. copier'[e] = "reading" /\ copier'[Other[e]] = copier[Other[e]]
                BY <4>5, Opposite, SMT DEF TypeOK
            <4>8. \A f \in Ends : f = e \/ f = Other[e]
                BY SMT DEF Ends, Other
            <4>9. Len(got'[Other[e]]) = taken[e]
                BY <4>2, <4>4, <4>6
            <4> QED
                BY <4>4, <4>5, <4>6, <4>7, <4>8, <4>9, Opposite, SMT DEF StreamInv
        <3> QED
            BY <3>1, <3>2
    <2>3. HandlerInv'
        BY <1>14, SMT DEF HandlerInv, stream, WriteDone, Copier, TypeOK
    <2> QED
        BY <2>1, <2>2, <2>3
<1>15. ASSUME NEW e \in Ends, WriteError(e) PROVE ProxyInv'
    <2>1. TypeOK'
        BY <1>15, SMT DEF TypeOK, WriteError, Copier, session, stream
    <2>2. StreamInv'
        BY <1>15, Opposite, SMT DEF StreamInv, WriteError, Copier, stream, TypeOK
    <2>3. HandlerInv'
        BY <1>15, Opposite, SMT DEF HandlerInv, stream, WriteError, Broken, Copier, TypeOK
    <2> QED
        BY <2>1, <2>2, <2>3
<1>16. ASSUME NEW e \in Ends, Report(e) PROVE ProxyInv'
    <2>1. TypeOK'
        BY <1>16, SMT DEF TypeOK, Report, Copier, session, stream
    <2>2. StreamInv'
        BY <1>16, Opposite, SMT DEF StreamInv, Report, Copier, stream, TypeOK
    <2>3. HandlerInv'
        <3>1. gone # {} /\ conn["target"] # "none"
            BY <1>16, SMT DEF HandlerInv, Report, Copier
        <3> QED
            BY <1>16, <3>1, SMT DEF HandlerInv, stream, Report, Copier, TypeOK
    <2> QED
        BY <2>1, <2>2, <2>3
<1>17. ASSUME NEW e \in Ends, Sends(e) PROVE ProxyInv'
    <2>1. TypeOK'
        BY <1>17, SMT DEF TypeOK, Sends, session
    <2>2. StreamInv'
        BY <1>17, Opposite, SMT DEF StreamInv, Sends, TypeOK
    <2>3. HandlerInv'
        BY <1>17, SMT DEF HandlerInv, stream, Sends
    <2> QED
        BY <2>1, <2>2, <2>3
<1>18. ASSUME NEW e \in Ends, HangUp(e) PROVE ProxyInv'
    <2>1. TypeOK'
        BY <1>18, SMT DEF TypeOK, HangUp, session, stream
    <2>2. gone \subseteq gone'
        BY <1>18 DEF HangUp
    <2>3. StreamInv'
        BY <1>18, <2>2, StreamFrame DEF HangUp, stream
    <2>4. HandlerInv'
        BY <1>18, SMT DEF HandlerInv, stream, HangUp
    <2> QED
        BY <2>1, <2>3, <2>4
<1>19. CASE UNCHANGED vars
    <2>1. TypeOK'
        BY <1>19, SMT DEF TypeOK, vars, session, stream
    <2>2. StreamInv'
        BY <1>19, StreamFrame DEF vars, stream
    <2>3. HandlerInv'
        BY <1>19, SMT DEF HandlerInv, stream, vars
    <2> QED
        BY <2>1, <2>2, <2>3
<1> QED
    BY <1>1, <1>2, <1>3, <1>4, <1>5, <1>6, <1>7, <1>8, <1>9, <1>10, <1>11, <1>12,
       <1>13, <1>14, <1>15, <1>16, <1>17, <1>18, <1>19 DEF Next

(* The inductive invariant of the proxy: who copies what while the handler is     *)
(* where, how much of a stream has come through, and that the proxy writes a      *)
(* message of its own only in place of a stream.                                  *)
THEOREM ProxyCorrect == Spec => []ProxyInv
    BY InitProxy, StepProxy, PTL DEF Spec

(* The proxy cuts nothing while both ends are there.                              *)
THEOREM CutOnlyByLoss == Spec => []CutNeedsLoss
<1>1. ProxyInv => CutNeedsLoss
    BY SMT DEF ProxyInv, HandlerInv, CutNeedsLoss, TypeOK
<1> QED
    BY <1>1, ProxyCorrect, PTL

(* What WriteDone passes on is the next message of the stream. *)
LEMMA DeliversNext ==
    ASSUME ProxyInv, NEW e \in Ends, WriteDone(e), Other[e] \notin gone
    PROVE  Pair!Deliver(Other[e])
<1>1. Len(got[Other[e]]) + 1 = taken[e] /\ taken[e] <= sent[e]
    BY DEF ProxyInv, StreamInv, WriteDone, Copier
<1>2. got[Other[e]] \in Seq(Nat) /\ taken[e] \in Nat /\ sent[e] \in Nat
    BY Opposite DEF ProxyInv, TypeOK
<1>3. got' = [got EXCEPT ![Other[e]] = Append(@, Len(@) + 1)]
    BY <1>1 DEF WriteDone, Payload
<1>4. Len(got[Other[e]]) < sent[Other[Other[e]]]
    BY <1>1, <1>2, Opposite, SMT
<1>5. told = {}
    BY DEF ProxyInv, HandlerInv, WriteDone, Copier
<1> QED
    BY <1>3, <1>4, <1>5 DEF Pair!Deliver, WriteDone

(* Every step of the proxy sends, delivers or leaves the streams alone. *)
LEMMA StepRelays == ProxyInv /\ [Next]_vars => [Pair!Next]_Pair!vars
<1> SUFFICES ASSUME ProxyInv, [Next]_vars PROVE Pair!Next \/ UNCHANGED <<sent, got, told>>
    BY DEF Pair!vars
<1>1. ASSUME NEW e \in Ends, WriteDone(e) PROVE Pair!Next \/ UNCHANGED <<sent, got, told>>
    <2>1. CASE Other[e] \notin gone
        BY <1>1, <2>1, DeliversNext, Opposite DEF Pair!Next
    <2>2. CASE Other[e] \in gone
        BY <1>1, <2>2 DEF WriteDone
    <2> QED
        BY <2>1, <2>2
<1>2. ASSUME NEW e \in Ends, Sends(e) PROVE Pair!Next
    BY <1>2 DEF Sends, Pair!Next, Pair!Send
<1>3. ASSUME NEW e \in Ends,
             Read(e) \/ ReadError(e) \/ WriteError(e) \/ Report(e) \/ HangUp(e)
      PROVE  UNCHANGED <<sent, got, told>>
    BY <1>3 DEF Read, ReadError, WriteError, Report, HangUp, stream
<1>4. CASE DialFails
    <2>1. CASE "client" \in gone
        BY <1>4, <2>1 DEF DialFails
    <2>2. CASE "client" \notin gone
        <3>1. told = {} /\ told' = {"client"} /\ got["client"] = <<>>
            BY <1>4, <2>2 DEF DialFails, Handler, ProxyInv, HandlerInv, StreamInv, Ends, Other
        <3>2. Pair!Tell("client")
            BY <1>4, <3>1 DEF DialFails, Pair!Tell
        <3> QED
            BY <3>2 DEF Pair!Next, Ends
    <2> QED
        BY <2>1, <2>2
<1>5. CASE \/ ContainerStarts \/ ContainerEnds \/ ClearRow \/ GetViewer
           \/ FindTarget \/ Upgrade \/ Dial \/ Return
           \/ CloseTarget \/ CloseClient \/ UNCHANGED vars
    BY <1>5 DEF ContainerStarts, ContainerEnds, ClearRow, GetViewer, FindTarget, Upgrade,
       Dial, Return, CloseTarget, CloseClient, vars, stream
<1> QED
    BY <1>1, <1>2, <1>3, <1>4, <1>5 DEF Next

(* The proxy implements Relay: nothing is lost in between, repeated or reordered, *)
(* however the two directions and the end of the connection interleave.           *)
THEOREM ProxyKeepsRelay == Spec => KeepsRelay
<1>1. Init => Pair!Init
    BY DEF Init, Pair!Init
<1> QED
    BY <1>1, StepRelays, ProxyCorrect, PTL DEF Spec, KeepsRelay, Pair!Spec

-------------------------------------------------------------------------------
(* Nobody is stuck on errCh, or on a connection once the handler has returned.   *)

LEMMA ReportedMeans ==
    /\ Reported = {} <=> copier["client"] # "done" /\ copier["target"] # "done"
    /\ Reported = Ends <=> copier["client"] = "done" /\ copier["target"] = "done"
    BY DEF Reported, Ends

(* All that the invariant speaks of is as it was. *)
LEMMA ErrorFrame ==
    ASSUME ErrorInv, UNCHANGED <<errCh, handler, conn>>,
           \A e \in Ends : copier'[e] = "done" <=> copier[e] = "done"
    PROVE  ErrorInv'
<1>1. Reported' = Reported
    BY DEF Reported
<1> QED
    BY <1>1 DEF ErrorInv, Returned

LEMMA ErrorStep == ProxyInv /\ ErrorInv /\ [Next]_vars => ErrorInv'
<1> SUFFICES ASSUME ProxyInv, ErrorInv, [Next]_vars PROVE ErrorInv'
    OBVIOUS
<1>1. ASSUME NEW e \in Ends,
             Read(e) \/ ReadError(e) \/ WriteDone(e) \/ WriteError(e) \/ Sends(e) \/ HangUp(e)
      PROVE  ErrorInv'
    <2>1. /\ UNCHANGED <<errCh, handler, conn>>
          /\ \A f \in Ends : copier'[f] = "done" <=> copier[f] = "done"
        BY <1>1 DEF ProxyInv, TypeOK, Read, ReadError, WriteDone, WriteError, Sends, HangUp,
           Copier, stream
    <2> QED
        BY <2>1, ErrorFrame
<1>2. CASE ContainerStarts \/ ContainerEnds \/ ClearRow \/ GetViewer \/ UNCHANGED vars
    <2>1. UNCHANGED <<errCh, handler, conn, copier>>
        BY <1>2 DEF ContainerStarts, ContainerEnds, ClearRow, GetViewer, vars
    <2> QED
        BY <2>1, ErrorFrame
<1>3. CASE FindTarget \/ Upgrade \/ DialFails
    <2>1. conn["target"] = "none" /\ conn'["target"] = "none" /\ UNCHANGED <<errCh, copier>>
        BY <1>3 DEF ProxyInv, HandlerInv, TypeOK, FindTarget, Upgrade, DialFails, Handler, Ends
    <2>2. Reported = {} /\ Reported' = Reported /\ errCh = 0
        BY <2>1 DEF ProxyInv, HandlerInv, Reported
    <2>3. /\ handler' \in {"found", "refused", "upgraded", "failing", "closed"}
          /\ handler' \in {"found", "refused"} => conn'["client"] = "none"
          /\ handler' = "closed" => conn'["client"] # "open"
        BY <1>3 DEF ErrorInv, FindTarget, Upgrade, DialFails, Handler
    <2> QED
        BY <2>1, <2>2, <2>3 DEF ErrorInv, Returned
<1>4. CASE Dial
    <2>1. /\ conn["target"] = "none" /\ conn'["target"] = "open" /\ handler' = "copying"
          /\ copier' = [e \in Ends |-> "reading"] /\ UNCHANGED errCh
        BY <1>4 DEF ProxyInv, HandlerInv, TypeOK, Dial, Handler, Copiers, Ends
    <2>2. Reported' = {} /\ errCh = 0
        BY <2>1 DEF ProxyInv, HandlerInv, Reported
    <2> QED
        BY <2>1, <2>2 DEF ErrorInv, Returned
<1>5. CASE Return
    <2>1. /\ handler = "copying" /\ handler' = "closing" /\ errCh > 0 /\ errCh' = errCh - 1
          /\ conn["target"] = "open" /\ UNCHANGED <<conn, copier>>
        BY <1>5 DEF ProxyInv, HandlerInv, Return, Handler, AnError, Ends
    <2>2. Reported' = Reported /\ ~Returned /\ Returned'
        BY <2>1 DEF Reported, Returned
    <2>3. CASE errCh = 1
        BY <2>1, <2>2, <2>3 DEF ErrorInv
    <2>4. CASE errCh = 2
        BY <2>1, <2>2, <2>4, ReportedMeans DEF ErrorInv
    <2> QED
        BY <2>1, <2>3, <2>4 DEF ErrorInv
<1>6. CASE CloseTarget \/ CloseClient
    <2>1. /\ handler \in {"closing", "failing"} /\ handler' \in {"failing", "closed"}
          /\ UNCHANGED <<errCh, copier>>
        BY <1>6 DEF CloseTarget, CloseClient, Handler
    <2>2. conn["target"] = "none" <=> conn'["target"] = "none"
        BY <1>6 DEF CloseTarget, CloseClient, Handler, ProxyInv, TypeOK, ErrorInv, Ends
    <2>3. /\ conn'["target"] # "open"
          /\ handler' = "closed" => conn'["client"] # "open"
        BY <1>6 DEF CloseTarget, CloseClient, Handler, ProxyInv, TypeOK, ErrorInv, Ends
    <2>4. Reported' = Reported
        BY <2>1 DEF Reported
    <2> QED
        BY <2>1, <2>2, <2>3, <2>4 DEF ErrorInv, Returned
<1>7. ASSUME NEW e \in Ends, Report(e) PROVE ErrorInv'
    <2>1. /\ copier[e] = "reporting" /\ copier' = [copier EXCEPT ![e] = "done"]
          /\ errCh < 2 /\ errCh' = errCh + 1 /\ UNCHANGED <<handler, conn>>
        BY <1>7 DEF Report, Copier, Room
    <2>2. Reported' = Reported \cup {e} /\ e \notin Reported
        BY <2>1 DEF Reported, ProxyInv, TypeOK
    <2>3. Reported # Ends /\ Reported' # {}
        BY <2>2
    <2>4. Reported # {} => Reported' = Ends
        BY <2>2 DEF Ends, Reported
    <2>5. Reported = {} => Reported' # Ends
        BY <2>2 DEF Ends
    <2>6. UNCHANGED Returned
        BY <2>1 DEF Returned
    <2>7. errCh \in {0, 1}
        BY <2>1 DEF ErrorInv
    <2>8. CASE errCh = 0
        BY <2>1, <2>2, <2>3, <2>4, <2>5, <2>6, <2>8 DEF ErrorInv
    <2>9. CASE errCh = 1
        BY <2>1, <2>2, <2>3, <2>4, <2>5, <2>6, <2>9 DEF ErrorInv
    <2> QED
        BY <2>7, <2>8, <2>9
<1> QED
    BY <1>1, <1>2, <1>3, <1>4, <1>5, <1>6, <1>7 DEF Next

(* The goroutines of proxyWebSocket (viewer.go:135) can always leave their errors, *)
(* though only one is read, and what they wait for is closed when it returns.    *)
THEOREM NobodyStuck == Spec => []NoneStuck
<1>1. Init => ErrorInv
    BY DEF Init, ErrorInv, Returned, Reported, Ends
<1>2. ErrorInv => NoneStuck
    <2> SUFFICES ASSUME ErrorInv, NEW e \in Ends
                 PROVE  /\ copier[e] = "reporting" => Room
                        /\ handler = "closed" => conn[e] # "open"
        BY DEF NoneStuck
    <2>1. copier[e] = "reporting" => Reported # Ends
        BY DEF Reported
    <2>2. errCh \in 0 .. 2 /\ (errCh = 2 => Reported = Ends)
        BY DEF ErrorInv
    <2>3. copier[e] = "reporting" => Room
        BY <2>1, <2>2 DEF Room
    <2>4. handler = "closed" => conn[e] # "open"
        BY DEF ErrorInv, Ends
    <2> QED
        BY <2>3, <2>4
<1> QED
    BY <1>1, <1>2, ErrorStep, ProxyCorrect, PTL DEF Spec

===============================================================================
