--------------------------------- MODULE NoVNC ---------------------------------
(* The way from the control panel to the desktop in a container: handleGetViewer *)
(* and the noVNC proxy of server/internal/api/viewer.go, for one session and one *)
(* connection (connections share nothing).  The container and its row come and   *)
(* go as SessionLifecycle has it.                                                *)
EXTENDS Naturals, Sequences

CONSTANTS MaxSent       (* bound: how many messages an end sends                  *)

ASSUME NoVNCAssumption == MaxSent \in Nat

Ends == {"client", "target"}
Other == [e \in Ends |-> IF e = "client" THEN "target" ELSE "client"]

VARIABLES
    kind,       (* sessions.type: "agent" or another one; handleCreateSession     *)
                (* stores any, and starts a container for "agent" as well         *)
    name,       (* sessions.container_name is not NULL                            *)
    alive,      (* the container: "no" (not yet), "yes" or "gone"                 *)
    page,       (* what handleGetViewer has answered the panel                    *)
    handler,    (* where proxyWebSocket is                                        *)
    copier,     (* copier[e]: where copyWebSocket with source e is                *)
    conn,       (* a WebSocket: not made, open, or closed by the handler          *)
    gone,       (* the ends that have hung up or ended                            *)
    errCh,      (* number of errors in errCh                                      *)
    sent,       (* how many messages an end has sent                              *)
    taken,      (* how many messages of an end its copier has read                *)
    got,        (* those of the other end that an end has got                     *)
    told        (* the ends that have got a message of the proxy's own            *)

session == <<kind, name, alive, page>>
stream == <<sent, taken, got, told>>
vars == <<session, handler, copier, conn, gone, errCh, stream>>

TypeOK ==
    /\ kind \in {"desktop", "agent"} /\ name \in BOOLEAN
    /\ told \in SUBSET Ends
    /\ alive \in {"no", "yes", "gone"}
    /\ page \in {"none", "viewer", "novnc", "refused"}
    /\ handler \in {"idle", "found", "upgraded", "copying", "closing", "failing",
                    "closed", "refused"}
    /\ copier \in [Ends -> {"off", "reading", "writing", "reporting", "done"}]
    /\ conn \in [Ends -> {"none", "open", "closed"}]
    /\ gone \in SUBSET Ends
    /\ errCh \in Nat
    /\ sent \in [Ends -> Nat] /\ taken \in [Ends -> Nat] /\ got \in [Ends -> Seq(Nat)]

Init ==
    /\ kind \in {"desktop", "agent"} /\ name = FALSE /\ alive = "no" /\ page = "none"
    /\ handler = "idle"
    /\ copier = [e \in Ends |-> "off"]
    /\ conn = [e \in Ends |-> "none"]
    /\ gone = {}
    /\ errCh = 0
    /\ sent = [e \in Ends |-> 0] /\ taken = [e \in Ends |-> 0]
    /\ got = [e \in Ends |-> <<>>] /\ told = {}

Broken(e) == e \in gone \/ conn[e] = "closed"
Handler(here, there) == handler = here /\ handler' = there
Copier(e, here, there) == copier[e] = here /\ copier' = [copier EXCEPT ![e] = there]

-------------------------------------------------------------------------------
(* The session *)

ContainerStarts ==
    /\ alive = "no"
    /\ alive' = "yes" /\ name' = TRUE
    /\ UNCHANGED <<kind, page, handler, copier, conn, gone, errCh, stream>>

ContainerEnds ==
    /\ alive = "yes"
    /\ alive' = "gone"
    /\ gone' = IF conn["target"] = "none" THEN gone ELSE gone \cup {"target"}
    /\ UNCHANGED <<kind, name, page, handler, copier, conn, errCh, stream>>

(* Not for an agent: its DELETE leaves the name alone. *)
ClearRow ==
    /\ kind # "agent" /\ alive = "gone" /\ name
    /\ name' = FALSE
    /\ UNCHANGED <<kind, alive, page, handler, copier, conn, gone, errCh, stream>>

(* The panel asks for the page to open, again when it was refused.  The first of *)
(* its two queries may fail; the error of the second is dropped, and the session *)
(* then taken for one that is not an agent's.                                    *)
GetViewer ==
    /\ page \in {"none", "refused"}
    /\ page' \in (IF kind = "agent" THEN {"viewer"} ELSE {})
                 \cup {"refused"} \cup (IF name THEN {"novnc"} ELSE {})
    /\ UNCHANGED <<kind, name, alive, handler, copier, conn, gone, errCh, stream>>

-------------------------------------------------------------------------------
(* handleNoVNCProxy and proxyWebSocket *)

FindTarget ==
    /\ page = "novnc"
    /\ Handler("idle", "refused") \/ (name /\ Handler("idle", "found"))
    /\ UNCHANGED <<session, copier, conn, gone, errCh, stream>>

Upgrade ==
    /\ \/ Handler("found", "upgraded") /\ conn' = [conn EXCEPT !["client"] = "open"]
       \/ Handler("found", "closed") /\ UNCHANGED conn
    /\ UNCHANGED <<session, copier, gone, errCh, stream>>

(* One goroutine for each direction. *)
Copiers_OneWay == [e \in Ends |-> IF e = "client" THEN "reading" ELSE "off"]
Copiers == [e \in Ends |-> "reading"]

Dial ==
    /\ Handler("upgraded", "copying")
    /\ alive = "yes"
    /\ conn' = [conn EXCEPT !["target"] = "open"]
    /\ copier' = Copiers
    /\ UNCHANGED <<session, gone, errCh, stream>>

(* The client is told, if it still listens; the deferred Close follows.  (It is  *)
(* the first message on that connection, so that the write does not wait.)       *)
DialFails ==
    /\ Handler("upgraded", "failing")
    /\ told' = told \cup ({"client"} \ gone)
    /\ UNCHANGED <<session, copier, conn, gone, errCh, sent, taken, got>>

(* <-errCh *)
AnError == errCh > 0 /\ errCh' = errCh - 1

Return ==
    /\ Handler("copying", "closing")
    /\ AnError
    /\ UNCHANGED <<session, copier, conn, gone, stream>>

(* The deferred calls of Close. *)
CloseTarget ==
    /\ Handler("closing", "failing")
    /\ conn' = [conn EXCEPT !["target"] = "closed"]
    /\ UNCHANGED <<session, copier, gone, errCh, stream>>

CloseClient ==
    /\ Handler("failing", "closed")
    /\ conn' = [conn EXCEPT !["client"] = "closed"]
    /\ UNCHANGED <<session, copier, gone, errCh, stream>>

-------------------------------------------------------------------------------
(* copyWebSocket(Other[e], e) *)

Read(e) ==
    /\ Copier(e, "reading", "writing")
    /\ conn[e] = "open" /\ taken[e] < sent[e]
    /\ taken' = [taken EXCEPT ![e] = @ + 1]
    /\ UNCHANGED <<session, handler, conn, gone, errCh, sent, got, told>>

ReadError(e) ==
    /\ Copier(e, "reading", "reporting")
    /\ Broken(e)
    /\ UNCHANGED <<session, handler, conn, gone, errCh, stream>>

(* A write can succeed although the peer is gone: the message is then lost. *)
Payload_Stale(e) == IF taken[e] > 1 THEN taken[e] - 1 ELSE taken[e]
Payload(e) == taken[e]

WriteDone(e) ==
    /\ Copier(e, "writing", "reading")
    /\ conn[Other[e]] = "open"
    /\ got' = IF Other[e] \in gone THEN got
              ELSE [got EXCEPT ![Other[e]] = Append(@, Payload(e))]
    /\ UNCHANGED <<session, handler, conn, gone, errCh, sent, taken, told>>

WriteError(e) ==
    /\ Copier(e, "writing", "reporting")
    /\ Broken(Other[e])
    /\ UNCHANGED <<session, handler, conn, gone, errCh, stream>>

(* make(chan error, 2) *)
Room_Unbuffered == handler = "copying" /\ errCh = 0
Room == errCh < 2

Report(e) ==
    /\ Copier(e, "reporting", "done")
    /\ Room
    /\ errCh' = errCh + 1
    /\ UNCHANGED <<session, handler, conn, gone, stream>>

-------------------------------------------------------------------------------
(* The ends *)

Sends(e) ==
    /\ conn[e] = "open" /\ e \notin gone
    /\ sent[e] < MaxSent
    /\ sent' = [sent EXCEPT ![e] = @ + 1]
    /\ UNCHANGED <<session, handler, copier, conn, gone, errCh, taken, got, told>>

HangUp(e) ==
    /\ conn[e] # "none" /\ e \notin gone
    /\ gone' = gone \cup {e}
    /\ UNCHANGED <<session, handler, copier, conn, errCh, stream>>

Next ==
    \/ ContainerStarts \/ ContainerEnds \/ ClearRow \/ GetViewer
    \/ FindTarget \/ Upgrade \/ Dial \/ DialFails \/ Return \/ CloseTarget \/ CloseClient
    \/ \E e \in Ends : \/ Read(e) \/ ReadError(e) \/ WriteDone(e) \/ WriteError(e)
                       \/ Report(e) \/ Sends(e) \/ HangUp(e)

Spec == Init /\ [][Next]_vars

(* Goroutines that can run do, the dial returns, reads and writes on a broken    *)
(* connection fail, and an end that is there reads what it is sent.              *)
Fairness ==
    /\ WF_vars(FindTarget) /\ WF_vars(Upgrade) /\ WF_vars(Dial \/ DialFails)
    /\ WF_vars(Return) /\ WF_vars(CloseTarget) /\ WF_vars(CloseClient)
    /\ \A e \in Ends :
          /\ WF_vars(Read(e) \/ ReadError(e))
          /\ WF_vars(WriteDone(e) \/ WriteError(e))
          /\ WF_vars(Report(e))

FairSpec == Spec /\ Fairness

-------------------------------------------------------------------------------
(* Properties *)

(* The desktop gets what the browser sent, and the other way round, as Relay     *)
(* says, also when messages cross, an end goes or the container is stopped; a    *)
(* browser that is told that there is no desktop gets nothing else.              *)
Pair == INSTANCE Relay
KeepsRelay == Pair!Spec

(* Either end that goes takes everything down, and so does a container that is   *)
(* stopped, between the lookup of its name and the dial as well: the other       *)
(* connection is closed and both copying goroutines end, though only one of      *)
(* their errors is read.                                                         *)
BothEnd ==
    gone # {} \/ (alive = "gone" /\ handler # "idle")
        ~> /\ handler \in {"closed", "refused"}
           /\ \A e \in Ends : copier[e] \in {"off", "done"} /\ conn[e] # "open"

(* As long as both ends are there the proxy cuts neither, ...                    *)
CutNeedsLoss ==
    conn["target"] # "none" /\ gone = {} => handler = "copying" /\ errCh = 0

(* ... and everything that was sent arrives.                                     *)
AllArrives ==
    <>[](handler = "copying" /\ gone = {})
        => \A e \in Ends : <>[](Len(got[e]) = sent[Other[e]])

-------------------------------------------------------------------------------
(* The inductive invariant behind KeepsRelay and CutNeedsLoss.                   *)
StreamInv ==
    \A e \in Ends :
        /\ taken[e] <= sent[e]
        /\ copier[e] = "off" => taken[e] = 0 /\ got[Other[e]] = <<>>
        /\ Other[e] \notin gone =>
              /\ copier[e] = "reading" => Len(got[Other[e]]) = taken[e]
              /\ copier[e] = "writing" => Len(got[Other[e]]) + 1 = taken[e]
HandlerInv ==
    /\ errCh > 0 => gone # {}
    /\ \A e \in Ends : copier[e] \in {"reporting", "done"} => gone # {}
    /\ handler = "closing" => gone # {}
    /\ handler \in {"idle", "found", "upgraded", "refused"} =>
          conn["target"] = "none"
    /\ conn["target"] = "none" => errCh = 0 /\ \A e \in Ends : copier[e] = "off"
    /\ handler = "upgraded" => conn["client"] = "open"
    /\ told # {} => conn["target"] = "none" /\ handler \in {"failing", "closed"}
    /\ handler = "copying" => \A e \in Ends : conn[e] = "open"
    /\ conn["target"] # "none" =>
          handler \in {"copying", "closing", "failing", "closed"}
    /\ handler \in {"failing", "closed"} => conn["target"] = "none" \/ gone # {}
    /\ \A e \in Ends : conn[e] = "closed" => conn["target"] = "none" \/ gone # {}
ProxyInv == TypeOK /\ StreamInv /\ HandlerInv

(* What BothEnd rests on: a goroutine that has an error to report never waits    *)
(* for room, as errCh holds what both may report, and when proxyWebSocket has    *)
(* returned no connection is left that one of them could wait on.                *)
NoneStuck ==
    \A e \in Ends :
        /\ copier[e] = "reporting" => Room
        /\ handler = "closed" => conn[e] # "open"

(* The invariant behind it: errCh holds what was reported and not yet read.      *)
Reported == {e \in Ends : copier[e] = "done"}
Returned == conn["target"] # "none" /\ handler # "copying"

ErrorInv ==
    /\ Returned => Reported # {}
    /\ errCh = 0 => Reported = {} \/ (Returned /\ Reported # Ends)
    /\ errCh = 1 => IF Returned THEN Reported = Ends ELSE Reported # {} /\ Reported # Ends
    /\ errCh = 2 => ~Returned /\ Reported = Ends
    /\ errCh \in 0 .. 2
    /\ handler \in {"idle", "found", "refused"} => conn["client"] = "none"
    /\ handler = "closing" => conn["target"] = "open"
    /\ handler \in {"failing", "closed"} => conn["target"] # "open"
    /\ handler = "closed" => conn["client"] # "open"

===============================================================================
