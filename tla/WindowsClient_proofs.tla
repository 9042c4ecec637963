-------------------------- MODULE WindowsClient_proofs --------------------------
(* Proofs about WindowsClient.                                                   *)
EXTENDS WindowsClient, TLAPS

USE DEF Null

LEMMA HandleKinds == ClientAssumption => Unstarted \notin Bridges /\ Unstarted # Null
BY DEF ClientAssumption, Unstarted, Bridges

(* After Stop, no process runs but those that resisted it. *)
LEMMA StopStops ==
    ASSUME TypeOK, OneBridge, NEW killed \in BOOLEAN
    PROVE  /\ Stopped(killed).bridge \in Bridges \cup {Null, Unstarted}
           /\ Stopped(killed).bridge \in {bridge, Null}
           /\ Stopped(killed).proc \in [Bridges -> {"none", "running", "dead"}]
           /\ Stopped(killed).unkilled \in SUBSET Bridges
           /\ unkilled \subseteq Stopped(killed).unkilled
           /\ \A b \in Bridges \ Stopped(killed).unkilled :
                 Stopped(killed).proc[b] # "running"
           /\ \A b \in Bridges :
                 Stopped(killed).proc[b] = "running" => proc[b] = "running"
           /\ ~Runs(Stopped(killed).bridge, Stopped(killed).proc)
<1>1. CASE Running
  BY <1>1 DEF Stopped, TypeOK, OneBridge, Running, Runs, Bridges
<1>2. CASE ~Running
  BY <1>2 DEF Stopped, TypeOK, OneBridge, Running, Runs, Bridges
<1> QED
  BY <1>1, <1>2

(* Stop for good leaves nothing behind but what resisted it. *)
LEMMA GoodStop ==
    ASSUME TypeOK, CurrentInv, OneBridge, StopForGood
    PROVE  /\ bridge' \in {bridge, Null}
           /\ bridge' \in Bridges \cup {Null, Unstarted}
           /\ proc' \in [Bridges -> {"none", "running", "dead"}]
           /\ unkilled' \in SUBSET Bridges
           /\ exits' \in Nat
           /\ serves' = serves /\ missing' = missing /\ late' = late
           /\ \A b \in Bridges \ unkilled' : proc'[b] # "running"
           /\ \A b \in Bridges : proc'[b] = "running" => serves'[b] # Null
<1>1. PICK killed \in BOOLEAN :
        /\ bridge' = Stopped(killed).bridge
        /\ proc' = Stopped(killed).proc
        /\ unkilled' = Stopped(killed).unkilled
        /\ Raised(killed)
        /\ UNCHANGED <<serves, missing, late>>
  BY DEF StopForGood
<1>2. exits' \in Nat
  BY <1>1 DEF Raised, TypeOK
<1> QED
  BY <1>1, <1>2, StopStops DEF CurrentInv

(* A connection leaves one bridge at most, and it is for the current session. *)
LEMMA ConnectKeeps ==
    ASSUME ClientAssumption, ClientInv, NEW s \in Sessions, ConnectToSession(s),
           app = "open", app' = app, panel' = panel
    PROVE  /\ current' = s /\ forwarders' = 1
           /\ bridge' \in Bridges \cup {Null, Unstarted}
           /\ bridge' # Unstarted
           /\ proc' \in [Bridges -> {"none", "running", "dead"}]
           /\ serves' \in [Bridges -> Sessions \cup {Null}]
           /\ missing' \in BOOLEAN
           /\ unkilled' \in SUBSET Bridges /\ late' \in SUBSET Bridges
           /\ exits' \in Nat
           /\ status' = "session"
           /\ CurrentInv' /\ OneBridge' /\ NobodyLeft' /\ StatusHonest'
<1>1. PICK killed \in BOOLEAN :
        /\ Start(s, Stopped(killed).bridge, Stopped(killed).proc)
        /\ unkilled' = Stopped(killed).unkilled
        /\ Raised(killed)
  BY DEF ConnectToSession
<1> DEFINE pr == Stopped(killed).proc
           handle == Stopped(killed).bridge
<1>2. /\ handle \in Bridges \cup {Null}
      /\ pr \in [Bridges -> {"none", "running", "dead"}]
      /\ unkilled' \in SUBSET Bridges
      /\ \A b \in Bridges \ unkilled' : pr[b] # "running"
      /\ \A b \in Bridges : pr[b] = "running" => proc[b] = "running"
      /\ ~Runs(handle, pr)
  <2>1. bridge # Unstarted
    BY DEF ConnectToSession
  <2> QED
    BY <1>1, <2>1, StopStops, HandleKinds DEF ClientInv
<1>3. /\ current' = s /\ forwarders' = 1 /\ s # Null
      /\ status' = "session"
  BY DEF ConnectToSession, ClientInv, TypeOK, CurrentInv, Detached, Sessions
<1>4. exits' \in Nat
  BY <1>1 DEF Raised, ClientInv, TypeOK
<1> HIDE DEF pr, handle
<1>5. CASE bridge' = handle /\ proc' = pr /\ missing' = TRUE /\ UNCHANGED <<serves, late>>
  <2>1. CurrentInv' /\ OneBridge' /\ NobodyLeft' /\ StatusHonest'
    BY <1>2, <1>3, <1>5, HandleKinds
    DEF ClientInv, CurrentInv, OneBridge, NobodyLeft, StatusHonest
  <2> QED
    BY <1>2, <1>3, <1>4, <1>5, <2>1, HandleKinds DEF ClientInv, TypeOK
<1>6. ASSUME NEW n \in FirstUnused(pr),
             bridge' = n,
             proc' = [pr EXCEPT ![n] = "running"],
             serves' = [serves EXCEPT ![n] = s],
             late' = IF panel = "login" THEN late \cup {n} ELSE late,
             missing' = FALSE
      PROVE  /\ bridge' \in Bridges \cup {Null, Unstarted} /\ bridge' # Unstarted
             /\ proc' \in [Bridges -> {"none", "running", "dead"}]
             /\ serves' \in [Bridges -> Sessions \cup {Null}]
             /\ missing' \in BOOLEAN /\ late' \in SUBSET Bridges
             /\ CurrentInv' /\ OneBridge' /\ NobodyLeft' /\ StatusHonest'
  <2>1. n \in Bridges /\ n # Null /\ n # Unstarted
    BY <1>6, HandleKinds DEF FirstUnused, Bridges
  <2>2. /\ proc' \in [Bridges -> {"none", "running", "dead"}]
        /\ serves' \in [Bridges -> Sessions \cup {Null}]
        /\ proc'[n] = "running" /\ serves'[n] = s
        /\ \A b \in Bridges : b # n => proc'[b] = pr[b] /\ serves'[b] = serves[b]
    BY <1>2, <1>6, <2>1 DEF ClientInv, TypeOK
  <2>3. late' \in SUBSET Bridges /\ (panel = "login" => n \in late')
    BY <1>6, <2>1 DEF ClientInv, TypeOK
  <2>4. OneBridge'
    BY <1>2, <1>3, <1>6, <2>2 DEF OneBridge
  <2>5. NobodyLeft'
    BY <1>2, <2>2, <2>3 DEF NobodyLeft
  <2>6. CurrentInv'
    BY <1>2, <1>3, <1>6, <2>1, <2>2 DEF ClientInv, CurrentInv
  <2>7. StatusHonest'
    BY <1>6, <2>1, <2>2 DEF StatusHonest, Running, Runs
  <2> QED
    BY <1>6, <2>1, <2>2, <2>3, <2>4, <2>5, <2>6, <2>7
<1>7. \/ bridge' = handle /\ proc' = pr /\ missing' = TRUE /\ UNCHANGED <<serves, late>>
      \/ \E n \in FirstUnused(pr) :
            /\ bridge' = n
            /\ proc' = [pr EXCEPT ![n] = "running"]
            /\ serves' = [serves EXCEPT ![n] = s]
            /\ late' = IF panel = "login" THEN late \cup {n} ELSE late
            /\ missing' = FALSE
  BY <1>1, <1>2 DEF Start, pr, handle
<1> QED
  BY <1>2, <1>3, <1>4, <1>5, <1>6, <1>7

(* A connection that throws leaves no bridge, a session and no forwarder. *)
LEMMA ThrowKeeps ==
    ASSUME ClientAssumption, ClientInv, NEW s \in Sessions, ConnectThrows(s),
           app = "open"
    PROVE  /\ current' = s /\ forwarders' = 0 /\ bridge' = Unstarted
           /\ proc' \in [Bridges -> {"none", "running", "dead"}]
           /\ serves' = serves /\ late' = late /\ missing' = FALSE
           /\ unkilled' \in SUBSET Bridges
           /\ exits' \in Nat
           /\ status' = "disconnected"
           /\ CurrentInv' /\ OneBridge' /\ NobodyLeft' /\ StatusHonest'
<1>1. PICK killed \in BOOLEAN :
        /\ proc' = Stopped(killed).proc
        /\ unkilled' = Stopped(killed).unkilled
        /\ Raised(killed)
  BY DEF ConnectThrows
<1>2. /\ proc' \in [Bridges -> {"none", "running", "dead"}]
      /\ unkilled' \in SUBSET Bridges
      /\ \A b \in Bridges \ unkilled' : proc'[b] # "running"
      /\ \A b \in Bridges : proc'[b] = "running" => proc[b] = "running"
  BY <1>1, StopStops DEF ClientInv
<1>3. /\ current' = s /\ s # Null /\ bridge' = Unstarted /\ missing' = FALSE
      /\ serves' = serves /\ late' = late /\ status' = "disconnected"
  BY DEF ConnectThrows, Sessions
<1>4. forwarders' = 0
  BY DEF ConnectThrows, Detached, ClientInv, CurrentInv
<1>5. exits' \in Nat
  BY <1>1 DEF Raised, ClientInv, TypeOK
<1>6. CurrentInv' /\ OneBridge' /\ NobodyLeft' /\ StatusHonest'
  BY <1>2, <1>3, <1>4 DEF ClientInv, CurrentInv, OneBridge, NobodyLeft, StatusHonest
<1> QED
  BY <1>2, <1>3, <1>4, <1>5, <1>6

(* The invariant holds at the start. *)
LEMMA ClientInit == ASSUME ClientAssumption, Init PROVE ClientInv
<1>1. TypeOK
  <2>1. 0 \in 0 .. MaxLists /\ 0 \in 0 .. MaxSessions /\ 0 \in Nat /\ 0 \in 0 .. 1
    BY DEF ClientAssumption
  <2>2. /\ proc \in [Bridges -> {"none", "running", "dead"}]
        /\ serves \in [Bridges -> Sessions \cup {Null}]
    BY DEF Init
  <2> QED
    BY <2>1, <2>2, Zenon DEF Init, TypeOK
<1>2. CurrentInv /\ ButtonsInv /\ OneBridge /\ NobodyLeft /\ StatusHonest
  BY HandleKinds DEF Init, CurrentInv, ButtonsInv, OneBridge, NobodyLeft, StatusHonest
<1> QED
  BY <1>1, <1>2 DEF ClientInv

(* An answer to a refresh touches the list and nothing else. *)
LEMMA RefreshedType ==
    ASSUME ClientAssumption, TypeOK, created' = created, Refreshed
    PROVE  shown' \in SUBSET Sessions /\ marked' \in Sessions \cup {Null} /\ fresh' \in BOOLEAN
<1>1. 1 .. created \subseteq Sessions
  BY DEF TypeOK, Sessions, ClientAssumption
<1> QED
  BY <1>1 DEF Refreshed, Marked, TypeOK

(* Steps that leave processes, current session and forwarders alone. *)
LEMMA QuietStep ==
    ASSUME ClientInv, TypeOK', ButtonsInv',
           UNCHANGED processes, UNCHANGED <<current, forwarders>>,
           exits' = exits, app' = app,
           panel' = panel \/ panel' = "main",
           status' = status \/ status' # "session"
    PROVE  ClientInv'
BY DEF ClientInv, CurrentInv, OneBridge, NobodyLeft, StatusHonest, Running, Runs, processes

(* Every step keeps the invariant. *)
LEMMA ClientStep == ASSUME ClientAssumption, ClientInv, [Next]_vars PROVE ClientInv'
<1> USE DEF ClientInv
<1>1. CASE LoginButton_Click
  <2>1. TypeOK' /\ ButtonsInv'
    BY <1>1 DEF LoginButton_Click, TypeOK, ButtonsInv, buttons, listing, processes, connection
  <2> QED
    BY <1>1, <2>1, QuietStep DEF LoginButton_Click, connection
<1>2. CASE LoginAnswered
  <2>1. TypeOK' /\ ButtonsInv'
    <3>1. lists' \in 0 .. MaxLists
      BY <1>2 DEF LoginAnswered, Refresh, TypeOK, ClientAssumption
    <3>2. status' \in {status, "server"} /\ panel' \in {panel, "main"} /\ login' = FALSE
      BY <1>2 DEF LoginAnswered
    <3>3. /\ UNCHANGED <<app, created, shown, marked, fresh, current, exits, forwarders>>
          /\ UNCHANGED <<creating, row, after, disabled>>
          /\ UNCHANGED <<bridge, proc, serves, missing, unkilled, late>>
      BY <1>2 DEF LoginAnswered, buttons, processes
    <3>4. {login', creating', after', disabled', fresh', missing'} \subseteq BOOLEAN
      BY <3>2, <3>3, Zenon DEF TypeOK
    <3>5. TypeOK'
      BY <3>1, <3>2, <3>3, <3>4 DEF TypeOK
    <3>6. ButtonsInv'
      BY <3>3 DEF ButtonsInv
    <3> QED
      BY <3>5, <3>6
  <2> QED
    <3>1. /\ UNCHANGED processes /\ UNCHANGED <<current, forwarders>>
          /\ exits' = exits /\ app' = app
      BY <1>2 DEF LoginAnswered
    <3>2. /\ panel' = panel \/ panel' = "main"
          /\ status' = status \/ status' # "session"
      BY <1>2 DEF LoginAnswered
    <3> QED
      BY <2>1, <3>1, <3>2, QuietStep
<1>3. CASE BtnDisconnect_Click
  <2>1. CASE current = Null
    <3>1. TypeOK' /\ CurrentInv' /\ ButtonsInv'
      BY <1>3, <2>1 DEF BtnDisconnect_Click, TypeOK, CurrentInv, ButtonsInv, buttons, listing,
                        processes
    <3>2. \A b \in Bridges \ unkilled : proc[b] # "running"
      BY <2>1 DEF OneBridge, CurrentInv
    <3>3. OneBridge' /\ NobodyLeft' /\ StatusHonest'
      BY <1>3, <2>1, <3>2
      DEF BtnDisconnect_Click, OneBridge, NobodyLeft, StatusHonest, processes
    <3> QED
      BY <3>1, <3>3
  <2>2. CASE current # Null
    <3>1. StopForGood /\ bridge # Unstarted
      BY <1>3, <2>2 DEF BtnDisconnect_Click
    <3>2. forwarders' = 0 /\ current' = Null
      BY <1>3, <2>2 DEF BtnDisconnect_Click, CurrentInv, Detached
    <3>3. bridge' # Unstarted
      BY <3>1, GoodStop, HandleKinds
    <3>4. TypeOK' /\ ButtonsInv'
      BY <1>3, <3>1, <3>2, <3>3, GoodStop
      DEF BtnDisconnect_Click, TypeOK, ButtonsInv, buttons, listing
    <3>5. CurrentInv' /\ OneBridge' /\ NobodyLeft'
      BY <3>1, <3>2, <3>3, GoodStop DEF CurrentInv, OneBridge, NobodyLeft
    <3>6. StatusHonest'
      BY <1>3 DEF BtnDisconnect_Click, StatusHonest
    <3> QED
      BY <3>4, <3>5, <3>6
  <2> QED
    BY <2>1, <2>2
<1>4. CASE BtnNew_Click
  <2>1. TypeOK' /\ ButtonsInv'
    BY <1>4 DEF BtnNew_Click, TypeOK, ButtonsInv, listing, processes, connection
  <2> QED
    BY <1>4, <2>1, QuietStep DEF BtnNew_Click, connection
<1>5. CASE CreateFailed
  <2>1. TypeOK' /\ ButtonsInv'
    BY <1>5 DEF CreateFailed, ButtonsBack, TypeOK, ButtonsInv, listing, processes, connection
  <2> QED
    BY <1>5, <2>1, QuietStep DEF CreateFailed, connection
<1>6. CASE SessionCreated
  <2>1. /\ row \in Sessions /\ app = "open" /\ creating /\ disabled
        /\ creating' = FALSE /\ row' = Null
        /\ UNCHANGED <<panel, login, created, disabled, lists, shown, marked, fresh>>
    BY <1>6 DEF SessionCreated, TypeOK, ButtonsInv, listing
  <2>2. CASE ConnectToSession(row) /\ after' = TRUE /\ UNCHANGED app
    <3>1. /\ current' = row /\ forwarders' = 1 /\ status' = "session"
          /\ bridge' \in Bridges \cup {Null, Unstarted} /\ bridge' # Unstarted
          /\ proc' \in [Bridges -> {"none", "running", "dead"}]
          /\ serves' \in [Bridges -> Sessions \cup {Null}]
          /\ missing' \in BOOLEAN
          /\ unkilled' \in SUBSET Bridges /\ late' \in SUBSET Bridges
          /\ exits' \in Nat
          /\ CurrentInv' /\ OneBridge' /\ NobodyLeft' /\ StatusHonest'
      BY <2>1, <2>2, ConnectKeeps
    <3>2. {login', creating', after', disabled', fresh', missing'} \subseteq BOOLEAN
      BY <2>1, <2>2, <3>1, Zenon DEF TypeOK
    <3>3. TypeOK'
      BY <2>1, <2>2, <3>1, <3>2 DEF TypeOK
    <3>4. ButtonsInv'
      BY <2>1, <2>2, <3>1 DEF ButtonsInv
    <3> QED
      BY <3>1, <3>3, <3>4
  <2>3. CASE ConnectThrows(row) /\ app' \in {app, "crashed"} /\ UNCHANGED after
    <3>1. /\ current' = row /\ forwarders' = 0 /\ bridge' = Unstarted
          /\ proc' \in [Bridges -> {"none", "running", "dead"}]
          /\ serves' = serves /\ late' = late /\ missing' = FALSE
          /\ unkilled' \in SUBSET Bridges /\ exits' \in Nat
          /\ status' = "disconnected"
          /\ CurrentInv' /\ OneBridge' /\ NobodyLeft' /\ StatusHonest'
      BY <2>1, <2>3, ThrowKeeps
    <3>2. {login', creating', after', disabled', fresh', missing'} \subseteq BOOLEAN
      BY <2>1, <2>3, <3>1, Zenon DEF TypeOK
    <3>3. TypeOK'
      BY <2>1, <2>3, <3>1, <3>2 DEF TypeOK
    <3>4. ButtonsInv'
      BY <2>1, <2>3, <3>1 DEF ButtonsInv
    <3> QED
      BY <3>1, <3>3, <3>4
  <2> QED
    BY <1>6, <2>2, <2>3 DEF SessionCreated
<1>7. CASE CreateShown
  <2>1. TypeOK' /\ ButtonsInv'
    BY <1>7, RefreshedType DEF CreateShown, TypeOK, ButtonsInv, processes, connection
  <2> QED
    BY <1>7, <2>1, QuietStep DEF CreateShown, connection
<1>8. ASSUME NEW s \in Sessions, Session_Click(s) PROVE ClientInv'
  <2>1. /\ app = "open"
        /\ UNCHANGED <<panel, login, created, creating, row, after, disabled, shown, marked, fresh>>
    BY <1>8 DEF Session_Click, buttons
  <2>2. CASE ConnectToSession(s) /\ Refresh /\ UNCHANGED app
    <3>1. /\ current' = s /\ forwarders' = 1 /\ status' = "session"
          /\ bridge' \in Bridges \cup {Null, Unstarted} /\ bridge' # Unstarted
          /\ proc' \in [Bridges -> {"none", "running", "dead"}]
          /\ serves' \in [Bridges -> Sessions \cup {Null}]
          /\ missing' \in BOOLEAN
          /\ unkilled' \in SUBSET Bridges /\ late' \in SUBSET Bridges
          /\ exits' \in Nat
          /\ CurrentInv' /\ OneBridge' /\ NobodyLeft' /\ StatusHonest'
      BY <2>1, <2>2, ConnectKeeps
    <3>2. lists' \in 0 .. MaxLists
      BY <2>2 DEF Refresh, TypeOK, ClientAssumption
    <3>3. TypeOK' /\ ButtonsInv'
      BY <2>1, <2>2, <3>1, <3>2 DEF TypeOK, ButtonsInv
    <3> QED
      BY <3>1, <3>3
  <2>3. CASE ConnectThrows(s) /\ app' = "crashed" /\ UNCHANGED lists
    <3>1. /\ current' = s /\ forwarders' = 0 /\ bridge' = Unstarted
          /\ proc' \in [Bridges -> {"none", "running", "dead"}]
          /\ serves' = serves /\ late' = late /\ missing' = FALSE
          /\ unkilled' \in SUBSET Bridges /\ exits' \in Nat
          /\ status' = "disconnected"
          /\ CurrentInv' /\ OneBridge' /\ NobodyLeft' /\ StatusHonest'
      BY <2>1, <2>3, ThrowKeeps
    <3>2. {login', creating', after', disabled', fresh', missing'} \subseteq BOOLEAN
      BY <2>1, <2>3, <3>1, Zenon DEF TypeOK
    <3>3. TypeOK'
      BY <2>1, <2>3, <3>1, <3>2 DEF TypeOK
    <3>4. ButtonsInv'
      BY <2>1, <2>3, <3>1 DEF ButtonsInv
    <3> QED
      BY <3>1, <3>3, <3>4
  <2> QED
    BY <1>8, <2>2, <2>3 DEF Session_Click
<1>9. CASE ListAnswered
  <2>1. TypeOK' /\ ButtonsInv'
    BY <1>9, RefreshedType DEF ListAnswered, TypeOK, ButtonsInv, buttons, processes, connection
  <2> QED
    BY <1>9, <2>1, QuietStep DEF ListAnswered, connection
<1>10. CASE CreatedElsewhere
  <2>1. TypeOK' /\ ButtonsInv'
    BY <1>10 DEF CreatedElsewhere, TypeOK, ButtonsInv, ClientAssumption, buttons, listing,
                 processes, connection
  <2> QED
    BY <1>10, <2>1, QuietStep DEF CreatedElsewhere, connection
<1>11. CASE RowInserted
  <2>1. created + 1 \in Sessions /\ created + 1 \in 0 .. MaxSessions
    BY <1>11 DEF RowInserted, TypeOK, Sessions, ClientAssumption
  <2>2. TypeOK' /\ ButtonsInv'
    BY <1>11, <2>1 DEF RowInserted, TypeOK, ButtonsInv, listing, processes, connection
  <2> QED
    BY <1>11, <2>2, QuietStep DEF RowInserted, connection
<1>12. ASSUME NEW b \in Bridges, BridgeEnds(b) PROVE ClientInv'
  <2>1. TypeOK' /\ ButtonsInv'
    BY <1>12 DEF BridgeEnds, Exited, TypeOK, ButtonsInv, buttons, listing
  <2>2. /\ proc'[b] = "dead"
        /\ \A o \in Bridges : o # b => proc'[o] = proc[o]
    BY <1>12 DEF BridgeEnds, TypeOK
  <2>3. CurrentInv' /\ OneBridge' /\ NobodyLeft'
    BY <1>12, <2>2 DEF BridgeEnds, CurrentInv, OneBridge, NobodyLeft
  <2>4. StatusHonest'
    <3>1. CASE b = bridge
      BY <1>12, <3>1 DEF BridgeEnds, Exited, TypeOK, StatusHonest
    <3>2. CASE b # bridge
      BY <1>12, <2>2, <3>2 DEF BridgeEnds, Exited, TypeOK, StatusHonest, Running, Runs
    <3> QED
      BY <3>1, <3>2
  <2> QED
    BY <2>1, <2>3, <2>4
<1>13. CASE ShowExit
  <2>1. TypeOK' /\ ButtonsInv'
    BY <1>13 DEF ShowExit, TypeOK, ButtonsInv, buttons, listing, processes
  <2> QED
    BY <1>13, <2>1 DEF ShowExit, CurrentInv, OneBridge, NobodyLeft, StatusHonest, processes
<1>14. CASE Close
  <2>1. StopForGood /\ bridge # Unstarted
    BY <1>14 DEF Close
  <2>2. bridge' # Unstarted
    BY <2>1, GoodStop, HandleKinds
  <2>3. TypeOK' /\ ButtonsInv'
    BY <1>14, <2>1, <2>2, GoodStop DEF Close, TypeOK, ButtonsInv, buttons, listing
  <2>4. CurrentInv' /\ OneBridge' /\ NobodyLeft' /\ StatusHonest'
    BY <1>14, <2>1, <2>2, GoodStop DEF Close, CurrentInv, OneBridge, NobodyLeft, StatusHonest
  <2> QED
    BY <2>3, <2>4
<1>15. CASE StopThrows
  <2>1. \A b \in Bridges \ unkilled : proc[b] # "running"
    BY <1>15, HandleKinds DEF StopThrows, OneBridge
  <2>2. current' \in Sessions \cup {Null} /\ current' # Null
    <3>1. CASE current' = current
      BY <1>15, <3>1 DEF StopThrows, TypeOK, CurrentInv
    <3>2. CASE current' \in shown
      BY <3>2 DEF TypeOK, Sessions
    <3> QED
      BY <1>15, <3>1, <3>2 DEF StopThrows
  <2>3. TypeOK' /\ ButtonsInv'
    BY <1>15, <2>2 DEF StopThrows, TypeOK, ButtonsInv, buttons, listing, processes
  <2>4. CurrentInv' /\ OneBridge' /\ NobodyLeft' /\ StatusHonest'
    BY <1>15, <2>1, <2>2
    DEF StopThrows, CurrentInv, OneBridge, NobodyLeft, StatusHonest, Running, Runs, processes
  <2> QED
    BY <2>3, <2>4
<1>16. CASE UNCHANGED vars
  BY <1>16 DEF vars, buttons, listing, processes, connection, TypeOK, CurrentInv, ButtonsInv,
               OneBridge, NobodyLeft, StatusHonest, Running, Runs
<1> QED
  BY <1>1, <1>2, <1>3, <1>4, <1>5, <1>6, <1>7, <1>8, <1>9, <1>10, <1>11, <1>12, <1>13,
     <1>14, <1>15, <1>16 DEF Next

(* The invariant of the Windows client (MainWindow.xaml.cs, BridgeClient.cs). *)
THEOREM ClientCorrect == Spec => []ClientInv
<1>1. Init => ClientInv
  BY ClientAssumption, ClientInit
<1>2. ClientInv /\ [Next]_vars => ClientInv'
  BY ClientAssumption, ClientStep
<1> QED
  BY <1>1, <1>2, PTL DEF Spec

(* Its variables keep their types, and one forwarder at most is attached. *)
THEOREM ClientTypeCorrect == Spec => []TypeOK
BY ClientCorrect, PTL DEF ClientInv

(* Clicking from session to session never leaves two bridges, or one for another *)
(* session (ConnectToSession, MainWindow.xaml.cs:179).                           *)
THEOREM OneBridgeRuns == Spec => []OneBridge
BY ClientCorrect, PTL DEF ClientInv

(* After BtnDisconnect_Click or OnClosed only a bridge that resisted Kill, or    *)
(* that a late answer started, still runs.                                       *)
THEOREM NobodyLeftBehind == Spec => []NobodyLeft
BY ClientCorrect, PTL DEF ClientInv

(* "session" is taken back when the bridge ends.                    *)
THEOREM StatusIsHonest == Spec => []StatusHonest
BY ClientCorrect, PTL DEF ClientInv

-------------------------------------------------------------------------------
(* The list: what changes the current session also asks for a list, or leaves    *)
(* the panel, or throws.                                                         *)

(* A refresh that worked marks the current session and no other. *)
LEMMA RefreshedAgrees ==
    ASSUME Refreshed, current' = current
    PROVE  ListAgrees'
BY DEF Refreshed, Marked, ListAgrees

(* Where neither the list nor what it is about changes, it goes on agreeing. *)
LEMMA ListFrame ==
    ASSUME ListAgrees, Quiet' => Quiet, UNCHANGED <<shown, marked, fresh, current, bridge>>
    PROVE  ListAgrees'
BY DEF ListAgrees

(* No step leaves a list that marks another session. *)
LEMMA ListStep == ASSUME TypeOK, ListAgrees, [Next]_vars PROVE ListAgrees'
<1> USE DEF listing, buttons, connection, processes
<1>1. CASE LoginButton_Click \/ BtnNew_Click \/ RowInserted \/ CreateFailed \/ CreatedElsewhere
  BY <1>1, ListFrame
  DEF LoginButton_Click, BtnNew_Click, RowInserted, CreateFailed, CreatedElsewhere, Quiet
<1>2. CASE (\E b \in Bridges : BridgeEnds(b)) \/ ShowExit
  BY <1>2, ListFrame DEF BridgeEnds, ShowExit, Quiet
<1>3. CASE LoginAnswered
  <2>1. Quiet' => Quiet
    BY <1>3 DEF LoginAnswered, Refresh, Quiet, TypeOK
  <2> QED
    BY <1>3, <2>1, ListFrame DEF LoginAnswered
<1>4. CASE BtnDisconnect_Click \/ Close \/ StopThrows
  <2>1. ~Quiet'
    BY <1>4 DEF BtnDisconnect_Click, Close, StopThrows, Quiet
  <2> QED
    BY <2>1 DEF ListAgrees
<1>5. CASE SessionCreated
  <2>1. ~Quiet' \/ bridge' = Unstarted
    BY <1>5 DEF SessionCreated, ConnectThrows, Quiet
  <2> QED
    BY <2>1 DEF ListAgrees
<1>6. CASE \E s \in Sessions : Session_Click(s)
  <2>1. ~Quiet'
    BY <1>6 DEF Session_Click, Refresh, Quiet, TypeOK
  <2> QED
    BY <2>1 DEF ListAgrees
<1>7. CASE CreateShown \/ ListAnswered
  BY <1>7, RefreshedAgrees DEF CreateShown, ListAnswered
<1>8. CASE UNCHANGED vars
  BY <1>8, ListFrame DEF vars, Quiet
<1> QED
  BY <1>1, <1>2, <1>3, <1>4, <1>5, <1>6, <1>7, <1>8 DEF Next

(* When no answer is outstanding, the list that the last refresh drew marks the  *)
(* current session if it has it, and no other, whatever was clicked while the    *)
(* answers were on their way, unless the Start of a relay's bridge threw.        *)
THEOREM ListIsHonest == Spec => []ListAgrees
<1>1. Init => ListAgrees
  BY DEF Init, ListAgrees, Quiet
<1>2. TypeOK /\ ListAgrees /\ [Next]_vars => ListAgrees'
  BY ListStep
<1> QED
  BY <1>1, <1>2, ClientTypeCorrect, PTL DEF Spec

-------------------------------------------------------------------------------
(* WindowsClient implements Viewing *)

(* Stop changes nothing for a process that was never started. *)
LEMMA StopKeepsStarted ==
    ASSUME TypeOK, StartedInv, NEW killed \in BOOLEAN
    PROVE  /\ \A b \in Bridges : Stopped(killed).proc[b] = "none" <=> proc[b] = "none"
           /\ \A b \in Stopped(killed).unkilled : proc[b] # "none"
<1>1. CASE Running
  BY <1>1 DEF Stopped, TypeOK, StartedInv, Running, Runs, Bridges
<1>2. CASE ~Running
  BY <1>2 DEF Stopped, TypeOK, StartedInv
<1> QED
  BY <1>1, <1>2

(* Stop for good ends the bridge there was. *)
LEMMA StopEndsView ==
    ASSUME TypeOK, CurrentInv, OneBridge, StartedInv, StopForGood
    PROVE  Live' = {} /\ serves' = serves /\ StartedInv'
<1>1. PICK killed \in BOOLEAN :
        /\ proc' = Stopped(killed).proc
        /\ unkilled' = Stopped(killed).unkilled
  BY DEF StopForGood
<1>2. serves' = serves /\ \A b \in Bridges \ unkilled' : proc'[b] # "running"
  BY GoodStop
<1>3. unkilled' \subseteq Bridges
  BY <1>1, StopStops
<1>4. StartedInv'
  BY <1>1, <1>2, <1>3, StopKeepsStarted DEF StartedInv
<1> QED
  BY <1>2, <1>4 DEF Live

(* ConnectToSession puts a new bridge in the place of the one there was. *)
LEMMA ConnectViews ==
    ASSUME ClientInv, StartedInv, NEW s \in Sessions, ConnectToSession(s),
           User' = User, app = "open", app' = app
    PROVE  View!Connect(s) /\ StartedInv'
<1>1. PICK killed \in BOOLEAN :
        /\ Start(s, Stopped(killed).bridge, Stopped(killed).proc)
        /\ unkilled' = Stopped(killed).unkilled
  BY DEF ConnectToSession
<1> DEFINE pr == Stopped(killed).proc
           handle == Stopped(killed).bridge
<1>2. /\ pr \in [Bridges -> {"none", "running", "dead"}]
      /\ unkilled' \in SUBSET Bridges
      /\ \A b \in Bridges \ unkilled' : pr[b] # "running"
      /\ ~Runs(handle, pr)
      /\ \A b \in Bridges : pr[b] = "none" <=> proc[b] = "none"
      /\ \A b \in unkilled' : proc[b] # "none"
  BY <1>1, StopStops, StopKeepsStarted DEF ClientInv
<1>3. current' = s /\ s # Null /\ Chosen' = s
  BY DEF ConnectToSession, Sessions, Chosen
<1>4. \/ proc' = pr /\ serves' = serves
      \/ \E n \in FirstUnused(pr) :
            /\ proc' = [pr EXCEPT ![n] = "running"]
            /\ serves' = [serves EXCEPT ![n] = s]
  BY <1>1, <1>2 DEF Start
<1> HIDE DEF pr, handle
<1>5. CASE proc' = pr /\ serves' = serves
  <2>1. Live' = {}
    BY <1>2, <1>5 DEF Live
  <2>2. StartedInv'
    BY <1>2, <1>5 DEF StartedInv
  <2> QED
    BY <1>3, <1>5, <2>1, <2>2 DEF View!Connect
<1>6. ASSUME NEW n \in FirstUnused(pr),
             proc' = [pr EXCEPT ![n] = "running"],
             serves' = [serves EXCEPT ![n] = s]
      PROVE  View!Connect(s) /\ StartedInv'
  <2>1. n \in Bridges /\ proc[n] = "none" /\ serves[n] = Null /\ n \notin unkilled'
    BY <1>2 DEF FirstUnused, StartedInv
  <2>2. /\ proc'[n] = "running" /\ serves'[n] = s
        /\ \A b \in Bridges : b # n => proc'[b] = pr[b] /\ serves'[b] = serves[b]
    BY <1>2, <1>6, <2>1 DEF ClientInv, TypeOK
  <2>3. Live' = {n}
    BY <1>2, <2>1, <2>2 DEF Live
  <2>4. StartedInv'
    BY <1>2, <1>3, <2>1, <2>2 DEF StartedInv
  <2> QED
    BY <1>3, <1>6, <2>1, <2>3, <2>4 DEF View!Connect
<1> QED
  BY <1>4, <1>5, <1>6

(* One that throws puts none in its place. *)
LEMMA ThrowViews ==
    ASSUME ClientInv, StartedInv, NEW s \in Sessions, ConnectThrows(s)
    PROVE  Live' = {} /\ serves' = serves /\ StartedInv'
<1>1. PICK killed \in BOOLEAN :
        /\ proc' = Stopped(killed).proc
        /\ unkilled' = Stopped(killed).unkilled
  BY DEF ConnectThrows
<1>2. serves' = serves /\ \A b \in Bridges \ unkilled' : proc'[b] # "running"
  BY <1>1, StopStops DEF ConnectThrows, ClientInv
<1>3. unkilled' \subseteq Bridges
  BY <1>1, StopStops DEF ClientInv
<1>4. StartedInv'
  BY <1>1, <1>2, <1>3, StopKeepsStarted DEF StartedInv, ClientInv
<1> QED
  BY <1>2, <1>4 DEF Live

(* What a step that leaves the processes alone keeps. *)
LEMMA ViewFrame ==
    ASSUME UNCHANGED processes
    PROVE  Live' = Live /\ serves' = serves /\ (StartedInv => StartedInv')
BY DEF processes, Live, StartedInv

(* Every step is a step of Viewing or a stutter. *)
LEMMA ViewStep ==
    ASSUME ClientInv, ClientInv', ClientAssumption, StartedInv, [Next]_vars
    PROVE  [View!Next]_(View!vars) /\ StartedInv'
<1> USE DEF connection, buttons
<1>1. CASE \/ LoginButton_Click \/ RowInserted \/ CreateShown \/ ListAnswered
           \/ CreatedElsewhere \/ ShowExit
  <2>1. /\ UNCHANGED processes
        /\ UNCHANGED <<app, panel, creating, current>>
    BY <1>1 DEF LoginButton_Click, RowInserted, CreateShown, ListAnswered, CreatedElsewhere,
                ShowExit
  <2> QED
    BY <2>1, ViewFrame DEF View!vars, User, Asked, Chosen
<1>2. CASE LoginAnswered
  <2>1. /\ UNCHANGED processes /\ UNCHANGED <<app, creating, current>>
        /\ app = "open" /\ panel' \in {panel, "main"}
    BY <1>2 DEF LoginAnswered
  <2>2. User \in {"in", "out"} /\ User' \in {User, "in"} /\ UNCHANGED <<Asked, Chosen>>
    BY <2>1 DEF User, Asked, Chosen
  <2>3. View!Enter \/ UNCHANGED View!vars
    BY <2>1, <2>2, ViewFrame DEF View!Enter, View!vars
  <2> QED
    BY <2>1, <2>3, ViewFrame DEF View!Next
<1>3. CASE BtnDisconnect_Click
  <2>1. User = "in" /\ User' = "out" /\ Chosen' = Null /\ UNCHANGED Asked
    BY <1>3 DEF BtnDisconnect_Click, User, Asked, Chosen
  <2>2. Live' = {} /\ serves' = serves /\ StartedInv'
    <3>1. CASE current = Null
      <4>1. UNCHANGED processes
        BY <1>3, <3>1 DEF BtnDisconnect_Click
      <4>2. Live = {}
        BY <3>1 DEF ClientInv, CurrentInv, OneBridge, Live
      <4> QED
        BY <4>1, <4>2, ViewFrame
    <3>2. CASE current # Null
      BY <1>3, <3>2, StopEndsView DEF BtnDisconnect_Click, ClientInv
    <3> QED
      BY <3>1, <3>2
  <2> QED
    BY <2>1, <2>2 DEF View!Leave, View!Next
<1>4. CASE BtnNew_Click
  <2>1. /\ User = "in" /\ User' = User /\ ~Asked /\ Asked' = TRUE
        /\ UNCHANGED processes /\ UNCHANGED Chosen
    BY <1>4 DEF BtnNew_Click, User, Asked, Chosen, ClientInv, ButtonsInv
  <2>2. View!Ask
    BY <2>1, ViewFrame DEF View!Ask
  <2> QED
    BY <2>1, <2>2, ViewFrame DEF View!Next
<1>5. CASE CreateFailed
  <2>1. /\ User # "gone" /\ User' = User /\ Asked /\ Asked' = FALSE
        /\ UNCHANGED processes /\ UNCHANGED Chosen
    BY <1>5 DEF CreateFailed, User, Asked, Chosen
  <2>2. View!GiveUp
    BY <2>1, ViewFrame DEF View!GiveUp
  <2> QED
    BY <2>1, <2>2, ViewFrame DEF View!Next
<1>6. CASE SessionCreated
  <2>1. /\ row \in Sessions /\ app = "open" /\ User # "gone" /\ Asked /\ Asked' = FALSE
    BY <1>6 DEF SessionCreated, ClientInv, TypeOK, User, Asked
  <2>2. CASE ConnectToSession(row) /\ UNCHANGED app
    <3>1. User' = User
      BY <1>6, <2>2 DEF SessionCreated, User
    <3>2. View!Answer(row) /\ StartedInv'
      BY <2>1, <2>2, <3>1, ConnectViews DEF View!Answer
    <3> QED
      BY <2>1, <3>2 DEF View!Next
  <2>3. CASE ConnectThrows(row) /\ UNCHANGED app
    <3>1. User' = User /\ Chosen' = row
      BY <1>6, <2>1, <2>3 DEF SessionCreated, ConnectThrows, User, Chosen
    <3>2. View!Answer(row) /\ StartedInv'
      BY <2>1, <2>3, <3>1, ThrowViews DEF View!Answer, View!Connect
    <3> QED
      BY <2>1, <3>2 DEF View!Next
  <2>4. CASE ConnectThrows(row) /\ app' = "crashed"
    <3>1. User' = "gone" /\ Chosen' = Null
      BY <2>4 DEF User, Chosen
    <3> QED
      BY <2>1, <2>4, <3>1, ThrowViews DEF View!Close, View!Next
  <2> QED
    BY <1>6, <2>2, <2>3, <2>4 DEF SessionCreated
<1>7. ASSUME NEW s \in Sessions, Session_Click(s)
      PROVE  [View!Next]_(View!vars) /\ StartedInv'
  <2>1. User = "in" /\ app = "open"
    BY <1>7 DEF Session_Click, User
  <2>2. CASE ConnectToSession(s) /\ UNCHANGED app
    <3>1. User' = User /\ UNCHANGED Asked
      BY <1>7, <2>2 DEF Session_Click, User, Asked
    <3>2. View!Choose(s) /\ StartedInv'
      BY <2>1, <2>2, <3>1, ConnectViews DEF View!Choose
    <3> QED
      BY <3>2 DEF View!Next
  <2>3. CASE ConnectThrows(s) /\ app' = "crashed"
    <3>1. User' = "gone" /\ Chosen' = Null /\ Asked' = FALSE
      BY <2>3 DEF User, Chosen, Asked
    <3> QED
      BY <2>1, <2>3, <3>1, ThrowViews DEF View!Close, View!Next
  <2> QED
    BY <1>7, <2>2, <2>3 DEF Session_Click
<1>8. ASSUME NEW b \in Bridges, BridgeEnds(b)
      PROVE  [View!Next]_(View!vars) /\ StartedInv'
  <2>1. /\ User # "gone" /\ User' = User
        /\ UNCHANGED <<Asked, Chosen, serves, unkilled, bridge>>
    BY <1>8 DEF BridgeEnds, User, Asked, Chosen
  <2>2. /\ proc[b] = "running" /\ proc'[b] = "dead"
        /\ \A o \in Bridges : o # b => proc'[o] = proc[o]
    BY <1>8 DEF BridgeEnds, ClientInv, TypeOK
  <2>3. StartedInv'
    BY <2>1, <2>2 DEF StartedInv, ClientInv, TypeOK
  <2>4. Live' = Live \ {b}
    BY <2>1, <2>2 DEF Live
  <2>5. Live \subseteq {bridge}
    BY DEF Live, ClientInv, OneBridge
  <2>6. View!End \/ UNCHANGED View!vars
    BY <2>1, <2>4, <2>5 DEF View!End, View!vars
  <2> QED
    BY <2>3, <2>6 DEF View!Next
<1>9. CASE Close
  <2>1. /\ User # "gone" /\ User' = "gone" /\ Asked' = FALSE /\ Chosen' = Null
        /\ StopForGood
    BY <1>9 DEF Close, User, Asked, Chosen
  <2> QED
    BY <2>1, StopEndsView DEF View!Close, View!Next, ClientInv
<1>10. CASE StopThrows
  <2>1. /\ User # "gone" /\ User' = "gone" /\ Asked' = FALSE /\ Chosen' = Null
        /\ UNCHANGED processes
    BY <1>10 DEF StopThrows, User, Asked, Chosen
  <2>2. Live = {}
    BY <1>10, HandleKinds DEF StopThrows, ClientInv, OneBridge, Live
  <2> QED
    BY <2>1, <2>2, ViewFrame DEF View!Close, View!Next
<1>11. CASE UNCHANGED vars
  <2>1. UNCHANGED processes /\ UNCHANGED <<app, panel, creating, current>>
    BY <1>11 DEF vars
  <2> QED
    BY <2>1, ViewFrame DEF View!vars, User, Asked, Chosen
<1> QED
  BY <1>1, <1>2, <1>3, <1>4, <1>5, <1>6, <1>7, <1>8, <1>9, <1>10, <1>11 DEF Next

(* The Windows client keeps what Viewing promises: one bridge at most for the    *)
(* session chosen last, each process for one session of its life, none after a   *)
(* logout but the one a creation asked for before it starts (ConnectToSession,   *)
(* DisconnectCurrentSession, OnClosed).                                          *)
THEOREM ClientKeepsViewing == Spec => KeepsViewing
<1>1. Init => View!Init /\ StartedInv
  BY DEF Init, View!Init, StartedInv, User, Asked, Chosen, Live, Bridges
<1>2. ClientInv /\ ClientInv' /\ StartedInv /\ [Next]_vars
      => [View!Next]_(View!vars) /\ StartedInv'
  BY ClientAssumption, ViewStep
<1> QED
  BY <1>1, <1>2, ClientCorrect, PTL DEF Spec, KeepsViewing, View!Spec
===============================================================================
