----------------------------- MODULE WindowsClient -----------------------------
(* The window of the Windows client (MainWindow.xaml.cs), the calls it awaits    *)
(* (Services/ApiClient.cs) and the bridge process it starts                      *)
(* (Services/BridgeClient.cs).  A handler runs on the UI thread up to its next   *)
(* await; in between come clicks, answers of the server and the end of a bridge. *)
EXTENDS Naturals

CONSTANTS MaxSessions,   (* bound: sessions of the user                          *)
          MaxBridges,    (* bound: bridge processes                              *)
          MaxLists       (* bound: unanswered requests for the list              *)

ASSUME ClientAssumption == MaxSessions \in Nat /\ MaxBridges \in Nat /\ MaxLists \in Nat

Sessions == 1 .. MaxSessions
Bridges == 1 .. MaxBridges
Null == 0
Unstarted == MaxBridges + 1     (* the handle of a process that did not start    *)

VARIABLES
    app,         (* the window is open, closed, or gone with an exception        *)
    panel,       (* LoginPanel or MainPanel                                      *)
    login,       (* LoginAsync is awaited                                        *)
    creating,    (* CreateSessionAsync is awaited                                *)
    row,         (* the row that the server has inserted for it                  *)
    after,       (* RefreshSessionsAsync is awaited after a creation             *)
    disabled,    (* BtnNewDesktop and BtnNewRelay are disabled                   *)
    lists,       (* the other refreshes that are awaited                         *)
    created,     (* the user's sessions on the server so far                     *)
    shown,       (* the sessions that have a button                              *)
    marked,      (* the one whose button is drawn as active                      *)
    fresh,       (* whether the last refresh worked                              *)
    current,     (* _currentSession                                              *)
    bridge,      (* _bridgeProcess                                               *)
    proc,        (* what has become of each process                              *)
    serves,      (* the session each was started for                             *)
    exits,       (* Exited handlers that wait in Dispatcher.Invoke               *)
    forwarders,  (* InputForwarders that are attached to the viewer              *)
    status,      (* ConnectionStatus, the text next to the dot                   *)
    missing,     (* history: rd-bridge.exe was not found at the last Start       *)
    unkilled,    (* history: bridges that Stop could not kill                    *)
    late         (* history: bridges started by the answer to a creation that    *)
                 (* came when the user had logged out                            *)

buttons == <<creating, row, after, disabled>>
listing == <<lists, shown, marked, fresh>>
processes == <<bridge, proc, serves, missing, unkilled, late>>
connection == <<current, exits, forwarders, status>>
vars == <<app, panel, login, created, buttons, listing, processes, connection>>

TypeOK ==
    /\ app \in {"open", "closed", "crashed"} /\ panel \in {"login", "main"}
    /\ login \in BOOLEAN /\ creating \in BOOLEAN /\ after \in BOOLEAN
    /\ disabled \in BOOLEAN /\ row \in Sessions \cup {Null}
    /\ lists \in 0 .. MaxLists
    /\ created \in 0 .. MaxSessions
    /\ shown \in SUBSET Sessions
    /\ marked \in Sessions \cup {Null} /\ current \in Sessions \cup {Null}
    /\ fresh \in BOOLEAN /\ missing \in BOOLEAN
    /\ bridge \in Bridges \cup {Null, Unstarted}
    /\ proc \in [Bridges -> {"none", "running", "dead"}]
    /\ serves \in [Bridges -> Sessions \cup {Null}]
    /\ exits \in Nat
    /\ forwarders \in 0 .. 1
    /\ status \in {"disconnected", "server", "session", "exited", "stopped"}
    /\ unkilled \in SUBSET Bridges /\ late \in SUBSET Bridges

Init ==
    /\ app = "open" /\ panel = "login"
    /\ login = FALSE /\ creating = FALSE /\ after = FALSE
    /\ disabled = FALSE /\ row = Null
    /\ lists = 0 /\ shown = {} /\ marked = Null /\ fresh = FALSE
    /\ created = 0
    /\ current = Null /\ bridge = Null
    /\ proc = [b \in Bridges |-> "none"]
    /\ serves = [b \in Bridges |-> Null]
    /\ exits = 0 /\ forwarders = 0 /\ status = "disconnected"
    /\ missing = FALSE /\ unkilled = {} /\ late = {}

-------------------------------------------------------------------------------
(* The definitions named X_... are faulty variants of X, each with a mistake     *)
(* that a change of the code could bring in; the specification uses none.        *)

Runs(b, pr) == b \in Bridges /\ pr[b] = "running"
Running == Runs(bridge, proc)

(* BridgeClient.Stop: the handle and the processes after it.  That Kill throws,  *)
(* or that the process survives it for three seconds, is ignored; the handle of  *)
(* a process that has ended by itself is kept.  For one that did not start it is *)
(* HasExited that throws: no action below calls Stop then but StopThrows.        *)
Stopped_Not(killed) == [bridge |-> bridge, proc |-> proc, unkilled |-> unkilled]
Stopped(killed) ==
    [bridge   |-> IF Running THEN Null ELSE bridge,
     proc     |-> IF Running /\ killed THEN [proc EXCEPT ![bridge] = "dead"] ELSE proc,
     unkilled |-> IF Running /\ ~killed THEN unkilled \cup {bridge} ELSE unkilled]

(* The Exited handler of a killed process may be waiting for the UI thread. *)
Raised(killed) ==
    exits' \in IF Running /\ killed THEN {exits, exits + 1} ELSE {exits}

(* OnClosed, BtnDisconnect_Click: no bridge is wanted any more. *)
StopForGood_Not == UNCHANGED <<processes, exits>>
StopForGood ==
    \E killed \in BOOLEAN :
        /\ bridge' = Stopped(killed).bridge
        /\ proc' = Stopped(killed).proc
        /\ unkilled' = Stopped(killed).unkilled
        /\ Raised(killed)
        /\ UNCHANGED <<serves, missing, late>>

(* BridgeClient.Start: nothing if one runs, or if there is no rd-bridge.exe. *)
FirstUnused(pr) == {b \in Bridges : pr[b] = "none" /\ \A o \in Bridges : o < b => pr[o] # "none"}

Start(s, handle, pr) ==
    IF Runs(handle, pr)
    THEN bridge' = handle /\ proc' = pr /\ UNCHANGED <<serves, missing, late>>
    ELSE \/ /\ bridge' = handle /\ proc' = pr
            /\ missing' = TRUE
            /\ UNCHANGED <<serves, late>>
         \/ /\ \E b \in FirstUnused(pr) :
                  /\ bridge' = b
                  /\ proc' = [pr EXCEPT ![b] = "running"]
                  /\ serves' = [serves EXCEPT ![b] = s]
                  /\ late' = IF panel = "login" THEN late \cup {b} ELSE late
            /\ missing' = FALSE

(* Deactivate takes the handlers of the last InputForwarder off, if they are on. *)
Detached == IF forwarders > 0 THEN forwarders - 1 ELSE 0

(* ConnectToSession: _currentSession is set before it, so that                   *)
(* DisconnectCurrentSession always stops the bridge and detaches the forwarder.  *)
ConnectToSession(s) ==
    /\ bridge # Unstarted
    /\ current' = s
    /\ \E killed \in BOOLEAN :
          /\ Start(s, Stopped(killed).bridge, Stopped(killed).proc)
          /\ unkilled' = Stopped(killed).unkilled
          /\ Raised(killed)
    /\ forwarders' = Detached + 1
    /\ status' = "session"

(* The same when Process.Start throws: the handle is set by then, the forwarder  *)
(* of the session before detached, and none made for this one.                   *)
ConnectThrows(s) ==
    /\ bridge # Unstarted
    /\ current' = s
    /\ \E killed \in BOOLEAN :
          /\ proc' = Stopped(killed).proc
          /\ unkilled' = Stopped(killed).unkilled
          /\ Raised(killed)
    /\ bridge' = Unstarted
    /\ missing' = FALSE
    /\ UNCHANGED <<serves, late>>
    /\ forwarders' = Detached
    /\ status' = "disconnected"

-------------------------------------------------------------------------------
(* RefreshSessionsAsync: requested without waiting for it *)

Refresh_Forgotten == UNCHANGED lists
Refresh == lists < MaxLists /\ lists' = lists + 1

(* What comes after its await.  The server lists some of the sessions so far,    *)
(* also one whose creation it has not answered yet: others are deleted, or came  *)
(* after the request.                                                            *)
Marked == IF current \in shown' THEN current ELSE Null

Refreshed ==
    \/ /\ shown' \in SUBSET (1 .. created)
       /\ marked' = Marked
       /\ fresh' = TRUE
    \/ fresh' = FALSE /\ UNCHANGED <<shown, marked>>

ListAnswered ==
    /\ app = "open" /\ lists > 0
    /\ lists' = lists - 1
    /\ Refreshed
    /\ UNCHANGED <<app, panel, login, created, buttons, processes, connection>>

-------------------------------------------------------------------------------
(* Logging in and out *)

LoginButton_Click ==
    /\ app = "open" /\ panel = "login" /\ ~login
    /\ login' = TRUE
    /\ UNCHANGED <<app, panel, created, buttons, listing, processes, connection>>

LoginAnswered ==
    /\ app = "open" /\ login
    /\ login' = FALSE
    /\ \/ /\ panel' = "main"
          /\ status' = "server"
          /\ Refresh
       \/ UNCHANGED <<panel, status, lists>>
    /\ UNCHANGED <<app, created, buttons, shown, marked, fresh, processes,
                   current, exits, forwarders>>

BtnDisconnect_Click ==
    /\ app = "open" /\ panel = "main" /\ bridge # Unstarted
    /\ panel' = "login"
    /\ IF current = Null THEN UNCHANGED <<processes, exits>> ELSE StopForGood
    /\ current' = Null
    /\ forwarders' = IF current = Null THEN forwarders ELSE Detached
    /\ status' = "disconnected"
    /\ UNCHANGED <<app, login, created, buttons, listing>>

-------------------------------------------------------------------------------
(* Sessions *)

(* Both buttons are disabled, and one request made. *)
BtnNew_Click ==
    /\ app = "open" /\ panel = "main" /\ ~disabled
    /\ creating' = TRUE
    /\ disabled' = TRUE
    /\ UNCHANGED <<app, panel, login, created, row, after, listing, processes, connection>>

(* The server inserts the row before it starts the container and answers.        *)
RowInserted ==
    /\ app = "open" /\ creating /\ row = Null
    /\ created < MaxSessions
    /\ created' = created + 1
    /\ row' = created + 1
    /\ UNCHANGED <<app, panel, login, creating, after, disabled, listing, processes,
                   connection>>

(* CreateSessionAsync after its first await, logged out or not. *)
ButtonsBack_OnSuccess == UNCHANGED disabled
ButtonsBack == disabled' = FALSE

CreateFailed ==
    /\ app = "open" /\ creating
    /\ creating' = FALSE /\ row' = Null
    /\ ButtonsBack
    /\ UNCHANGED <<app, panel, login, created, after, listing, processes, connection>>

(* An exception ends the task.  A relay's was discarded by its caller, so that   *)
(* nothing but the rest of the method is lost; a desktop's is awaited by the     *)
(* handler, out of which the exception ends the program.                         *)
SessionCreated ==
    /\ app = "open" /\ creating /\ row # Null
    /\ creating' = FALSE /\ row' = Null
    /\ \/ ConnectToSession(row) /\ after' = TRUE /\ UNCHANGED app
       \/ ConnectThrows(row) /\ app' \in {app, "crashed"} /\ UNCHANGED after
    /\ UNCHANGED <<panel, login, created, disabled, listing>>

(* ... and after its second. *)
CreateShown ==
    /\ app = "open" /\ after
    /\ after' = FALSE /\ disabled' = FALSE
    /\ Refreshed
    /\ UNCHANGED <<app, panel, login, created, creating, row, lists, processes, connection>>

Session_Click(s) ==
    /\ app = "open" /\ panel = "main"
    /\ s \in shown
    /\ \/ ConnectToSession(s) /\ Refresh /\ UNCHANGED app
       \/ ConnectThrows(s) /\ app' = "crashed" /\ UNCHANGED lists
    /\ UNCHANGED <<panel, login, created, buttons, shown, marked, fresh>>

(* A session is created in a browser, or by a request that timed out here. *)
CreatedElsewhere ==
    /\ app = "open" /\ created < MaxSessions
    /\ created' = created + 1
    /\ UNCHANGED <<app, panel, login, buttons, listing, processes, connection>>

-------------------------------------------------------------------------------
(* The bridge, and the end *)

(* Only the process of the handle raises Exited: the others were disposed of. *)
Exited_Silent(b) == UNCHANGED exits
Exited(b) == exits' = IF b = bridge THEN exits + 1 ELSE exits

BridgeEnds(b) ==
    /\ app = "open" /\ proc[b] = "running"
    /\ proc' = [proc EXCEPT ![b] = "dead"]
    /\ Exited(b)
    /\ UNCHANGED <<app, panel, login, created, buttons, listing, bridge, serves, missing,
                   unkilled, late, current, forwarders, status>>

(* OnStatusChanged through Dispatcher.Invoke, of whichever process it was. *)
ShowExit ==
    /\ app = "open" /\ exits > 0
    /\ exits' = exits - 1
    /\ status' = "exited"
    /\ UNCHANGED <<app, panel, login, created, buttons, listing, processes, current, forwarders>>

(* CloseButton_Click, or the window is closed in another way: nothing that is    *)
(* awaited goes on.                                                              *)
Close ==
    /\ app = "open" /\ bridge # Unstarted
    /\ app' = "closed"
    /\ StopForGood
    /\ status' = "stopped"
    /\ UNCHANGED <<panel, login, created, buttons, listing, current, forwarders>>

(* After a Start that threw, the next Stop throws in a handler, and nothing      *)
(* catches it: a session's button (Session_Click), or BtnDisconnect, or Close.   *)
StopThrows ==
    /\ app = "open" /\ bridge = Unstarted
    /\ app' = "crashed"
    /\ UNCHANGED current \/ (panel = "main" /\ current' \in shown)
    /\ UNCHANGED <<panel, login, created, buttons, listing, processes, exits, forwarders,
                   status>>

Next ==
    \/ LoginButton_Click \/ LoginAnswered \/ BtnDisconnect_Click
    \/ BtnNew_Click \/ RowInserted \/ CreateFailed \/ SessionCreated \/ CreateShown
    \/ \E s \in Sessions : Session_Click(s)
    \/ ListAnswered \/ CreatedElsewhere
    \/ \E b \in Bridges : BridgeEnds(b)
    \/ ShowExit \/ Close \/ StopThrows

Spec == Init /\ [][Next]_vars

(* A request is answered or times out; nobody has to click. *)
Fairness ==
    /\ WF_vars(CreateFailed \/ SessionCreated) /\ WF_vars(CreateShown)
    /\ WF_vars(LoginAnswered) /\ WF_vars(ListAnswered) /\ WF_vars(ShowExit)

FairSpec == Spec /\ Fairness

-------------------------------------------------------------------------------
(* Properties *)

(* Whatever is clicked while answers are outstanding, the bridge that runs is    *)
(* the one of the handle, for the current session, unless it resisted Kill.      *)
OneBridge ==
    \A b \in Bridges \ unkilled :
        proc[b] = "running" => b = bridge /\ serves[b] = current

(* Nobody is left connected after logging out, closing or a crash: such a bridge *)
(* resisted Kill, or was started after the logout by a creation under way.       *)
NobodyLeft ==
    \A b \in Bridges \ unkilled :
        proc[b] = "running" /\ (panel = "login" \/ app # "open")
            => b \in late /\ app = "open"

(* The window says that it is connected only while the bridge runs, or its end   *)
(* is about to be shown, or there is no bridge program.                          *)
StatusHonest ==
    status = "session" => Running \/ exits > 0 \/ missing

(* The inductive invariant behind them: a forwarder is attached exactly while a  *)
(* session is current whose Start did not throw, and after one that did the      *)
(* buttons are disabled and no answer to a creation is awaited.                  *)
CurrentInv ==
    /\ forwarders = IF current = Null \/ bridge = Unstarted THEN 0 ELSE 1
    /\ bridge = Unstarted => current # Null
    /\ \A b \in Bridges : proc[b] = "running" => serves[b] # Null

ButtonsInv ==
    /\ creating \/ after => disabled
    /\ ~(creating /\ after)
    /\ bridge = Unstarted /\ app = "open" => disabled /\ ~creating /\ ~after

ClientInv ==
    /\ TypeOK /\ CurrentInv /\ ButtonsInv
    /\ OneBridge /\ NobodyLeft /\ StatusHonest

(* A process is started for a session, once, and so was one that resisted Kill.  *)
StartedInv ==
    /\ \A b \in Bridges : serves[b] = Null <=> proc[b] = "none"
    /\ \A b \in unkilled : proc[b] # "none"

(* The bridges keep what Viewing promises of them.                               *)
User == IF app # "open" THEN "gone" ELSE IF panel = "main" THEN "in" ELSE "out"
Asked == app = "open" /\ creating
Chosen == IF app = "open" THEN current ELSE Null
Live == {b \in Bridges \ unkilled : proc[b] = "running"}

View == INSTANCE Viewing WITH user <- User, asked <- Asked, current <- Chosen, live <- Live

KeepsViewing == View!Spec

(* When no answer is outstanding, the list marks the current session if it has   *)
(* it, and no other one, except after a Start that threw in the discarded task   *)
(* of a relay: the session is current then, and no list is asked for.            *)
Quiet == app = "open" /\ panel = "main" /\ ~after /\ lists = 0

ListAgrees ==
    Quiet /\ fresh /\ bridge # Unstarted
        => marked = IF current \in shown THEN current ELSE Null

(* A creation that fails or succeeds gives the buttons back, except after a      *)
(* Start that threw in the discarded task of a relay.                            *)
ButtonsReturn == disabled ~> ~disabled \/ app # "open" \/ bridge = Unstarted

===============================================================================
