---------------------------- MODULE SessionLifecycle ----------------------------
(* Desktop and relay sessions: their rows, their Docker containers and the HTTP  *)
(* requests that create and delete them (server/internal/api/router.go,          *)
(* server/internal/orchestration/docker.go).  A row and its container are        *)
(* written by separate steps of requests that nothing serializes.                *)
EXTENDS FiniteSets

CONSTANTS Sessions,   (* the POST /api/sessions requests; each makes one session *)
          Deletes     (* the DELETE /api/sessions/{id} requests                  *)

VARIABLES
    kind,       (* sessions.type, which a POST stores unchecked: all but relay   *)
                (* get a desktop, those of type agent, too                       *)
    row,        (* sessions.status                                               *)
    name,       (* sessions.container_name                                       *)
    container,  (* what the Docker daemon has under the session's container name *)
    create,     (* where the request that creates a session is                   *)
    delete,     (* where a request that deletes one is                           *)
    target,     (* the session it deletes                                        *)
    found,      (* the container name it has read                                *)
    faulty,     (* history: sessions one of whose requests had a statement or a  *)
                (* docker command fail, or was cut off by the end of the process *)
    overlapped, (* history: sessions deleted while they were being created       *)
    misrouted   (* history: sessions with a desktop that a DELETE has stopped in *)
                (* the row alone, the way of the sessions of agents              *)

vars == <<kind, row, name, container, create, delete, target, found, faulty,
          overlapped, misrouted>>

(* Container names.  The id in a name is that of the session, so only the prefix *)
(* can be wrong.                                                                 *)
DefaultName == "rd-session"
ContainerName(s) == IF kind[s] = "relay" THEN "rd-relay" ELSE DefaultName

TypeOK ==
    /\ kind \in [Sessions -> {"desktop", "relay", "agent"}]
    /\ row \in [Sessions -> {"none", "pending", "running", "failed", "stopped"}]
    /\ name \in [Sessions -> {"NULL", "rd-session", "rd-relay"}]
    /\ container \in [Sessions -> {"absent", "created", "running", "exited"}]
    /\ create \in [Sessions -> {"idle", "ensuring", "ready", "started", "failing",
                                "answered", "refused", "lost"}]
    /\ delete \in [Deletes -> {"idle", "marking", "reading", "stopping", "removing",
                               "clearing", "answered", "refused", "lost"}]
    /\ target \in [Deletes -> Sessions]
    /\ found \in [Deletes -> {"NULL", "rd-session", "rd-relay"}]
    /\ faulty \in SUBSET Sessions
    /\ overlapped \in SUBSET Sessions
    /\ misrouted \in SUBSET Sessions

Init ==
    /\ kind \in [Sessions -> {"desktop", "relay", "agent"}]
    /\ row = [s \in Sessions |-> "none"]
    /\ name = [s \in Sessions |-> "NULL"]
    /\ container = [s \in Sessions |-> "absent"]
    /\ create = [s \in Sessions |-> "idle"]
    /\ delete = [d \in Deletes |-> "idle"]
    /\ target \in [Deletes -> Sessions]
    /\ found = [d \in Deletes |-> "NULL"]
    /\ faulty = {}
    /\ overlapped = {}
    /\ misrouted = {}

-------------------------------------------------------------------------------

Creating(s) == create[s] \in {"ensuring", "ready", "started", "failing"}
Deleting(d) ==
    delete[d] \in {"marking", "reading", "stopping", "removing", "clearing"}

CreateAt(s, l) == create' = [create EXCEPT ![s] = l]
DeleteAt(d, l) == delete' = [delete EXCEPT ![d] = l]

(* A statement or a command on behalf of s works, or fails. *)
Works == UNCHANGED faulty
Fails(s) == faulty' = faulty \cup {s}

(* The definitions named X_... are faulty variants of X, each with a mistake     *)
(* that a change of the code could bring in; the specification uses none.        *)

-------------------------------------------------------------------------------
(* handleCreateSession *)

(* INSERT of a pending row; when it fails there is no session. *)
InsertSession(s) ==
    /\ create[s] = "idle"
    /\ \/ /\ row' = [row EXCEPT ![s] = "pending"]
          /\ CreateAt(s, "ensuring")
       \/ /\ CreateAt(s, "refused")
          /\ UNCHANGED row
    /\ UNCHANGED <<kind, name, container, delete, target, found, faulty, overlapped,
                   misrouted>>

(* ensureImage: up to 45 minutes when the image has to be built. *)
EnsureImage(s) ==
    /\ create[s] = "ensuring"
    /\ CreateAt(s, "ready") \/ CreateAt(s, "failing")
    /\ UNCHANGED <<kind, row, name, container, delete, target, found, faulty, overlapped,
                   misrouted>>

(* docker run -d creates a container and starts it; when the start fails, the    *)
(* command fails and the created container stays.                                *)
RunContainer(s) ==
    /\ create[s] = "ready"
    /\ \/ /\ container' = [container EXCEPT ![s] = "running"]
          /\ CreateAt(s, "started")
          /\ Works
       \/ /\ container' = [container EXCEPT ![s] = "created"]
          /\ CreateAt(s, "failing")
          /\ Fails(s)
       \/ /\ CreateAt(s, "failing")
          /\ UNCHANGED <<container, faulty>>
    /\ UNCHANGED <<kind, row, name, delete, target, found, overlapped, misrouted>>

(* UPDATE ... status = 'running' WHERE id, whatever the status is now.  An error *)
(* is logged and the request is answered 201 with a running session all the same.*)
RecordedName_None(s) == "NULL"
RecordedName(s) == ContainerName(s)

MarkRunning(s) ==
    /\ create[s] = "started"
    /\ CreateAt(s, "answered")
    /\ \/ /\ row' = [row EXCEPT ![s] = "running"]
          /\ name' = [name EXCEPT ![s] = RecordedName(s)]
          /\ Works
       \/ /\ Fails(s)
          /\ UNCHANGED <<row, name>>
    /\ UNCHANGED <<kind, container, delete, target, found, overlapped, misrouted>>

FailedStatus_Kept(s) == row[s]
FailedStatus(s) == "failed"

(* The error of this UPDATE is dropped. *)
MarkFailed(s) ==
    /\ create[s] = "failing"
    /\ CreateAt(s, "refused")
    /\ \/ /\ row' = [row EXCEPT ![s] = FailedStatus(s)]
          /\ Works
       \/ /\ Fails(s)
          /\ UNCHANGED row
    /\ UNCHANGED <<kind, name, container, delete, target, found, overlapped, misrouted>>

-------------------------------------------------------------------------------
(* handleDeleteSession and StopContainer *)

(* The row is looked up; any status will do, and its type decides what follows.  *)
FindSession(d) ==
    /\ delete[d] = "idle"
    /\ row[target[d]] # "none"
    /\ DeleteAt(d, IF kind[target[d]] = "agent" THEN "marking" ELSE "reading")
    /\ UNCHANGED <<kind, row, name, container, create, target, found, faulty, overlapped,
                   misrouted>>

(* The handler takes a session of type agent for one without a container: it     *)
(* stops the row, drops the error and answers.  (agent_id is NULL in a session   *)
(* that POST made, so no agent is set free.)                                     *)
MarkStopped(d) ==
    LET s == target[d]
    IN  /\ delete[d] = "marking"
        /\ DeleteAt(d, "answered")
        /\ \/ /\ row' = [row EXCEPT ![s] = "stopped"]
              /\ misrouted' = misrouted \cup {s}
           \/ UNCHANGED <<row, misrouted>>
        /\ UNCHANGED <<kind, name, container, create, target, found, faulty, overlapped>>

(* COALESCE(container_name, 'rd-session-<id>') *)
FoundName(s) == IF name[s] = "NULL" THEN DefaultName ELSE name[s]

(* When the SELECT fails, the request is answered 500 and nothing is stopped.    *)
ReadName(d) ==
    LET s == target[d]
    IN  /\ delete[d] = "reading"
        /\ \/ /\ found' = [found EXCEPT ![d] = FoundName(s)]
              /\ DeleteAt(d, "stopping")
              /\ overlapped' = IF Creating(s) THEN overlapped \cup {s} ELSE overlapped
           \/ /\ DeleteAt(d, "refused")
              /\ UNCHANGED <<found, overlapped>>
        /\ UNCHANGED <<kind, row, name, container, create, target, faulty, misrouted>>

(* docker stop, whose failure is logged. *)
StopContainer(d) ==
    LET s == target[d]
    IN  /\ delete[d] = "stopping"
        /\ DeleteAt(d, "removing")
        /\ \/ /\ found[d] = ContainerName(s)
              /\ container[s] = "running"
              /\ container' = [container EXCEPT ![s] = "exited"]
           \/ UNCHANGED container
        /\ UNCHANGED <<kind, row, name, create, target, found, faulty, overlapped,
                   misrouted>>

(* docker rm -f under what is left of the 30 seconds; its failure is ignored. *)
Removes(d) == found[d] = ContainerName(target[d])

RemoveContainer(d) ==
    LET s == target[d]
    IN  /\ delete[d] = "removing"
        /\ DeleteAt(d, "clearing")
        /\ \/ /\ container' = IF Removes(d) THEN [container EXCEPT ![s] = "absent"]
                                            ELSE container
              /\ Works
           \/ /\ Fails(s)
              /\ UNCHANGED container
        /\ UNCHANGED <<kind, row, name, create, target, found, overlapped, misrouted>>

ClearedStatus_Kept(s) == row[s]
ClearedStatus_Failed(s) == IF name[s] = "NULL" THEN "failed" ELSE "stopped"
ClearedStatus(s) == "stopped"

ClearRow(d) ==
    LET s == target[d]
    IN  /\ delete[d] = "clearing"
        /\ \/ /\ row' = [row EXCEPT ![s] = ClearedStatus(s)]
              /\ name' = [name EXCEPT ![s] = "NULL"]
              /\ DeleteAt(d, "answered")
              /\ Works
           \/ /\ DeleteAt(d, "refused")
              /\ Fails(s)
              /\ UNCHANGED <<row, name>>
        /\ UNCHANGED <<kind, container, create, target, found, overlapped, misrouted>>

-------------------------------------------------------------------------------
(* The environment *)

(* The program in a container ends; the containers have no restart policy. *)
ContainerExits(s) ==
    /\ container[s] = "running"
    /\ container' = [container EXCEPT ![s] = "exited"]
    /\ UNCHANGED <<kind, row, name, create, delete, target, found, faulty, overlapped,
                   misrouted>>

(* The server process ends and docker starts another: the requests in progress   *)
(* are cut off where they are, rows and containers stay, and nothing at start-up *)
(* reconciles them.                                                              *)
Crash ==
    LET cs == {s \in Sessions : Creating(s)}
        ds == {d \in Deletes : Deleting(d)}
    IN  /\ cs \cup {target[d] : d \in ds} # {}
        /\ create' = [s \in Sessions |-> IF s \in cs THEN "lost" ELSE create[s]]
        /\ delete' = [d \in Deletes |-> IF d \in ds THEN "lost" ELSE delete[d]]
        /\ faulty' = faulty \cup cs \cup {target[d] : d \in ds}
        /\ UNCHANGED <<kind, row, name, container, target, found, overlapped, misrouted>>

Create(s) ==
    \/ InsertSession(s) \/ EnsureImage(s) \/ RunContainer(s)
    \/ MarkRunning(s) \/ MarkFailed(s)

Delete(d) ==
    \/ FindSession(d) \/ MarkStopped(d) \/ ReadName(d) \/ StopContainer(d)
    \/ RemoveContainer(d) \/ ClearRow(d)

Next ==
    \/ \E s \in Sessions : Create(s) \/ ContainerExits(s)
    \/ \E d \in Deletes : Delete(d)
    \/ Crash

Spec == Init /\ [][Next]_vars

(* Every statement and every docker command returns: builds and stops have       *)
(* timeouts.  Nobody has to create or delete a session.                          *)
Fairness ==
    /\ \A s \in Sessions :
          WF_vars(EnsureImage(s) \/ RunContainer(s) \/ MarkRunning(s) \/ MarkFailed(s))
    /\ \A d \in Deletes :
          WF_vars(\/ MarkStopped(d) \/ ReadName(d) \/ StopContainer(d)
                  \/ RemoveContainer(d) \/ ClearRow(d))

FairSpec == Spec /\ Fairness

-------------------------------------------------------------------------------
(* Properties *)

(* A session nothing went wrong with, that was not deleted while it was being    *)
(* created and not stopped for one of an agent: the three ways out of the        *)
(* guarantees below.                                                             *)
Sound(s) == s \notin faulty \cup overlapped \cup misrouted

(* Past the removal of the container and not yet at the row. *)
Removing(s) == \E d \in Deletes : target[d] = s /\ delete[d] = "clearing"

(* A container is never left to run with nobody to stop it: as long as it exists *)
(* its row is running and has the name under which a DELETE will find it, or the *)
(* request that made it is about to record that.  (The three ways out leak: the  *)
(* UPDATE after docker run fails or the process ends before it, docker rm runs   *)
(* out of its 30 seconds, the DELETE of a pending session removes nothing and    *)
(* the container starts after it - or, for a relay, is looked for under the name *)
(* of a desktop -, or the session was posted with type agent, and its DELETE     *)
(* never goes to docker.)                                                        *)
NoContainerLeak ==
    \A s \in Sessions :
        Sound(s) /\ container[s] # "absent" =>
            \/ create[s] = "started"
            \/ row[s] = "running" /\ name[s] = ContainerName(s)

(* A row that says running has its container, except while a DELETE is between   *)
(* removing the one and updating the other.                                      *)
RunningHasContainer ==
    \A s \in Sessions :
        Sound(s) /\ row[s] = "running" => container[s] # "absent" \/ Removing(s)

(* Only the end of its own creation brings a stopped session back: the last      *)
(* UPDATE of a request that had not yet answered when the DELETE came.  So it    *)
(* comes back once at most, as running or failed, whatever fails and whenever    *)
(* the process ends, and no DELETE ever undoes another.                          *)
StoppedForGood ==
    [][\A s \in Sessions :
          row[s] = "stopped" /\ row'[s] # "stopped" =>
              Creating(s) /\ ~Creating(s)' /\ row'[s] \in {"running", "failed"}]_vars

(* When the creation was answered 201 with a running session, the row is not     *)
(* pending and not failed, unless a statement failed.                            *)
AnswerAgrees ==
    \A s \in Sessions \ faulty :
        /\ create[s] = "answered" => row[s] \in {"running", "stopped"}
        /\ create[s] = "refused" => row[s] \in {"none", "failed", "stopped"}

(* A pending session comes to be running, failed or stopped - or something       *)
(* failed: expires_at is never looked at and nothing at start-up revisits rows,  *)
(* so a session whose creation was cut off is pending for ever.                  *)
PendingResolves ==
    \A s \in Sessions : row[s] = "pending" ~> row[s] # "pending" \/ s \in faulty

(* The whole of the above for a session nothing went wrong with: its row and its *)
(* container go through the states of SessionPromise in their order, whatever    *)
(* the requests about it and about other sessions do meanwhile.                  *)
Promise == INSTANCE SessionPromise WITH
               status <- row,
               there  <- {s \in Sessions : container[s] # "absent"},
               going  <- {s \in Sessions : Removing(s)},
               astray <- faulty \cup overlapped \cup misrouted

KeepsSessionPromise == Promise!Spec

(* Why the safety properties hold: the invariant their proofs are about.  A       *)
(* creation works on a pending row that nobody else has touched, unless a DELETE *)
(* has overlapped with it; a DELETE past its first read knows the name of the    *)
(* container, unless there is none, and there is none once it has removed it.    *)
CreationInv ==
    \A s \in Sessions :
        /\ create[s] = "idle" => row[s] = "none"
        /\ Creating(s) /\ s \notin overlapped \cup misrouted => row[s] = "pending"
        /\ create[s] = "started" /\ Sound(s) => container[s] # "absent"

DeletionInv ==
    \A d \in Deletes :
        LET s == target[d]
        IN  /\ Deleting(d) => row[s] # "none"
            /\ delete[d] \in {"stopping", "removing", "clearing"} /\ Creating(s) =>
                  s \in overlapped
            /\ delete[d] \in {"stopping", "removing"} /\ Sound(s) =>
                  found[d] = ContainerName(s) \/ container[s] = "absent"
            /\ delete[d] = "clearing" /\ Sound(s) => container[s] = "absent"

LifecycleInv ==
    TypeOK /\ CreationInv /\ DeletionInv /\ NoContainerLeak /\ RunningHasContainer

===============================================================================
