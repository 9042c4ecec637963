------------------------- MODULE SessionLifecycle_proofs -------------------------
(* Safety of sessions, rows and containers for any number of sessions, deletions,*)
(* faults and crashes.                                                           *)
EXTENDS SessionLifecycle, TLAPS

(* Every step of a session's creation. *)
LEMMA CreateTypes ==
    ASSUME TypeOK, NEW s \in Sessions, Create(s) \/ ContainerExits(s)
    PROVE  TypeOK'
<1>1. CASE InsertSession(s)
  BY <1>1 DEF TypeOK, InsertSession, CreateAt
<1>2. CASE EnsureImage(s)
  BY <1>2 DEF TypeOK, EnsureImage, CreateAt
<1>3. CASE RunContainer(s)
  BY <1>3 DEF TypeOK, RunContainer, CreateAt, Works, Fails
<1>4. CASE MarkRunning(s)
  BY <1>4 DEF TypeOK, MarkRunning, CreateAt, Works, Fails,
     RecordedName, ContainerName, DefaultName
<1>5. CASE MarkFailed(s)
  BY <1>5 DEF TypeOK, MarkFailed, CreateAt, Works, Fails, FailedStatus
<1>6. CASE ContainerExits(s)
  BY <1>6 DEF TypeOK, ContainerExits
<1>7. QED
  BY <1>1, <1>2, <1>3, <1>4, <1>5, <1>6 DEF Create

(* Every step of a deletion. *)
LEMMA DeleteTypes ==
    ASSUME TypeOK, NEW d \in Deletes, Delete(d)
    PROVE  TypeOK'
<1>1. target[d] \in Sessions
  BY DEF TypeOK
<1>2. CASE FindSession(d)
  BY <1>2 DEF TypeOK, FindSession, DeleteAt
<1>3. CASE ReadName(d)
  BY <1>1, <1>3 DEF TypeOK, ReadName, FoundName, DefaultName, DeleteAt
<1>4. CASE StopContainer(d)
  BY <1>1, <1>4 DEF TypeOK, StopContainer, DeleteAt
<1>5. CASE RemoveContainer(d)
  BY <1>1, <1>5 DEF TypeOK, RemoveContainer, DeleteAt, Works, Fails
<1>6. CASE ClearRow(d)
  BY <1>1, <1>6 DEF TypeOK, ClearRow, DeleteAt, Works, Fails, ClearedStatus
<1>7. CASE MarkStopped(d)
  BY <1>1, <1>7 DEF TypeOK, MarkStopped, DeleteAt
<1>8. QED
  BY <1>2, <1>3, <1>4, <1>5, <1>6, <1>7 DEF Delete

LEMMA TypeStep ==
    ASSUME TypeOK, [Next]_vars
    PROVE  TypeOK'
<1>1. CASE UNCHANGED vars
  BY <1>1 DEF TypeOK, vars
<1>2. CASE Crash
  <2>1. {target[d] : d \in {e \in Deletes : Deleting(e)}} \subseteq Sessions
    BY DEF TypeOK
  <2>2. faulty' \in SUBSET Sessions
    BY <1>2, <2>1 DEF TypeOK, Crash
  <2>3. QED
    BY <1>2, <2>2 DEF TypeOK, Crash
<1>3. QED
  BY <1>1, <1>2, CreateTypes, DeleteTypes DEF Next

(* The variables hold what the code writes: the statuses and names of sessions,  *)
(* the states of containers and the positions of requests.                       *)
THEOREM SessionTypeCorrect == Spec => []TypeOK
<1>1. Init => TypeOK
  BY DEF Init, TypeOK
<1>2. QED
  BY <1>1, TypeStep, PTL DEF Spec

-------------------------------------------------------------------------------
(* The inductive invariant *)

LEMMA InitLifecycle == Init => LifecycleInv
<1> SUFFICES ASSUME Init PROVE LifecycleInv
  OBVIOUS
<1>1. TypeOK
  BY DEF Init, TypeOK
<1>2. CreationInv
  BY DEF Init, CreationInv, Creating
<1>3. DeletionInv
  BY <1>1 DEF Init, DeletionInv, Deleting, TypeOK
<1>4. NoContainerLeak /\ RunningHasContainer
  BY DEF Init, NoContainerLeak, RunningHasContainer
<1>5. QED
  BY <1>1, <1>2, <1>3, <1>4 DEF LifecycleInv

(* What a step of the creation of s says of the other sessions: nothing. *)
LEMMA CreateFrame ==
    ASSUME TypeOK, NEW s \in Sessions, Create(s) \/ ContainerExits(s)
    PROVE  /\ \A r \in Sessions \ {s} :
                 /\ row'[r] = row[r] /\ name'[r] = name[r]
                 /\ container'[r] = container[r] /\ create'[r] = create[r]
                 /\ r \in faulty' <=> r \in faulty
           /\ UNCHANGED <<kind, delete, target, found, overlapped, misrouted>>
           /\ faulty \subseteq faulty'
  BY DEF TypeOK, Create, InsertSession, EnsureImage, RunContainer, MarkRunning,
     MarkFailed, ContainerExits, CreateAt, Works, Fails

(* What a step of a deletion says of the sessions it is not about, and of the    *)
(* other deletions: nothing.                                                     *)
LEMMA DeleteFrame ==
    ASSUME TypeOK, NEW d \in Deletes, Delete(d)
    PROVE  /\ \A r \in Sessions \ {target[d]} :
                 /\ row'[r] = row[r] /\ name'[r] = name[r]
                 /\ container'[r] = container[r]
                 /\ r \in faulty' <=> r \in faulty
                 /\ r \in overlapped' <=> r \in overlapped
                 /\ r \in misrouted' <=> r \in misrouted
           /\ \A e \in Deletes \ {d} : delete'[e] = delete[e] /\ found'[e] = found[e]
           /\ UNCHANGED <<kind, create, target>>
           /\ faulty \subseteq faulty' /\ overlapped \subseteq overlapped'
           /\ misrouted \subseteq misrouted'
  BY DEF TypeOK, Delete, FindSession, MarkStopped, ReadName, StopContainer,
     RemoveContainer, ClearRow, DeleteAt, Works, Fails

(* A step of the creation of s keeps the invariant: one level per conjunct, on s *)
(* itself, the rest being the frame.                                             *)
LEMMA CreateStep ==
    ASSUME LifecycleInv, NEW s \in Sessions, Create(s) \/ ContainerExits(s)
    PROVE  CreationInv' /\ DeletionInv' /\ NoContainerLeak' /\ RunningHasContainer'
<1>1. TypeOK /\ CreationInv /\ DeletionInv /\ NoContainerLeak /\ RunningHasContainer
  BY DEF LifecycleInv
<1>2. /\ \A r \in Sessions \ {s} :
            /\ row'[r] = row[r] /\ name'[r] = name[r]
            /\ container'[r] = container[r] /\ create'[r] = create[r]
            /\ r \in faulty' <=> r \in faulty
      /\ UNCHANGED <<kind, delete, target, found, overlapped, misrouted>>
      /\ faulty \subseteq faulty'
  BY <1>1, CreateFrame
<1>3. /\ create'[s] = "idle" => row'[s] = "none"
      /\ Creating(s)' /\ s \notin (overlapped \cup misrouted)' => row'[s] = "pending"
      /\ create'[s] = "started" /\ Sound(s)' => container'[s] # "absent"
  BY <1>1, <1>2 DEF TypeOK, CreationInv, Creating, Sound, Create, InsertSession,
     EnsureImage, RunContainer, MarkRunning, MarkFailed, ContainerExits, CreateAt,
     Works, Fails
<1>4. CreationInv'
  BY <1>1, <1>2, <1>3 DEF CreationInv, Creating, Sound
<1>5. row[s] # "none" => row'[s] # "none" /\ (Creating(s)' => Creating(s))
  BY <1>1 DEF TypeOK, CreationInv, Creating, Create, InsertSession,
     EnsureImage, RunContainer, MarkRunning, MarkFailed, ContainerExits, CreateAt,
     FailedStatus
<1>6. Sound(s)' /\ container[s] = "absent" =>
          container'[s] = "absent" \/ Creating(s)
  BY <1>1 DEF TypeOK, Creating, Create, InsertSession, EnsureImage, RunContainer,
     MarkRunning, MarkFailed, ContainerExits
<1>7. DeletionInv'
  <2> SUFFICES ASSUME NEW d \in Deletes
               PROVE  LET r == target[d]
                      IN  /\ Deleting(d) => row'[r] # "none"
                          /\ /\ delete[d] \in {"stopping", "removing", "clearing"}
                             /\ Creating(r)'
                             => r \in overlapped
                          /\ delete[d] \in {"stopping", "removing"} /\ Sound(r)' =>
                                found[d] = ContainerName(r) \/ container'[r] = "absent"
                          /\ delete[d] = "clearing" /\ Sound(r)' =>
                                container'[r] = "absent"
    BY <1>2 DEF ContainerName, DeletionInv, Deleting
  <2>1. target[d] \in Sessions
    BY <1>1 DEF TypeOK
  <2>2. Sound(target[d])' => Sound(target[d])
    BY <1>2 DEF Sound
  <2>3. CASE target[d] = s
    BY <1>1, <1>2, <1>5, <1>6, <2>2, <2>3 DEF DeletionInv, Deleting, Sound
  <2>4. CASE target[d] # s
    BY <1>1, <1>2, <2>1, <2>2, <2>4 DEF DeletionInv, Deleting, Creating
  <2>5. QED
    BY <2>3, <2>4
<1>8. /\ Sound(s)' /\ container'[s] # "absent" =>
            \/ create'[s] = "started"
            \/ row'[s] = "running" /\ name'[s] = ContainerName(s)
      /\ Sound(s)' /\ row'[s] = "running" => container'[s] # "absent" \/ Removing(s)
  <2>1. CASE InsertSession(s)
    BY <1>1, <2>1 DEF TypeOK, CreationInv, NoContainerLeak, RunningHasContainer, Sound,
       InsertSession, CreateAt
  <2>2. CASE EnsureImage(s)
    BY <1>1, <2>2 DEF TypeOK, CreationInv, NoContainerLeak, RunningHasContainer, Sound,
       EnsureImage, CreateAt
  <2>3. CASE RunContainer(s)
    <3>1. /\ UNCHANGED <<row, name, overlapped, misrouted>>
          /\ create[s] = "ready" /\ kind' = kind
          /\ \/ container'[s] = "running" /\ create'[s] = "started" /\ faulty' = faulty
             \/ s \in faulty'
             \/ container' = container /\ faulty' = faulty
      BY <1>1, <2>3 DEF TypeOK, RunContainer, CreateAt, Works, Fails
    <3>2. QED
      BY <1>1, <3>1 DEF ContainerName, NoContainerLeak, RunningHasContainer, Sound
  <2>4. CASE MarkRunning(s)
    BY <1>1, <2>4 DEF TypeOK, CreationInv, NoContainerLeak, RunningHasContainer, Sound,
       MarkRunning, CreateAt, Works, Fails, RecordedName
  <2>5. CASE MarkFailed(s)
    BY <1>1, <2>5 DEF TypeOK, CreationInv, NoContainerLeak, RunningHasContainer, Sound,
       MarkFailed, CreateAt, Works, Fails, FailedStatus, Creating
  <2>6. CASE ContainerExits(s)
    <3>1. container[s] = "running" /\ container'[s] = "exited"
      BY <1>1, <2>6 DEF TypeOK, ContainerExits
    <3>2. UNCHANGED <<kind, row, name, create, faulty, overlapped, misrouted>>
      BY <2>6 DEF ContainerExits
    <3>3. QED
      BY <1>1, <3>1, <3>2 DEF ContainerName, NoContainerLeak, RunningHasContainer, Sound
  <2>7. QED
    BY <2>1, <2>2, <2>3, <2>4, <2>5, <2>6 DEF Create
<1>9. NoContainerLeak' /\ RunningHasContainer'
  BY <1>1, <1>2, <1>8
  DEF ContainerName, NoContainerLeak, RunningHasContainer, Sound, Removing
<1>10. QED
  BY <1>4, <1>7, <1>9

(* A step of a deletion keeps it: with s its target, one level per conjunct. *)
LEMMA DeleteStep ==
    ASSUME LifecycleInv, NEW d \in Deletes, Delete(d)
    PROVE  CreationInv' /\ DeletionInv' /\ NoContainerLeak' /\ RunningHasContainer'
<1> DEFINE s == target[d]
<1>1. TypeOK /\ CreationInv /\ DeletionInv /\ NoContainerLeak /\ RunningHasContainer
  BY DEF LifecycleInv
<1>2. s \in Sessions
  BY <1>1 DEF TypeOK
<1>3. /\ \A r \in Sessions \ {s} :
            /\ row'[r] = row[r] /\ name'[r] = name[r]
            /\ container'[r] = container[r]
            /\ r \in faulty' <=> r \in faulty
            /\ r \in overlapped' <=> r \in overlapped
            /\ r \in misrouted' <=> r \in misrouted
      /\ \A e \in Deletes \ {d} : delete'[e] = delete[e] /\ found'[e] = found[e]
      /\ UNCHANGED <<kind, create, target>>
      /\ faulty \subseteq faulty' /\ overlapped \subseteq overlapped'
      /\ misrouted \subseteq misrouted'
  BY <1>1, DeleteFrame
<1>4. /\ row[s] # "none" /\ row'[s] # "none"
      /\ container[s] = "absent" => container'[s] = "absent"
      /\ create[s] # "idle"
  <2>1. row[s] # "none"
    BY <1>1 DEF Delete, FindSession, MarkStopped, ReadName, StopContainer,
       RemoveContainer, ClearRow, DeletionInv, Deleting
  <2>2. row'[s] # "none"
    BY <1>1, <1>2, <2>1 DEF TypeOK, Delete, FindSession, MarkStopped, ReadName,
       StopContainer, RemoveContainer, ClearRow, ClearedStatus
  <2>3. container[s] = "absent" => container'[s] = "absent"
    BY <1>1, <1>2 DEF TypeOK, Delete, FindSession, MarkStopped, ReadName, StopContainer,
       RemoveContainer, ClearRow
  <2>4. QED
    BY <1>1, <1>2, <2>1, <2>2, <2>3 DEF CreationInv
<1>5. /\ Creating(s) /\ s \notin (overlapped \cup misrouted)' => row'[s] = "pending"
      /\ create[s] = "started" /\ Sound(s)' => container'[s] # "absent"
  <2>1. CASE FindSession(d) \/ ReadName(d)
    BY <1>1, <1>2, <1>3, <2>1 DEF CreationInv, FindSession, ReadName, Sound
  <2>2. CASE StopContainer(d)
    BY <1>1, <1>2, <2>2 DEF TypeOK, CreationInv, StopContainer, Sound
  <2>3. CASE RemoveContainer(d) \/ ClearRow(d)
    <3>1. Creating(s) => s \in overlapped
      BY <1>1, <2>3 DEF DeletionInv, Deleting, RemoveContainer, ClearRow
    <3>2. create[s] = "started" => Creating(s)
      BY DEF Creating
    <3>3. QED
      BY <1>3, <3>1, <3>2 DEF Sound
  <2>4. CASE MarkStopped(d)
    BY <1>1, <1>2, <1>3, <2>4 DEF TypeOK, CreationInv, MarkStopped, Sound
  <2>5. QED
    BY <2>1, <2>2, <2>3, <2>4 DEF Delete
<1>6. CreationInv'
  BY <1>1, <1>2, <1>3, <1>4, <1>5 DEF CreationInv, Creating, Sound
<1>7. /\ delete'[d] \in {"stopping", "removing", "clearing"} /\ Creating(s) =>
            s \in overlapped'
      /\ delete'[d] \in {"stopping", "removing"} /\ Sound(s)' =>
            found'[d] = ContainerName(s) \/ container'[s] = "absent"
      /\ delete'[d] = "clearing" /\ Sound(s)' => container'[s] = "absent"
  <2>1. CASE FindSession(d)
    BY <1>1, <2>1 DEF TypeOK, FindSession, DeleteAt, Deleting
  <2>2. CASE ReadName(d)
    <3>1. CASE delete'[d] = "refused"
      BY <3>1 DEF Deleting
    <3>2. CASE /\ found' = [found EXCEPT ![d] = FoundName(s)]
               /\ delete'[d] = "stopping"
               /\ overlapped' = IF Creating(s) THEN overlapped \cup {s} ELSE overlapped
      <4>1. Sound(s)' => Sound(s) /\ create[s] # "started"
        BY <1>3, <3>2 DEF Sound, Creating
      <4>2. Sound(s)' /\ container[s] # "absent" => name[s] = ContainerName(s)
        BY <1>1, <1>2, <4>1 DEF NoContainerLeak
      <4>3. ContainerName(s) # "NULL" /\ container' = container
        BY <2>2 DEF ContainerName, DefaultName, ReadName
      <4>4. found'[d] = FoundName(s)
        BY <1>1, <3>2 DEF TypeOK
      <4>5. QED
        BY <3>2, <4>2, <4>3, <4>4 DEF FoundName
    <3>3. QED
      BY <1>1, <2>2, <3>1, <3>2 DEF ReadName, DeleteAt, TypeOK
  <2>3. CASE StopContainer(d)
    <3>1. /\ delete[d] = "stopping" /\ delete'[d] = "removing"
          /\ UNCHANGED <<found, faulty, overlapped>>
      BY <1>1, <2>3 DEF TypeOK, StopContainer, DeleteAt
    <3>2. QED
      BY <1>1, <1>3, <1>4, <3>1 DEF DeletionInv, Deleting, Sound
  <2>4. CASE RemoveContainer(d)
    <3>1. /\ delete[d] = "removing" /\ delete'[d] = "clearing"
          /\ UNCHANGED <<found, overlapped>>
      BY <1>1, <2>4 DEF TypeOK, RemoveContainer, DeleteAt
    <3>2. Sound(s)' => Sound(s)
      BY <1>3 DEF Sound
    <3>3. Sound(s)' /\ container[s] # "absent" => Removes(d)
      BY <1>1, <3>1, <3>2 DEF DeletionInv, Removes
    <3>4. s \in faulty' \/ container' = IF Removes(d) THEN [container EXCEPT ![s] = "absent"]
                                        ELSE container
      BY <2>4 DEF RemoveContainer, Fails
    <3>5. Sound(s)' => container'[s] = "absent"
      BY <1>1, <1>2, <1>3, <3>3, <3>4 DEF TypeOK, Sound
    <3>6. QED
      BY <1>1, <3>1, <3>5 DEF DeletionInv, Deleting
  <2>5. CASE ClearRow(d)
    BY <1>1, <2>5 DEF TypeOK, ClearRow, DeleteAt, Deleting
  <2>6. CASE MarkStopped(d)
    BY <1>1, <2>6 DEF TypeOK, MarkStopped, DeleteAt, Deleting
  <2>7. QED
    BY <2>1, <2>2, <2>3, <2>4, <2>5, <2>6 DEF Delete
<1>8. DeletionInv'
  <2> SUFFICES ASSUME NEW e \in Deletes
               PROVE  LET r == target[e]
                      IN  /\ Deleting(e)' => row'[r] # "none"
                          /\ /\ delete'[e] \in {"stopping", "removing", "clearing"}
                             /\ Creating(r)
                             => r \in overlapped'
                          /\ delete'[e] \in {"stopping", "removing"} /\ Sound(r)' =>
                                found'[e] = ContainerName(r) \/ container'[r] = "absent"
                          /\ delete'[e] = "clearing" /\ Sound(r)' =>
                                container'[r] = "absent"
    BY <1>3 DEF ContainerName, DeletionInv, Creating
  <2>1. CASE e = d
    BY <1>4, <1>7, <2>1
  <2>2. CASE e # d
    <3>1. target[e] \in Sessions /\ (Sound(target[e])' => Sound(target[e]))
      BY <1>1, <1>3 DEF TypeOK, Sound
    <3>2. /\ row[target[e]] # "none" => row'[target[e]] # "none"
          /\ container[target[e]] = "absent" => container'[target[e]] = "absent"
      BY <1>3, <1>4, <3>1
    <3>3. /\ delete'[e] = delete[e] /\ found'[e] = found[e]
          /\ Deleting(e)' <=> Deleting(e)
      BY <1>3, <2>2 DEF Deleting
    <3>4. QED
      BY <1>1, <1>3, <3>1, <3>2, <3>3 DEF DeletionInv
  <2>3. QED
    BY <2>1, <2>2
<1>9. \A r \in Sessions \ {s} : Removing(r) => Removing(r)'
  BY <1>3 DEF Removing
<1>10. /\ Sound(s)' /\ container'[s] # "absent" =>
             \/ create[s] = "started"
             \/ row'[s] = "running" /\ name'[s] = ContainerName(s)
       /\ Sound(s)' /\ row'[s] = "running" => container'[s] # "absent" \/ Removing(s)'
  <2>1. Sound(s)' => Sound(s)
    BY <1>3 DEF Sound
  <2>2. CASE ClearRow(d)
    <3>1. Sound(s)' => container'[s] = "absent" /\ row'[s] = "stopped"
      BY <1>1, <1>2, <1>4, <2>1, <2>2
      DEF TypeOK, DeletionInv, Deleting, ClearRow, ClearedStatus, Fails, Sound
    <3>2. QED
      BY <3>1
  <2>3. CASE RemoveContainer(d)
    <3>1. UNCHANGED <<row, name>> /\ delete'[d] = "clearing"
      BY <1>1, <2>3 DEF TypeOK, RemoveContainer, DeleteAt
    <3>2. Removing(s)'
      BY <1>3, <3>1 DEF Removing
    <3>3. QED
      BY <1>1, <1>2, <1>4, <2>1, <3>1, <3>2 DEF NoContainerLeak
  <2>4. CASE FindSession(d) \/ ReadName(d) \/ StopContainer(d)
    <3>1. UNCHANGED <<row, name>> /\ delete[d] # "clearing"
      BY <2>4 DEF FindSession, ReadName, StopContainer
    <3>2. container[s] # "absent" => container'[s] # "absent"
      BY <1>1, <1>2, <2>4 DEF TypeOK, FindSession, ReadName, StopContainer
    <3>3. Removing(s) => Removing(s)'
      BY <1>3, <3>1 DEF Removing
    <3>4. QED
      BY <1>1, <1>2, <1>3, <1>4, <2>1, <3>1, <3>2, <3>3
      DEF NoContainerLeak, RunningHasContainer
  <2>5. CASE MarkStopped(d)
    <3>1. delete[d] = "marking" /\ UNCHANGED <<name, container, found>>
      BY <2>5 DEF MarkStopped
    <3>2. Sound(s)' => UNCHANGED row
      BY <1>1, <1>2, <2>5 DEF TypeOK, MarkStopped, Sound
    <3>3. Removing(s) => Removing(s)'
      BY <1>3, <3>1 DEF Removing
    <3>4. QED
      BY <1>1, <1>2, <1>3, <2>1, <3>1, <3>2, <3>3
      DEF NoContainerLeak, RunningHasContainer, ContainerName
  <2>6. QED
    BY <2>2, <2>3, <2>4, <2>5 DEF Delete
<1>11. NoContainerLeak' /\ RunningHasContainer'
  <2> SUFFICES ASSUME NEW r \in Sessions
               PROVE  /\ Sound(r)' /\ container'[r] # "absent" =>
                            \/ create[r] = "started"
                            \/ row'[r] = "running" /\ name'[r] = ContainerName(r)
                      /\ Sound(r)' /\ row'[r] = "running" =>
                            container'[r] # "absent" \/ Removing(r)'
    BY <1>3 DEF ContainerName, NoContainerLeak, RunningHasContainer
  <2>1. CASE r = s
    BY <1>3, <1>10, <2>1 DEF Sound, Removing
  <2>2. CASE r # s
    <3>1. Sound(r)' => Sound(r)
      BY <1>3 DEF Sound
    <3>2. QED
      BY <1>1, <1>3, <1>9, <2>2, <3>1 DEF NoContainerLeak, RunningHasContainer
  <2>3. QED
    BY <2>1, <2>2
<1>12. QED
  BY <1>6, <1>8, <1>11

(* The end of the process makes every session with a request in progress faulty. *)
LEMMA CrashStep ==
    ASSUME LifecycleInv, Crash
    PROVE  CreationInv' /\ DeletionInv' /\ NoContainerLeak' /\ RunningHasContainer'
<1>1. TypeOK /\ CreationInv /\ DeletionInv /\ NoContainerLeak /\ RunningHasContainer
  BY DEF LifecycleInv
<1>2. /\ UNCHANGED <<kind, row, name, container, target, found, overlapped, misrouted>>
      /\ \A s \in Sessions : create'[s] = IF Creating(s) THEN "lost" ELSE create[s]
      /\ \A d \in Deletes : delete'[d] = IF Deleting(d) THEN "lost" ELSE delete[d]
      /\ \A s \in Sessions : Creating(s) => s \in faulty'
      /\ \A d \in Deletes : Deleting(d) => target[d] \in faulty'
      /\ faulty \subseteq faulty'
  BY <1>1 DEF Crash
<1>3. \A s \in Sessions : ~Creating(s)'
  BY <1>2 DEF Creating
<1>4. \A d \in Deletes : ~Deleting(d)'
  BY <1>2 DEF Deleting
<1>5. CreationInv'
  BY <1>1, <1>2, <1>3 DEF CreationInv, Creating
<1>6. DeletionInv'
  BY <1>4 DEF DeletionInv, Deleting
<1>7. ASSUME NEW s \in Sessions, Sound(s)'
      PROVE  Sound(s) /\ ~Creating(s) /\ ~Removing(s)
  BY <1>2, <1>7 DEF Sound, Removing, Deleting
<1>8. NoContainerLeak' /\ RunningHasContainer'
  BY <1>1, <1>2, <1>7 DEF ContainerName, NoContainerLeak, RunningHasContainer, Creating
<1>9. QED
  BY <1>5, <1>6, <1>8

LEMMA LifecycleStep ==
    ASSUME LifecycleInv, [Next]_vars
    PROVE  LifecycleInv'
<1>1. TypeOK'
  BY TypeStep DEF LifecycleInv
<1>2. CreationInv' /\ DeletionInv' /\ NoContainerLeak' /\ RunningHasContainer'
  <2>1. CASE UNCHANGED vars
    BY <2>1 DEF LifecycleInv, vars, CreationInv, DeletionInv, NoContainerLeak,
       RunningHasContainer, ContainerName, Creating, Deleting, Sound, Removing
  <2>2. CASE Next
    BY <2>2, CreateStep, DeleteStep, CrashStep DEF Next
  <2>3. QED
    BY <2>1, <2>2
<1>3. QED
  BY <1>1, <1>2 DEF LifecycleInv

-------------------------------------------------------------------------------
(* The results *)

(* The inductive invariant of the requests that create and delete sessions.      *)
THEOREM LifecycleCorrect == Spec => []LifecycleInv
  BY InitLifecycle, LifecycleStep, PTL DEF Spec

(* A container is never left without a row that leads DELETE to it, unless a     *)
(* statement or a docker command failed, the process ended, the DELETE came      *)
(* during the creation, or the session was posted and stopped as one of an agent.*)
THEOREM ContainersTracked == Spec => []NoContainerLeak
<1>1. LifecycleInv => NoContainerLeak
  BY DEF LifecycleInv
<1>2. QED
  BY LifecycleCorrect, <1>1, PTL

(* A row that says running has a container, under the same proviso. *)
THEOREM RowsTruthful == Spec => []RunningHasContainer
<1>1. LifecycleInv => RunningHasContainer
  BY DEF LifecycleInv
<1>2. QED
  BY LifecycleCorrect, <1>1, PTL

(* Nothing but the last UPDATE of its own creation brings a stopped session back,*)
(* whatever fails and whenever the process ends.                                 *)
THEOREM StoppedStays == Spec => StoppedForGood
<1>1. LifecycleInv /\ [Next]_vars =>
        [\A s \in Sessions :
            row[s] = "stopped" /\ row'[s] # "stopped" =>
                Creating(s) /\ ~Creating(s)' /\ row'[s] \in {"running", "failed"}]_vars
  <2> SUFFICES ASSUME LifecycleInv, Next, NEW s \in Sessions,
                      row[s] = "stopped", row'[s] # "stopped"
               PROVE  Creating(s) /\ ~Creating(s)' /\ row'[s] \in {"running", "failed"}
    BY DEF vars
  <2>1. TypeOK /\ CreationInv
    BY DEF LifecycleInv
  <2>2. ~Crash
    BY DEF Crash
  <2>3. ASSUME NEW r \in Sessions, Create(r) \/ ContainerExits(r)
        PROVE  Creating(s) /\ ~Creating(s)' /\ row'[s] \in {"running", "failed"}
    <3>1. r = s
      BY <2>1, <2>3, CreateFrame
    <3>2. CASE MarkRunning(s) \/ MarkFailed(s)
      BY <2>1, <3>2
      DEF TypeOK, Creating, MarkRunning, MarkFailed, CreateAt, FailedStatus
    <3>3. CASE InsertSession(s)
      BY <2>1, <3>3 DEF CreationInv, InsertSession
    <3>4. QED
      BY <2>3, <3>1, <3>2, <3>3 DEF Create, EnsureImage, RunContainer, ContainerExits
  <2>4. ASSUME NEW d \in Deletes, Delete(d)
        PROVE  FALSE
    <3>1. s = target[d]
      BY <2>1, <2>4, DeleteFrame
    <3>2. QED
      BY <2>1, <2>4, <3>1 DEF TypeOK, Delete, FindSession, MarkStopped, ReadName,
         StopContainer, RemoveContainer, ClearRow, ClearedStatus
  <2>5. QED
    BY <2>2, <2>3, <2>4 DEF Next
<1>2. QED
  BY LifecycleCorrect, <1>1, PTL DEF Spec, StoppedForGood

(* What the creation answered agrees with the row, unless a statement or a       *)
(* docker command failed or the process ended.                                   *)
THEOREM AnswersTruthful == Spec => []AnswerAgrees
<1>1. Init => AnswerAgrees
  BY DEF Init, AnswerAgrees
<1>2. LifecycleInv /\ AnswerAgrees /\ [Next]_vars => AnswerAgrees'
  <2> SUFFICES ASSUME LifecycleInv, AnswerAgrees, [Next]_vars
               PROVE  AnswerAgrees'
    OBVIOUS
  <2>1. TypeOK /\ CreationInv /\ DeletionInv
    BY DEF LifecycleInv
  <2>2. CASE UNCHANGED vars
    BY <2>2 DEF vars, AnswerAgrees
  <2>3. CASE Crash
    <3>1. \A s \in Sessions : create'[s] \in {"answered", "refused"} =>
             create'[s] = create[s]
      BY <2>3 DEF Crash
    <3>2. UNCHANGED row /\ faulty \subseteq faulty'
      BY <2>3 DEF Crash
    <3>3. QED
      BY <3>1, <3>2 DEF AnswerAgrees
  <2>4. ASSUME NEW s \in Sessions, Create(s) \/ ContainerExits(s)
        PROVE  AnswerAgrees'
    <3>1. s \in faulty' \/
          /\ create'[s] = "answered" => row'[s] \in {"running", "stopped"}
          /\ create'[s] = "refused" => row'[s] \in {"none", "failed", "stopped"}
      BY <2>1, <2>4 DEF TypeOK, CreationInv, AnswerAgrees, Create, InsertSession,
         EnsureImage, RunContainer, MarkRunning, MarkFailed, ContainerExits, CreateAt,
         Works, Fails, FailedStatus
    <3>2. QED
      BY <2>1, <2>4, <3>1, CreateFrame DEF AnswerAgrees
  <2>5. ASSUME NEW d \in Deletes, Delete(d)
        PROVE  AnswerAgrees'
    <3>1. row'[target[d]] \in {row[target[d]], "stopped"}
      BY <2>1, <2>5 DEF TypeOK, Delete, FindSession, MarkStopped, ReadName, StopContainer,
         RemoveContainer, ClearRow, ClearedStatus
    <3>2. QED
      BY <2>1, <2>5, <3>1, DeleteFrame DEF AnswerAgrees
  <2>6. QED
    BY <2>2, <2>3, <2>4, <2>5 DEF Next
<1>3. QED
  BY LifecycleCorrect, <1>1, <1>2, PTL DEF Spec

-------------------------------------------------------------------------------
(* SessionLifecycle implements SessionPromise *)

(* A creation that was cut off left its session faulty. *)
LostInv == \A s \in Sessions : create[s] = "lost" => s \in faulty

LEMMA LostStep ==
    ASSUME TypeOK, LostInv, [Next]_vars
    PROVE  LostInv'
<1>1. CASE UNCHANGED vars
  BY <1>1 DEF vars, LostInv
<1>2. CASE Crash
  <2>1. \A s \in Sessions : create'[s] = "lost" => create[s] = "lost" \/ s \in faulty'
    BY <1>2 DEF Crash
  <2>2. faulty \subseteq faulty'
    BY <1>2 DEF Crash
  <2>3. QED
    BY <2>1, <2>2 DEF LostInv
<1>3. ASSUME NEW s \in Sessions, Create(s) \/ ContainerExits(s)
      PROVE  LostInv'
  <2>1. create'[s] = "lost" => create[s] = "lost"
    BY <1>3 DEF TypeOK, Create, InsertSession, EnsureImage, RunContainer, MarkRunning,
       MarkFailed, ContainerExits, CreateAt
  <2>2. QED
    BY <1>3, <2>1, CreateFrame DEF LostInv
<1>4. ASSUME NEW d \in Deletes, Delete(d)
      PROVE  LostInv'
  BY <1>4, DeleteFrame DEF LostInv
<1>5. QED
  BY <1>1, <1>2, <1>3, <1>4 DEF Next

LEMMA LostCorrect == Spec => []LostInv
<1>1. Init => LostInv
  BY DEF Init, LostInv
<1>2. TypeOK /\ LostInv /\ [Next]_vars => LostInv'
  BY LostStep
<1>3. QED
  BY SessionTypeCorrect, <1>1, <1>2, PTL DEF Spec

(* The steps of the promise in the words of the rows and the containers. *)
LEMMA PromiseSteps ==
    ASSUME NEW s \in Sessions,
           \/ row[s] = "none" /\ row'[s] = "pending" /\ container'[s] = container[s]
           \/ /\ row[s] = "pending" /\ row'[s] = "pending"
              /\ container[s] = "absent" /\ container'[s] # "absent"
           \/ /\ row[s] = "pending" /\ row'[s] = "running"
              /\ container[s] # "absent" /\ container'[s] = container[s]
           \/ /\ row[s] = "pending" /\ row'[s] = "failed"
              /\ container[s] = "absent" /\ container'[s] = container[s]
           \/ /\ row[s] = "running" /\ row'[s] = "running"
              /\ container[s] # "absent" /\ container'[s] = "absent"
           \/ /\ row[s] \in {"running", "failed"} /\ row'[s] = "stopped"
              /\ container[s] = "absent" /\ container'[s] = container[s]
           \/ /\ row'[s] = row[s]
              /\ container'[s] = "absent" <=> container[s] = "absent"
    PROVE  Promise!Step(s)
  BY DEF Promise!Step, Promise!Ask, Promise!Start, Promise!Run, Promise!Fail,
     Promise!Remove, Promise!Stop, Promise!Becomes, Promise!Stays

(* A step of the creation of s is one of them, unless s is astray after it: the  *)
(* row of a sound session is pending for as long as its creation runs, and it    *)
(* has a container exactly when docker run has come back.                        *)
LEMMA CreatePromise ==
    ASSUME LifecycleInv, NEW s \in Sessions, Create(s) \/ ContainerExits(s), Sound(s)'
    PROVE  Promise!Step(s)
<1>1. TypeOK /\ CreationInv /\ NoContainerLeak
  BY DEF LifecycleInv
<1>2. Sound(s)
  BY <1>1, CreateFrame DEF Sound
<1>3. s \notin faulty' /\ s \notin overlapped \cup misrouted
  BY <1>1, CreateFrame DEF Sound
<1>4. CASE InsertSession(s)
  <2>1. row[s] = "none" /\ container' = container /\ row'[s] \in {"pending", row[s]}
    BY <1>1, <1>4 DEF TypeOK, CreationInv, InsertSession
  <2>2. QED
    BY <2>1, PromiseSteps
<1>5. CASE EnsureImage(s)
  BY <1>5, PromiseSteps DEF EnsureImage
<1>6. CASE RunContainer(s)
  <2>1. row[s] = "pending" /\ row' = row /\ create[s] = "ready"
    BY <1>1, <1>3, <1>6 DEF CreationInv, Creating, RunContainer
  <2>2. container[s] = "absent"
    BY <1>1, <1>2, <2>1 DEF NoContainerLeak
  <2>3. container'[s] = "running" \/ container' = container
    BY <1>1, <1>3, <1>6 DEF TypeOK, RunContainer, Fails
  <2>4. QED
    BY <2>1, <2>2, <2>3, PromiseSteps
<1>7. CASE MarkRunning(s)
  <2>1. row[s] = "pending" /\ container[s] # "absent"
    BY <1>1, <1>2, <1>3, <1>7 DEF CreationInv, Creating, MarkRunning
  <2>2. container' = container /\ row'[s] = "running"
    BY <1>1, <1>3, <1>7 DEF TypeOK, MarkRunning, Fails
  <2>3. QED
    BY <2>1, <2>2, PromiseSteps
<1>8. CASE MarkFailed(s)
  <2>1. row[s] = "pending" /\ create[s] = "failing"
    BY <1>1, <1>3, <1>8 DEF CreationInv, Creating, MarkFailed
  <2>2. container[s] = "absent"
    BY <1>1, <1>2, <2>1 DEF NoContainerLeak
  <2>3. container' = container /\ row'[s] = "failed"
    BY <1>1, <1>3, <1>8 DEF TypeOK, MarkFailed, Fails, FailedStatus
  <2>4. QED
    BY <2>1, <2>2, <2>3, PromiseSteps
<1>9. CASE ContainerExits(s)
  <2>1. container[s] # "absent" /\ container'[s] # "absent" /\ row' = row
    BY <1>1, <1>9 DEF TypeOK, ContainerExits
  <2>2. QED
    BY <2>1, PromiseSteps
<1>10. QED
  BY <1>4, <1>5, <1>6, <1>7, <1>8, <1>9 DEF Create

(* A step of a deletion of s is one of them, unless s is astray after it: it has *)
(* waited for the end of the creation, so the container it removes is that of a  *)
(* running session, and there is none left when it writes the row.               *)
LEMMA DeletePromise ==
    ASSUME LifecycleInv, AnswerAgrees, LostInv, NEW d \in Deletes, Delete(d),
           NEW s \in Sessions, s = target[d], Sound(s)'
    PROVE  Promise!Step(s)
<1>1. TypeOK /\ CreationInv /\ DeletionInv /\ NoContainerLeak
  BY DEF LifecycleInv
<1>2. target' = target
  BY <1>1, DeleteFrame
<1>3. Sound(s) /\ s \notin (faulty \cup overlapped \cup misrouted)'
  BY <1>1, <1>2, DeleteFrame DEF Sound
<1>4. CASE FindSession(d) \/ ReadName(d)
  BY <1>1, <1>4, PromiseSteps DEF FindSession, ReadName
<1>5. CASE StopContainer(d)
  <2>1. row' = row /\ (container'[s] = "absent" <=> container[s] = "absent")
    BY <1>1, <1>5 DEF TypeOK, StopContainer
  <2>2. QED
    BY <1>1, <2>1, PromiseSteps
<1>6. CASE RemoveContainer(d)
  <2>1. ~Creating(s)
    BY <1>1, <1>3, <1>6 DEF DeletionInv, Deleting, RemoveContainer, Sound
  <2>2. container[s] # "absent" => row[s] = "running"
    BY <1>1, <1>3, <2>1 DEF NoContainerLeak, Creating
  <2>3. row' = row /\ container'[s] \in {"absent", container[s]}
    BY <1>1, <1>6 DEF TypeOK, RemoveContainer
  <2>4. QED
    BY <1>1, <2>2, <2>3, PromiseSteps
<1>7. CASE ClearRow(d)
  <2>1. container[s] = "absent" /\ row[s] # "none" /\ ~Creating(s)
    BY <1>1, <1>3, <1>7 DEF DeletionInv, Deleting, ClearRow, Sound
  <2>2. row[s] # "pending"
    <3>1. create[s] \in {"answered", "refused"}
      BY <1>1, <1>3, <2>1 DEF TypeOK, CreationInv, Creating, LostInv, Sound
    <3>2. QED
      BY <1>1, <1>3, <3>1 DEF AnswerAgrees, Sound
  <2>3. row[s] \in {"running", "failed", "stopped"}
    BY <1>1, <2>1, <2>2 DEF TypeOK
  <2>4. container' = container /\ row'[s] = "stopped"
    BY <1>1, <1>3, <1>7 DEF TypeOK, ClearRow, ClearedStatus, Fails
  <2>5. QED
    BY <1>1, <2>1, <2>3, <2>4, PromiseSteps
<1>8. CASE MarkStopped(d)
  <2>1. row' = row /\ container' = container
    BY <1>1, <1>3, <1>8 DEF TypeOK, MarkStopped
  <2>2. QED
    BY <2>1, PromiseSteps
<1>9. QED
  BY <1>4, <1>5, <1>6, <1>7, <1>8 DEF Delete

(* A step leaves the sessions it is not about alone. *)
LEMMA StepPromise ==
    ASSUME LifecycleInv, AnswerAgrees, LostInv, [Next]_vars, NEW s \in Sessions,
           Sound(s)'
    PROVE  Promise!Step(s)
<1>1. TypeOK
  BY DEF LifecycleInv
<1>2. CASE UNCHANGED vars \/ Crash
  BY <1>2, PromiseSteps DEF vars, Crash
<1>3. ASSUME NEW r \in Sessions, Create(r) \/ ContainerExits(r)
      PROVE  Promise!Step(s)
  <2>1. CASE r = s
    BY <1>3, <2>1, CreatePromise
  <2>2. CASE r # s
    BY <1>1, <1>3, <2>2, CreateFrame, PromiseSteps
  <2>3. QED
    BY <2>1, <2>2
<1>4. ASSUME NEW d \in Deletes, Delete(d)
      PROVE  Promise!Step(s)
  <2>1. CASE target[d] = s
    BY <1>4, <2>1, DeletePromise
  <2>2. CASE target[d] # s
    BY <1>1, <1>4, <2>2, DeleteFrame, PromiseSteps
  <2>3. QED
    BY <2>1, <2>2
<1>5. QED
  BY <1>2, <1>3, <1>4 DEF Next

(* Nothing that was astray is promised of again. *)
LEMMA AstrayGrows ==
    ASSUME TypeOK, [Next]_vars
    PROVE  /\ faulty \subseteq faulty' /\ overlapped \subseteq overlapped'
           /\ misrouted \subseteq misrouted'
<1>1. CASE UNCHANGED vars \/ Crash
  BY <1>1 DEF vars, Crash
<1>2. QED
  BY <1>1, CreateFrame, DeleteFrame DEF Next

(* Whatever the requests about it do in whatever order, a session that no fault, *)
(* no overlapping DELETE and no DELETE of the agents' kind has touched is        *)
(* created, runs and is stopped as SessionPromise says.                          *)
THEOREM LifecycleKeepsPromise == Spec => KeepsSessionPromise
<1>1. Init => Promise!Init
  <2> SUFFICES ASSUME Init PROVE Promise!Init
    OBVIOUS
  <2>1. {s \in Sessions : container[s] # "absent"} = {}
    BY DEF Init
  <2>2. {s \in Sessions : Removing(s)} = {}
    BY DEF Init, Removing
  <2>3. QED
    BY <2>1, <2>2 DEF Init, Promise!Init
<1>2. /\ LifecycleInv /\ AnswerAgrees /\ LostInv /\ [Next]_vars /\ LifecycleInv'
      => [Promise!Next]_(Promise!vars)
  <2> SUFFICES ASSUME LifecycleInv, AnswerAgrees, LostInv, [Next]_vars, LifecycleInv'
               PROVE  Promise!Next
    OBVIOUS
  <2>1. TypeOK /\ TypeOK' /\ RunningHasContainer'
    BY DEF LifecycleInv
  <2>2. ASSUME NEW s \in Sessions, s \notin (faulty \cup overlapped \cup misrouted)'
        PROVE  Promise!Step(s) /\ Promise!Kept(s)
    <3>1. Sound(s)'
      BY <2>2 DEF Sound
    <3>2. row'[s] = "running" => container'[s] # "absent" \/ Removing(s)'
      BY <2>1, <3>1 DEF RunningHasContainer
    <3>3. Promise!Kept(s)
      BY <3>2 DEF Promise!Kept
    <3>4. QED
      BY <3>1, <3>3, StepPromise
  <2>3. DOMAIN row' = Sessions /\ (faulty \cup overlapped \cup misrouted)' \subseteq Sessions
    BY <2>1 DEF TypeOK
  <2>4. faulty \cup overlapped \cup misrouted
          \subseteq (faulty \cup overlapped \cup misrouted)'
    BY <2>1, AstrayGrows
  <2>5. QED
    BY <2>2, <2>3, <2>4 DEF Promise!Next
<1>3. QED
  BY LifecycleCorrect, AnswersTruthful, LostCorrect, <1>1, <1>2, PTL
  DEF Spec, KeepsSessionPromise, Promise!Spec

===============================================================================
