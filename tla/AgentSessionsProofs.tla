------------------------ MODULE AgentSessionsProofs ------------------------
(***************************************************************************)
(* The safety of AgentSessions and SessionStatus, for all sets of          *)
(* sessions, container names and handler goroutines.                       *)
(*                                                                         *)
(* IInv says whose a session is: until it is saved, its create has it to   *)
(* itself, and so its container cannot come back once it is gone.          *)
(* StatusInv says what a request that nothing has disturbed finds.         *)
(***************************************************************************)
EXTENDS SessionStatus, TLAPS

USE SessionsAssumption

pc(t) == req[t].pc
sess(t) == req[t].sess
op(t) == req[t].op

\* The places of a create, and those of the other requests.
Creating == {"removeName", "create", "start", "undo", "save"}

\* A request is for a session, and at the places of its operation.
Placed(t) ==
    /\ pc(t) = "idle" => req[t] = NoRequest
    /\ pc(t) # "idle" => sess(t) \in Sessions
    /\ pc(t) \in {"remove", "deleteRow"} => op(t) = "delete"
    /\ pc(t) = "act" => op(t) \in Controls
    /\ pc(t) = "restart" => op(t) = "reconnect"
    /\ pc(t) = "update" => op(t) \in Controls \cup {"reconnect"}

TypeInv ==
    /\ TypeOK
    /\ \A t \in Threads : Placed(t)
    /\ ~cleanup.on => cleanup = NoCleanup

\* A create has its session to itself until it is saved.
OwnInv ==
    /\ known \subseteq issued
    /\ \A t \in Threads :
          /\ pc(t) \in Creating => sess(t) \in issued \ known
          /\ pc(t) \notin Creating \cup {"idle"} => sess(t) \in known
    /\ \A t, u \in Threads :
          t # u /\ pc(t) \in Creating /\ pc(u) \in Creating => sess(t) # sess(u)
    /\ \A s \in Sessions : row[s] # "none" => s \in known

WorkspaceInv == \A t \in Threads : pc(t) \in Creating => sess(t) \in workspace

\* Before its container is made, a session has none, and no shutdown has listed one.
FreshInv ==
    /\ \A s \in Sessions \ issued : ~Exists(s)
    /\ cleanup.listed \subseteq issued
    /\ \A t \in Threads :
          pc(t) \in {"removeName", "create"} =>
              ~Exists(sess(t)) /\ sess(t) \notin cleanup.listed

\* What a delete leaves behind when it comes to the row, and what nobody can find.
GoneInv ==
    /\ \A t \in Threads : pc(t) = "deleteRow" /\ Exists(sess(t)) => sess(t) \in hurt
    /\ \A s \in Sessions :
          Exists(s) /\ row[s] = "none" /\ (\A t \in Threads : pc(t) \in Creating => sess(t) # s)
              => s \in hurt

\* What a shutdown has removed is gone, or the call that removed it has lost its
\* answer.
ListedInv == \A s \in cleanup.listed \ cleanup.left : Exists(s) => s \in hurt

IInv == TypeInv /\ OwnInv /\ WorkspaceInv /\ SavedWorkspaceSurvives
          /\ FreshInv /\ GoneInv /\ ListedInv

\* At rest the row says what the container is in, and at the end of a control
\* what the row will say; a create that comes to its row has a running container.
StatusOf(s) ==
    /\ row[s] # "none"
          /\ (\A t \in Threads : sess(t) = s => pc(t) \notin {"update", "deleteRow"})
          => row[s] \in Shown(docker[s])
    /\ \A t \in Threads :
          sess(t) = s =>
              /\ pc(t) = "update" /\ row[s] # "none" => StatusAfter(op(t)) \in Shown(docker[s])
              /\ pc(t) = "save" => docker[s] = "running"

\* A session that no event of drifted has touched has one request at most.
StatusInv ==
    /\ \A s \in Sessions \ drifted, t, u \in Threads :
          sess(t) = s /\ sess(u) = s => t = u
    /\ \A s \in Sessions \ (hurt \cup drifted) : StatusOf(s)

-----------------------------------------------------------------------------
(* What the steps of a request do to it *)

\* Only the request of t changes.
OthersKeep(t) == \A u \in Threads \ {t} : req'[u] = req[u]

\* Goto moves the request of t to another place,
LEMMA GotoMoves ==
  ASSUME TypeOK, NEW t \in Threads, NEW from, NEW to \in PCs, Goto(t, from, to)
  PROVE  /\ req' \in [Threads -> RequestRecord] /\ OthersKeep(t)
         /\ pc(t) = from /\ pc(t)' = to /\ sess(t)' = sess(t) /\ op(t)' = op(t)
<1>1. req[t] \in RequestRecord
  BY DEF TypeOK
<1>2. req' = [req EXCEPT ![t] = [req[t] EXCEPT !.pc = to]] /\ pc(t) = from
  BY DEF Goto, pc
<1>3. [req[t] EXCEPT !.pc = to] \in RequestRecord
  BY <1>1 DEF RequestRecord
<1>4. QED
  BY <1>1, <1>2, <1>3 DEF TypeOK, RequestRecord, OthersKeep, pc, sess, op

\* and Finish ends it.
LEMMA FinishMoves ==
  ASSUME TypeOK, NEW t \in Threads, NEW from, Finish(t, from)
  PROVE  /\ req' \in [Threads -> RequestRecord] /\ OthersKeep(t)
         /\ pc(t) = from /\ req'[t] = NoRequest /\ pc(t)' = "idle"
         /\ sess(t)' = NoSession /\ op(t)' = "none"
BY DEF Finish, TypeOK, RequestRecord, NoRequest, PCs, OthersKeep, pc, sess, op

\* A new request.
LEMMA RequestBegins ==
  ASSUME TypeOK, NEW t \in Threads, NEW r \in RequestRecord, req' = [req EXCEPT ![t] = r]
  PROVE  req' \in [Threads -> RequestRecord] /\ OthersKeep(t) /\ req'[t] = r
BY DEF TypeOK, OthersKeep

-----------------------------------------------------------------------------
(* What a Docker call does *)

Calls == Controls \cup {"start", "remove"}

\* The container of s exists after the step.
Remains(s) == docker'[s] # "none"

\* A call moves no container but that of its session, brings none into being,
\* and marks its session when the caller is not told what happened.
CallEffect(s) ==
    /\ docker' \in [Sessions -> ContainerState]
    /\ \A o \in Sessions \ {s} : docker'[o] = docker[o]
    /\ Remains(s) => Exists(s)
    /\ hurt' \in {hurt, hurt \cup {s}}

\* The daemon does nothing to a container that is gone.
LEMMA AcceptedExists ==
  ASSUME NEW c \in ContainerState, NEW call \in Calls, Accepts(call, c)
  PROVE  After(call, c) \in ContainerState /\ c # "none"
<1>1. CASE call \in {"start", "resume"}
  BY <1>1 DEF Accepts, After, ContainerState
<1>2. CASE call = "stop"
  BY <1>2 DEF Accepts, After, ContainerState
<1>3. CASE call = "pause"
  BY <1>3 DEF Accepts, After, ContainerState
<1>4. CASE call = "kill"
  BY <1>4 DEF Accepts, After, ContainerState
<1>5. CASE call = "remove"
  BY <1>5 DEF Accepts, After, ContainerState
<1>6. QED
  BY <1>1, <1>2, <1>3, <1>4, <1>5 DEF Calls, Controls

\* When the daemon does the work,
LEMMA CallOkEffect ==
  ASSUME TypeOK, NEW s \in Sessions, NEW call \in Calls, CallOk(call, s)
  PROVE  /\ CallEffect(s) /\ hurt' = hurt
         /\ Accepts(call, docker[s]) /\ docker'[s] = After(call, docker[s])
<1>1. docker[s] \in ContainerState
  BY DEF TypeOK
<1>2. Accepts(call, docker[s]) => After(call, docker[s]) \in ContainerState /\ docker[s] # "none"
  BY <1>1, AcceptedExists
<1>3. QED
  BY <1>1, <1>2 DEF CallOk, CallEffect, TypeOK, Exists, Remains

\* and when the caller gets an error.
LEMMA CallFailsEffect ==
  ASSUME TypeOK, NEW s \in Sessions, NEW call \in Calls, CallFails(call, s)
  PROVE  /\ CallEffect(s)
         /\ docker' = docker \/ s \in hurt'
         /\ s \in hurt' \/ ~Accepts(call, docker[s])
<1>1. docker[s] \in ContainerState
  BY DEF TypeOK
<1>2. Accepts(call, docker[s]) => After(call, docker[s]) \in ContainerState /\ docker[s] # "none"
  BY <1>1, AcceptedExists
<1>3. QED
  BY <1>1, <1>2 DEF CallFails, CallRefused, CallLost, Hurts, CallEffect, TypeOK, Exists, Remains

-----------------------------------------------------------------------------
(* Types *)

\* Before the first request everything has its type.
THEOREM InitType == Init => TypeInv
  BY DEF Init, TypeInv, TypeOK, Placed, NoRequest, NoCleanup, RequestRecord, PCs, RowStatus,
         ContainerState, pc, sess, op

\* The others' requests stay where they belong.
LEMMA OthersPlaced ==
  ASSUME TypeInv, NEW t \in Threads, OthersKeep(t), Placed(t)'
  PROVE  \A u \in Threads : Placed(u)'
BY DEF TypeInv, OthersKeep, Placed, pc, sess, op

\* A request that ends is in its place.
LEMMA IdlePlaced ==
  ASSUME NEW t \in Threads, req'[t] = NoRequest
  PROVE  Placed(t)' /\ pc(t)' = "idle"
BY DEF Placed, NoRequest, pc

-----------------------------------------------------------------------------
(* What the steps of a create do *)

\* One container moves, if any.
OneMoves ==
    \A o, p \in Sessions : docker'[o] # docker[o] /\ docker'[p] # docker[p] => o = p

\* A create moves on or ends, ...
CreateMoves(t) ==
    /\ req' \in [Threads -> RequestRecord] /\ OthersKeep(t)
    /\ pc(t) \in Creating
    /\ \/ req'[t] = NoRequest
       \/ pc(t)' \in Creating \ {"removeName"} /\ sess(t)' = sess(t)
    /\ pc(t)' = "create" => pc(t) = "removeName"

\* ... brings no container into being but its own, and that one once, ...
CreateDocker(t) ==
    /\ docker' \in [Sessions -> ContainerState]
    /\ hurt \subseteq hurt' /\ hurt' \subseteq Sessions
    /\ \A o \in Sessions : Remains(o) => Exists(o) \/ (o = sess(t) /\ pc(t) = "create")
    /\ OneMoves

\* ... stores no row but its own, and takes its workspace with it otherwise.
CreateStore(t) ==
    /\ \/ UNCHANGED <<known, row>>
       \/ /\ pc(t) = "save" /\ pc(t)' = "idle"
          /\ known' = known \cup {sess(t)} /\ row' = [row EXCEPT ![sess(t)] = "running"]
    /\ \/ UNCHANGED workspace
       \/ workspace' = workspace \ {sess(t)} /\ pc(t)' = "idle" /\ UNCHANGED known
    /\ UNCHANGED <<issued, cleanup>>

\* A create that ends has stored the row, has no container, or has been hurt.
CreateEnds(t) ==
    pc(t)' = "idle" =>
        \/ row'[sess(t)] = "running"
        \/ ~Remains(sess(t)) \/ sess(t) \in hurt'
        \/ pc(t) = "create" /\ UNCHANGED docker

\* handleCreateSession, ContainerRemove by name (manager.go:154): one container goes
\* at most, whosever it is.
LEMMA CreateRemoveNameEffect ==
  ASSUME TypeInv, NEW t \in Threads, CreateRemoveName(t)
  PROVE  CreateMoves(t) /\ CreateDocker(t) /\ CreateStore(t) /\ CreateEnds(t)
<1> USE DEF TypeInv
<1> DEFINE s == sess(t)
<1>1. /\ req' \in [Threads -> RequestRecord] /\ OthersKeep(t) /\ pc(t) = "removeName"
      /\ pc(t)' = "create" /\ sess(t)' = s
  BY GotoMoves DEF CreateRemoveName, PCs
<1>2. s = req[t].sess /\ s \in Sessions
  BY <1>1 DEF Placed, sess
<1>3. CreateDocker(t)
  <2>1. CASE Namesakes(s) = {}
    BY <1>2, <2>1 DEF CreateRemoveName, CreateDocker, TypeOK, Exists, Remains, OneMoves
  <2>2. ASSUME NEW o \in Namesakes(s), CallOk("remove", o)
        PROVE  CreateDocker(t)
    <3>1. CallEffect(o) /\ hurt' = hurt /\ docker'[o] = "none"
      BY <2>2, CallOkEffect DEF Namesakes, Calls, After
    <3>2. QED
      BY <3>1, <1>2 DEF CreateDocker, CallEffect, Namesakes, TypeOK, Exists, Remains, OneMoves
  <2>3. ASSUME NEW o \in Namesakes(s), CallFails("remove", o)
        PROVE  CreateDocker(t)
    <3>1. CallEffect(o) /\ (docker' = docker \/ o \in hurt')
      BY <2>3, CallFailsEffect DEF Namesakes, Calls
    <3>2. QED
      BY <3>1, <1>2 DEF CreateDocker, CallEffect, Namesakes, TypeOK, Exists, Remains, OneMoves
  <2>4. QED
    BY <1>2, <2>1, <2>2, <2>3 DEF CreateRemoveName, CallFails
<1>4. QED
  BY <1>1, <1>2, <1>3 DEF CreateRemoveName, CreateMoves, CreateStore, CreateEnds, Creating

\* handleCreateSession, ContainerCreate: the session's own container, or none.
LEMMA CreateContainerEffect ==
  ASSUME TypeInv, NEW t \in Threads, CreateContainer(t) \/ CreateContainerFails(t)
  PROVE  /\ CreateMoves(t) /\ CreateDocker(t) /\ CreateStore(t) /\ CreateEnds(t)
         /\ pc(t) = "create" /\ sess(t) \in Sessions
<1> USE DEF TypeInv
<1> DEFINE s == sess(t)
<1>1. /\ req' \in [Threads -> RequestRecord] /\ OthersKeep(t) /\ pc(t) = "create"
      /\ \/ pc(t)' = "start" /\ sess(t)' = s
         \/ pc(t)' = "idle" /\ req'[t] = NoRequest
  BY GotoMoves, FinishMoves DEF CreateContainer, CreateContainerFails, PCs
<1>2. s = req[t].sess /\ s \in Sessions
  BY <1>1 DEF Placed, sess
<1>3. CASE CreateContainer(t)
  BY <1>1, <1>2, <1>3, GotoMoves DEF CreateContainer, CreateMoves, CreateDocker, CreateStore,
     CreateEnds, Creating, ContainerState, TypeOK, Exists, Remains, OneMoves, PCs
<1>4. CASE CreateContainerFails(t)
  <2>1. CreateDocker(t) /\ (docker' = docker \/ s \in hurt')
    BY <1>1, <1>2, <1>4 DEF CreateContainerFails, Hurts, CreateDocker, ContainerState, TypeOK,
       Exists, Remains, OneMoves
  <2>2. req'[t] = NoRequest /\ pc(t)' = "idle"
    BY <1>4, FinishMoves DEF CreateContainerFails
  <2>3. QED
    BY <1>1, <1>2, <1>4, <2>1, <2>2 DEF CreateContainerFails, CreateMoves, CreateStore,
       CreateEnds, Creating
<1>5. QED
  BY <1>3, <1>4, <1>1, <1>2

\* handleCreateSession, ContainerStart.
LEMMA CreateStartEffect ==
  ASSUME TypeInv, NEW t \in Threads, CreateStart(t)
  PROVE  CreateMoves(t) /\ CreateDocker(t) /\ CreateStore(t) /\ CreateEnds(t)
<1> USE DEF TypeInv
<1> DEFINE s == sess(t)
<1>1. /\ req' \in [Threads -> RequestRecord] /\ OthersKeep(t) /\ pc(t) = "start"
      /\ pc(t)' \in {"save", "undo"} /\ sess(t)' = s
  BY GotoMoves DEF CreateStart, PCs
<1>2. s = req[t].sess /\ s \in Sessions
  BY <1>1 DEF Placed, sess
<1>3. CallEffect(s)
  BY <1>2, CallOkEffect, CallFailsEffect DEF CreateStart, Calls
<1>4. QED
  BY <1>1, <1>2, <1>3 DEF CreateStart, CreateMoves, CreateDocker, CreateStore, CreateEnds,
     CallEffect, Creating, TypeOK, Exists, Remains, OneMoves

\* handleCreateSession, the removal after a start that failed.
LEMMA CreateUndoEffect ==
  ASSUME TypeInv, NEW t \in Threads, CreateUndo(t)
  PROVE  CreateMoves(t) /\ CreateDocker(t) /\ CreateStore(t) /\ CreateEnds(t)
<1> USE DEF TypeInv
<1> DEFINE s == sess(t)
<1>1. /\ req' \in [Threads -> RequestRecord] /\ OthersKeep(t) /\ pc(t) = "undo"
      /\ pc(t)' = "idle" /\ req'[t] = NoRequest
  BY FinishMoves DEF CreateUndo
<1>2. s = req[t].sess /\ s \in Sessions
  BY <1>1 DEF Placed, sess
<1>3. CallEffect(s) /\ (~Remains(s) \/ s \in hurt')
  <2>1. CASE CallOk("remove", s)
    BY <1>2, <2>1, CallOkEffect DEF Calls, After, Exists, Remains, OneMoves
  <2>2. CASE CallFails("remove", s)
    BY <1>2, <2>2, CallFailsEffect DEF Calls, Accepts, Exists, Remains, OneMoves, CallEffect, TypeOK
  <2>3. QED
    BY <1>2, <2>1, <2>2 DEF CreateUndo
<1>4. QED
  BY <1>1, <1>2, <1>3 DEF CreateUndo, CreateMoves, CreateDocker, CreateStore, CreateEnds,
     CallEffect, Creating, TypeOK, Exists, Remains, OneMoves

\* handleCreateSession, Save: the row is there only once the container is.
LEMMA CreateSaveEffect ==
  ASSUME TypeInv, NEW t \in Threads, CreateSave(t) \/ CreateSaveFails(t)
  PROVE  CreateMoves(t) /\ CreateDocker(t) /\ CreateStore(t) /\ CreateEnds(t)
<1> USE DEF TypeInv
<1> DEFINE s == sess(t)
<1>1. /\ req' \in [Threads -> RequestRecord] /\ OthersKeep(t) /\ pc(t) = "save"
      /\ pc(t)' = "idle" /\ req'[t] = NoRequest
  BY FinishMoves DEF CreateSave, CreateSaveFails
<1>2. s = req[t].sess /\ s \in Sessions
  BY <1>1 DEF Placed, sess
<1>3. QED
  BY <1>1, <1>2 DEF CreateSave, CreateSaveFails, Hurts, CreateMoves, CreateDocker, CreateStore,
     CreateEnds, Creating, TypeOK, Exists, Remains, OneMoves

-----------------------------------------------------------------------------
(* What the steps of the other requests do *)

\* Another request moves on or ends, ...
RequestMoves(t) ==
    /\ req' \in [Threads -> RequestRecord] /\ OthersKeep(t) /\ Placed(t)'
    /\ pc(t) \notin Creating \cup {"idle"}
    /\ \/ req'[t] = NoRequest
       \/ pc(t)' \notin Creating \cup {"idle"} /\ sess(t)' = sess(t)

\* ... makes no container, no row and no workspace, and comes to the row of a
\* session it deletes only when the container is gone or the session hurt.
RequestTouches(t) ==
    /\ CallEffect(sess(t))
    /\ row' \in [Sessions -> RowStatus]
    /\ \A s \in Sessions \ {sess(t)} : row'[s] = row[s]
    /\ row[sess(t)] = "none" => row'[sess(t)] = "none"
    /\ pc(t) # "deleteRow" => (row'[sess(t)] = "none" => row[sess(t)] = "none")
    /\ pc(t)' = "deleteRow" => ~Remains(sess(t)) \/ sess(t) \in hurt'
    /\ pc(t) = "deleteRow" => UNCHANGED <<docker, hurt>>
    /\ UNCHANGED <<issued, known, workspace, cleanup>>

RequestStep(t) ==
    \/ List(t) \/ ListFails(t) \/ DeleteRemove(t) \/ DeleteRow(t)
    \/ ReconnectStart(t) \/ TerminalStart(t) \/ ControlAct(t) \/ UpdateStatus(t)

\* What the list makes of a request.
LEMMA ListGoes ==
  ASSUME TypeInv, NEW t \in Threads, List(t)
  PROVE  \/ Finish(t, "list")
         \/ Goto(t, "list", "remove") /\ op(t) = "delete" /\ Exists(sess(t))
         \/ Goto(t, "list", "deleteRow") /\ op(t) = "delete" /\ ~Exists(sess(t))
         \/ Goto(t, "list", "act") /\ op(t) \in Controls /\ Exists(sess(t))
         \/ Goto(t, "list", "update") /\ op(t) = "reconnect" /\ docker[sess(t)] = "running"
         \/ Goto(t, "list", "restart") /\ op(t) = "reconnect" /\ Exists(sess(t))
         \/ Goto(t, "list", "attach") /\ op(t) = "terminal" /\ docker[sess(t)] \in {"exited", "created"}
<1>1. CASE op(t) = "delete"
  BY <1>1 DEF List, op, sess, Controls
<1>2. CASE op(t) \in Controls /\ Exists(sess(t))
  BY <1>2 DEF List, op, sess, Controls
<1>3. CASE op(t) = "reconnect" /\ Exists(sess(t))
  BY <1>3 DEF List, op, sess, Controls
<1>4. CASE op(t) = "terminal" /\ docker[sess(t)] \in {"exited", "created"}
  BY <1>4 DEF List, op, sess, Controls
<1>5. CASE /\ op(t) # "delete"
           /\ ~(op(t) \in Controls /\ Exists(sess(t)))
           /\ ~(op(t) = "reconnect" /\ Exists(sess(t)))
           /\ ~(op(t) = "terminal" /\ docker[sess(t)] \in {"exited", "created"})
  BY <1>5 DEF List, op, sess
<1>6. QED
  BY <1>1, <1>2, <1>3, <1>4, <1>5

\* The container list every other request begins with: it only reads.
LEMMA ListEffect ==
  ASSUME TypeInv, NEW t \in Threads, List(t) \/ ListFails(t)
  PROVE  RequestMoves(t) /\ RequestTouches(t)
<1> USE DEF TypeInv
<1>1. /\ pc(t) = "list" /\ req' \in [Threads -> RequestRecord] /\ OthersKeep(t)
      /\ \/ req'[t] = NoRequest
         \/ /\ pc(t)' \in {"remove", "deleteRow", "act", "update", "restart", "attach"}
            /\ sess(t)' = sess(t) /\ op(t)' = op(t)
            /\ pc(t)' \in {"remove", "deleteRow"} => op(t) = "delete"
            /\ pc(t)' = "deleteRow" => ~Exists(sess(t))
            /\ pc(t)' = "act" => op(t) \in Controls
            /\ pc(t)' \in {"update", "restart"} => op(t) = "reconnect"
  BY ListGoes, GotoMoves, FinishMoves DEF ListFails, PCs
<1>2. sess(t) \in Sessions
  BY <1>1 DEF Placed
<1>3. UNCHANGED <<issued, known, row, docker, workspace, cleanup, hurt>>
  BY DEF List, ListFails
<1>4. Placed(t)'
  BY <1>1, <1>2 DEF Placed, NoRequest, pc
<1>5. req'[t] = NoRequest => pc(t)' = "idle"
  BY DEF NoRequest, pc
<1>6. RequestMoves(t)
  BY <1>1, <1>4 DEF RequestMoves, Creating
<1>7. RequestTouches(t)
  BY <1>1, <1>2, <1>3, <1>5 DEF RequestTouches, CallEffect, TypeOK, Exists, Remains
<1>8. QED
  BY <1>6, <1>7

\* handleDeleteSession, after the list: the container goes first, then the row.
LEMMA DeleteEffect ==
  ASSUME TypeInv, NEW t \in Threads, DeleteRemove(t) \/ DeleteRow(t)
  PROVE  RequestMoves(t) /\ RequestTouches(t)
<1> USE DEF TypeInv
<1>1. CASE DeleteRemove(t)
  <2>1. /\ pc(t) = "remove" /\ req' \in [Threads -> RequestRecord] /\ OthersKeep(t)
        /\ pc(t)' = "deleteRow" /\ sess(t)' = sess(t) /\ op(t)' = op(t)
    BY <1>1, GotoMoves DEF DeleteRemove, PCs
  <2>2. sess(t) \in Sessions /\ op(t) = "delete" /\ sess(t) = req[t].sess
    BY <2>1 DEF Placed, sess
  <2>3. CallEffect(sess(t)) /\ (~Remains(sess(t)) \/ sess(t) \in hurt')
    <3>1. CASE CallOk("remove", sess(t))
      BY <2>2, <3>1, CallOkEffect DEF Calls, After, Remains
    <3>2. CASE CallFails("remove", sess(t))
      BY <2>2, <3>2, CallFailsEffect DEF Calls, Accepts, Exists, Remains, CallEffect
    <3>3. QED
      BY <1>1, <2>2, <3>1, <3>2 DEF DeleteRemove
  <2>4. RequestMoves(t)
    BY <2>1, <2>2 DEF RequestMoves, Placed, Creating
  <2>5. RequestTouches(t)
    BY <1>1, <2>1, <2>2, <2>3 DEF DeleteRemove, RequestTouches, TypeOK
  <2>6. QED
    BY <2>4, <2>5
<1>2. CASE DeleteRow(t)
  <2>1. /\ pc(t) = "deleteRow" /\ req' \in [Threads -> RequestRecord] /\ OthersKeep(t)
        /\ pc(t)' = "idle" /\ req'[t] = NoRequest
    BY <1>2, FinishMoves DEF DeleteRow
  <2>2. sess(t) \in Sessions /\ sess(t) = req[t].sess
    BY <2>1 DEF Placed, sess
  <2>3. RequestMoves(t)
    BY <2>1, <2>2, IdlePlaced DEF RequestMoves, Creating
  <2>4. RequestTouches(t)
    BY <1>2, <2>1, <2>2 DEF DeleteRow, RequestTouches, CallEffect, TypeOK, RowStatus, Exists, Remains
  <2>5. QED
    BY <2>3, <2>4
<1>3. QED
  BY <1>1, <1>2

\* Reconnect, terminal and the controls, after the list: they move a container
\* that exists, and make none.
LEMMA StartEffect ==
  ASSUME TypeInv, NEW t \in Threads, ReconnectStart(t) \/ TerminalStart(t) \/ ControlAct(t)
  PROVE  RequestMoves(t) /\ RequestTouches(t)
<1> USE DEF TypeInv
<1>1. /\ pc(t) \in {"restart", "attach", "act"} /\ req' \in [Threads -> RequestRecord]
      /\ OthersKeep(t)
      /\ \/ req'[t] = NoRequest
         \/ pc(t) # "attach" /\ pc(t)' = "update" /\ sess(t)' = sess(t) /\ op(t)' = op(t)
  BY GotoMoves, FinishMoves DEF ReconnectStart, TerminalStart, ControlAct, PCs
<1>2. sess(t) \in Sessions /\ sess(t) = req[t].sess /\ op(t) = req[t].op
  BY <1>1 DEF Placed, sess, op
<1>3. CallEffect(sess(t))
  <2>1. CASE ReconnectStart(t) \/ TerminalStart(t)
    BY <1>2, <2>1, CallOkEffect, CallFailsEffect DEF ReconnectStart, TerminalStart, Calls
  <2>2. CASE ControlAct(t)
    <3>1. pc(t) = "act"
      BY <2>2, GotoMoves, FinishMoves DEF ControlAct, PCs
    <3>2. op(t) \in Calls
      BY <3>1 DEF Placed, Calls
    <3>3. QED
      BY <1>2, <2>2, <3>2, CallOkEffect, CallFailsEffect DEF ControlAct
  <2>3. QED
    BY <2>1, <2>2
<1>4. req'[t] = NoRequest => pc(t)' = "idle"
  BY DEF NoRequest, pc
<1>5. RequestTouches(t)
  BY <1>1, <1>2, <1>3, <1>4 DEF ReconnectStart, TerminalStart, ControlAct, RequestTouches, TypeOK
<1>6. RequestMoves(t)
  <2>1. CASE req'[t] = NoRequest
    BY <1>1, <2>1, IdlePlaced DEF RequestMoves, Creating
  <2>2. CASE req'[t] # NoRequest
    <3>1. pc(t) \in {"restart", "act"} /\ op(t) \in Controls \cup {"reconnect"}
      BY <1>1, <2>2 DEF Placed
    <3>2. QED
      BY <1>1, <1>2, <2>2, <3>1 DEF RequestMoves, Creating, Placed
  <2>3. QED
    BY <2>1, <2>2
<1>7. QED
  BY <1>5, <1>6

\* Every operation that writes a status has one.
LEMMA StatusAfterType ==
  ASSUME NEW o \in Controls \cup {"reconnect"}
  PROVE  StatusAfter(o) \in RowStatus \ {"none"}
BY DEF Controls, StatusAfter, RowStatus

\* UpdateStatus changes a row and makes none.
LEMMA UpdateEffect ==
  ASSUME TypeInv, NEW t \in Threads, UpdateStatus(t)
  PROVE  RequestMoves(t) /\ RequestTouches(t)
<1> USE DEF TypeInv
<1>1. /\ pc(t) = "update" /\ req' \in [Threads -> RequestRecord] /\ OthersKeep(t)
      /\ pc(t)' = "idle" /\ req'[t] = NoRequest
  BY FinishMoves DEF UpdateStatus
<1>2. /\ sess(t) \in Sessions /\ sess(t) = req[t].sess /\ op(t) = req[t].op
      /\ op(t) \in Controls \cup {"reconnect"}
  BY <1>1 DEF Placed, sess, op
<1>3. RequestMoves(t)
  BY <1>1, <1>2, IdlePlaced DEF RequestMoves, Creating
<1>4. \/ UNCHANGED row
      \/ row[sess(t)] # "none" /\ row' = [row EXCEPT ![sess(t)] = StatusAfter(op(t))]
  BY <1>2 DEF UpdateStatus
<1>5. RequestTouches(t)
  BY <1>1, <1>2, <1>4, StatusAfterType
     DEF UpdateStatus, RequestTouches, CallEffect, TypeOK, Exists, Remains
<1>6. QED
  BY <1>3, <1>5

\* Every step of a request is that of a create or of another one, or begins one.
LEMMA HandlerSteps ==
  ASSUME TypeInv, NEW t \in Threads, Handler(t)
  PROVE  \/ \E s \in Sessions : CreateBegin(t, s)
         \/ \E s \in Sessions, o \in RequestOps : ListBegin(t, o, s)
         \/ CreateMoves(t) /\ CreateDocker(t) /\ CreateStore(t) /\ CreateEnds(t)
         \/ RequestMoves(t) /\ RequestTouches(t)
BY CreateRemoveNameEffect, CreateContainerEffect, CreateStartEffect, CreateUndoEffect,
   CreateSaveEffect, ListEffect, DeleteEffect, StartEffect, UpdateEffect DEF Handler

-----------------------------------------------------------------------------
(* The steps of the shutdown, of a crash and of the containers *)

\* What ends a process, or a container, and a shutdown bring no container into being.
LEMMA CleanupEffect ==
  ASSUME TypeInv, NEW s \in Sessions, CleanupRemove(s)
  PROVE  CallEffect(s) /\ (~Remains(s) \/ s \in hurt')
<1> USE DEF TypeInv
<1>1. CASE CallOk("remove", s)
  BY <1>1, CallOkEffect DEF Calls, After, Remains
<1>2. CASE CallFails("remove", s)
  BY <1>2, CallFailsEffect DEF Calls, Accepts, Exists, Remains, CallEffect
<1>3. QED
  BY <1>1, <1>2 DEF CleanupRemove

-----------------------------------------------------------------------------
(* Types, as an invariant *)

\* Every step keeps the types.
LEMMA TypeStep ==
  ASSUME TypeInv, [Next]_vars
  PROVE  TypeInv'
<1> USE DEF TypeInv
<1>1. ASSUME NEW t \in Threads, Handler(t) PROVE TypeInv'
  <2>1. CASE \E s \in Sessions : CreateBegin(t, s)
    <3>1. PICK s \in Sessions : CreateBegin(t, s)
      BY <2>1
    <3>2. [pc |-> "removeName", op |-> "create", sess |-> s] \in RequestRecord
      BY DEF RequestRecord, PCs
    <3>3. /\ req' \in [Threads -> RequestRecord] /\ OthersKeep(t)
          /\ req'[t] = [pc |-> "removeName", op |-> "create", sess |-> s]
      BY <3>1, <3>2, RequestBegins DEF CreateBegin
    <3>4. TypeOK' /\ Placed(t)'
      BY <3>1, <3>3 DEF CreateBegin, TypeOK, Placed, pc, sess, op
    <3>5. QED
      BY <3>1, <3>3, <3>4, OthersPlaced DEF CreateBegin
  <2>2. CASE \E s \in Sessions, o \in RequestOps : ListBegin(t, o, s)
    <3>1. PICK s \in Sessions, o \in RequestOps : ListBegin(t, o, s)
      BY <2>2
    <3>2. [pc |-> "list", op |-> o, sess |-> s] \in RequestRecord
      BY DEF RequestRecord, PCs
    <3>3. /\ req' \in [Threads -> RequestRecord] /\ OthersKeep(t)
          /\ req'[t] = [pc |-> "list", op |-> o, sess |-> s]
      BY <3>1, <3>2, RequestBegins DEF ListBegin
    <3>4. TypeOK' /\ Placed(t)'
      BY <3>1, <3>3 DEF ListBegin, TypeOK, Placed, pc, sess, op
    <3>5. QED
      BY <3>1, <3>3, <3>4, OthersPlaced DEF ListBegin
  <2>3. CASE CreateMoves(t) /\ CreateDocker(t) /\ CreateStore(t) /\ CreateEnds(t)
    <3>1. sess(t) \in Sessions
      BY <2>3 DEF CreateMoves, Creating, Placed
    <3>2. TypeOK'
      BY <2>3, <3>1 DEF CreateMoves, CreateDocker, CreateStore, TypeOK, RowStatus
    <3>3. Placed(t)'
      BY <2>3, <3>1, IdlePlaced DEF CreateMoves, Creating, Placed
    <3>4. QED
      BY <2>3, <3>2, <3>3, OthersPlaced DEF CreateMoves, CreateStore
  <2>4. CASE RequestMoves(t) /\ RequestTouches(t)
    <3>1. sess(t) \in Sessions
      BY <2>4 DEF RequestMoves, Creating, Placed
    <3>2. TypeOK'
      BY <2>4, <3>1 DEF RequestMoves, RequestTouches, CallEffect, TypeOK
    <3>3. QED
      BY <2>4, <3>2, OthersPlaced DEF RequestMoves, RequestTouches
  <2>5. QED
    BY <1>1, <2>1, <2>2, <2>3, <2>4, HandlerSteps
<1>2. CASE CleanupList
  BY <1>2 DEF CleanupList, TypeOK, Placed, pc, sess, op
<1>3. CASE CleanupExit \/ Crash
  <2>1. HandlersDie
    BY <1>3 DEF CleanupExit, Crash
  <2>2. \A t \in Threads : req'[t] = NoRequest /\ Placed(t)'
    BY <2>1, IdlePlaced DEF HandlersDie
  <2>3. NoRequest \in RequestRecord
    BY DEF NoRequest, RequestRecord, PCs
  <2>4. {req[t].sess : t \in Threads} \ {NoSession} \subseteq Sessions
    BY DEF TypeOK, RequestRecord
  <2>5. TypeOK'
    BY <2>1, <2>3, <2>4 DEF HandlersDie, NoCleanup, TypeOK
  <2>6. QED
    BY <2>1, <2>2, <2>5 DEF HandlersDie
<1>4. ASSUME NEW s \in Sessions, CleanupRemove(s) PROVE TypeInv'
  <2>1. CallEffect(s)
    BY <1>4, CleanupEffect
  <2>2. TypeOK'
    BY <1>4, <2>1 DEF CleanupRemove, CallEffect, TypeOK
  <2>3. QED
    BY <1>4, <2>2 DEF CleanupRemove, Placed, pc, sess, op
<1>5. ASSUME NEW s \in Sessions, ContainerDies(s) PROVE TypeInv'
  BY <1>5 DEF ContainerDies, TypeOK, ContainerState, Placed, pc, sess, op
<1>6. CASE UNCHANGED vars
  BY <1>6 DEF vars, TypeOK, Placed, pc, sess, op
<1>7. QED
  BY <1>1, <1>2, <1>3, <1>4, <1>5, <1>6 DEF Next

-----------------------------------------------------------------------------
(* The inductive invariant *)

\* The invariant holds before the first request.
THEOREM InitInv == Init => IInv
<1> SUFFICES ASSUME Init PROVE IInv
  OBVIOUS
<1>1. TypeInv
  BY InitType
<1>2. \A t \in Threads : pc(t) = "idle"
  BY DEF Init, NoRequest, pc
<1>3. QED
  BY <1>1, <1>2 DEF Init, IInv, OwnInv, WorkspaceInv, SavedWorkspaceSurvives, FreshInv, GoneInv,
     ListedInv, NoCleanup, Creating, Exists

\* A create that begins has an id that nobody has seen.
LEMMA BeginInv ==
  ASSUME IInv, NEW t \in Threads, NEW s \in Sessions, CreateBegin(t, s), TypeInv'
  PROVE  IInv'
<1> USE DEF IInv
<1>1. /\ OthersKeep(t) /\ pc(t)' = "removeName" /\ sess(t)' = s
      /\ pc(t) = "idle"
  BY DEF CreateBegin, TypeInv, TypeOK, OthersKeep, pc, sess
<1>2. \A u \in Threads \ {t} : pc(u)' = pc(u) /\ sess(u)' = sess(u)
  BY <1>1 DEF OthersKeep, pc, sess
<1>3. s \notin issued /\ s \notin known
  BY DEF CreateBegin, OwnInv
<1>4. OwnInv'
  BY <1>1, <1>2, <1>3 DEF CreateBegin, OwnInv, Creating
<1>5. WorkspaceInv' /\ SavedWorkspaceSurvives'
  BY <1>1, <1>2 DEF CreateBegin, WorkspaceInv, SavedWorkspaceSurvives
<1>6. FreshInv'
  BY <1>1, <1>2, <1>3 DEF CreateBegin, FreshInv, Exists
<1>7. GoneInv'
  BY <1>1, <1>2, <1>3 DEF CreateBegin, GoneInv, Creating, FreshInv, Exists
<1>8. ListedInv'
  BY DEF CreateBegin, ListedInv, Exists
<1>9. QED
  BY <1>4, <1>5, <1>6, <1>7, <1>8

\* A request that arrives for a session that exists keeps the invariant.
LEMMA ListBeginInv ==
  ASSUME IInv, NEW t \in Threads, NEW o \in RequestOps, NEW s \in Sessions,
         ListBegin(t, o, s), TypeInv'
  PROVE  IInv'
<1> USE DEF IInv
<1>1. /\ OthersKeep(t) /\ pc(t)' = "list" /\ sess(t)' = s /\ pc(t) = "idle"
  BY DEF ListBegin, TypeInv, TypeOK, OthersKeep, pc, sess
<1>2. \A u \in Threads \ {t} : pc(u)' = pc(u) /\ sess(u)' = sess(u)
  BY <1>1 DEF OthersKeep, pc, sess
<1>3. OwnInv'
  BY <1>1, <1>2 DEF ListBegin, OwnInv, Creating
<1>4. WorkspaceInv' /\ SavedWorkspaceSurvives' /\ FreshInv' /\ GoneInv' /\ ListedInv'
  BY <1>1, <1>2 DEF ListBegin, WorkspaceInv, SavedWorkspaceSurvives, FreshInv, GoneInv,
     ListedInv, Creating, Exists
<1>5. QED
  BY <1>3, <1>4

\* A create keeps to what is its own.
LEMMA CreateInv ==
  ASSUME IInv, NEW t \in Threads, TypeInv',
         CreateMoves(t), CreateDocker(t), CreateStore(t), CreateEnds(t)
  PROVE  IInv'
<1> USE DEF IInv
<1> DEFINE s == sess(t)
<1>1. \A u \in Threads \ {t} : pc(u)' = pc(u) /\ sess(u)' = sess(u)
  BY DEF CreateMoves, OthersKeep, pc, sess
<1>2. /\ pc(t) \in Creating
      /\ \/ pc(t)' = "idle"
         \/ pc(t)' \in Creating \ {"removeName"} /\ sess(t)' = s
      /\ pc(t)' = "create" => pc(t) = "removeName"
  BY IdlePlaced DEF CreateMoves
<1>3. s \in Sessions /\ s \in issued /\ s \notin known /\ row[s] = "none"
  BY <1>2 DEF OwnInv, Creating, TypeInv, Placed
<1>4. \A u \in Threads \ {t} : pc(u) \in Creating => sess(u) # s
  BY <1>2 DEF OwnInv
<1>5. known' \subseteq known \cup {s} /\ (known' # known => pc(t) = "save" /\ pc(t)' = "idle")
  BY DEF CreateStore
<1>6. OwnInv'
  <2>1. known' \subseteq issued'
    BY <1>3, <1>5 DEF OwnInv, CreateStore
  <2>2. ASSUME NEW u \in Threads
        PROVE  /\ pc(u)' \in Creating => sess(u)' \in issued' \ known'
               /\ pc(u)' \notin Creating \cup {"idle"} => sess(u)' \in known'
    BY <1>1, <1>2, <1>3, <1>4, <1>5 DEF OwnInv, CreateStore, Creating
  <2>3. ASSUME NEW u \in Threads, NEW v \in Threads, u # v, pc(u)' \in Creating, pc(v)' \in Creating
        PROVE  sess(u)' # sess(v)'
    BY <1>1, <1>2, <2>3 DEF OwnInv, Creating
  <2>4. \A o \in Sessions : row'[o] # "none" => o \in known'
    BY <1>3 DEF OwnInv, CreateStore, TypeInv, TypeOK
  <2>5. QED
    BY <2>1, <2>2, <2>3, <2>4 DEF OwnInv
<1>7. WorkspaceInv' /\ SavedWorkspaceSurvives'
  <2>1. s \in workspace
    BY <1>2 DEF WorkspaceInv
  <2>2. CASE UNCHANGED workspace
    BY <1>1, <1>2, <1>5, <2>1, <2>2 DEF WorkspaceInv, SavedWorkspaceSurvives, Creating
  <2>3. CASE workspace' = workspace \ {s} /\ pc(t)' = "idle" /\ UNCHANGED known
    BY <1>1, <1>3, <1>4, <2>3 DEF WorkspaceInv, SavedWorkspaceSurvives, Creating
  <2>4. QED
    BY <2>2, <2>3 DEF CreateStore
<1>8. \A o \in Sessions : Exists(o)' => Exists(o) \/ (o = s /\ pc(t) = "create")
  BY DEF CreateDocker, Exists, Remains
<1>9. FreshInv'
  <2>1. \A o \in Sessions \ issued' : ~Exists(o)'
    BY <1>3, <1>8 DEF FreshInv, CreateStore
  <2>2. ASSUME NEW u \in Threads, pc(u)' \in {"removeName", "create"}
        PROVE  ~Exists(sess(u))' /\ sess(u)' \notin cleanup'.listed
    <3>1. pc(u) \in {"removeName", "create"} /\ sess(u)' = sess(u)
      BY <1>1, <1>2, <2>2 DEF Creating
    <3>2. ~Exists(sess(u)) /\ sess(u) \notin cleanup.listed /\ sess(u) \in Sessions
      BY <3>1 DEF FreshInv, TypeInv, Placed
    <3>3. sess(u) # s \/ pc(t) # "create"
      BY <1>2, <1>4, <2>2, <3>1 DEF Creating
    <3>4. QED
      BY <1>8, <3>1, <3>2, <3>3 DEF CreateStore, Exists
  <2>3. QED
    BY <2>1, <2>2 DEF FreshInv, CreateStore
<1>10. GoneInv'
  <2>1. ASSUME NEW u \in Threads, pc(u)' = "deleteRow", Exists(sess(u))'
        PROVE  sess(u)' \in hurt'
    <3>1. u # t /\ pc(u) = "deleteRow" /\ sess(u)' = sess(u)
      BY <1>1, <1>2, <2>1 DEF Creating
    <3>2. sess(u) \in known /\ sess(u) \in Sessions
      BY <3>1 DEF OwnInv, Creating, TypeInv, Placed
    <3>3. Exists(sess(u))
      BY <1>3, <1>8, <2>1, <3>1, <3>2 DEF Exists
    <3>4. QED
      BY <3>1, <3>3 DEF GoneInv, CreateDocker
  <2>2. ASSUME NEW o \in Sessions, Exists(o)', row'[o] = "none",
               \A u \in Threads : pc(u)' \in Creating => sess(u)' # o
        PROVE  o \in hurt'
    <3>1. CASE o = s
      <4>1. pc(t)' = "idle"
        BY <1>2, <2>2, <3>1
      <4>2. CASE pc(t) = "create" /\ UNCHANGED docker
        BY <2>2, <3>1, <4>2 DEF FreshInv, Exists
      <4>3. QED
        BY <2>2, <3>1, <4>1, <4>2 DEF CreateEnds, Exists, Remains
    <3>2. CASE o # s
      <4>1. Exists(o) /\ row[o] = "none"
        BY <1>8, <2>2, <3>2, <1>3 DEF CreateStore, TypeInv, TypeOK
      <4>2. \A u \in Threads : pc(u) \in Creating => sess(u) # o
        BY <1>1, <2>2, <3>2
      <4>3. QED
        BY <4>1, <4>2 DEF GoneInv, CreateDocker
    <3>3. QED
      BY <3>1, <3>2
  <2>3. QED
    BY <2>1, <2>2 DEF GoneInv
<1>11. ListedInv'
  <2>1. ASSUME NEW o \in cleanup'.listed \ cleanup'.left, Exists(o)'
        PROVE  o \in hurt'
    <3>1. o \in Sessions /\ o \in cleanup.listed \ cleanup.left
      BY DEF CreateStore, TypeInv, TypeOK
    <3>2. Exists(o)
      BY <1>8, <2>1, <3>1 DEF FreshInv
    <3>3. QED
      BY <3>1, <3>2 DEF ListedInv, CreateDocker
  <2>2. QED
    BY <2>1 DEF ListedInv
<1>12. QED
  BY <1>6, <1>7, <1>9, <1>10, <1>11

\* Another request brings nothing back.
LEMMA RequestInv ==
  ASSUME IInv, NEW t \in Threads, TypeInv', RequestMoves(t), RequestTouches(t)
  PROVE  IInv'
<1> USE DEF IInv
<1> DEFINE s == sess(t)
<1>1. \A u \in Threads \ {t} : pc(u)' = pc(u) /\ sess(u)' = sess(u)
  BY DEF RequestMoves, OthersKeep, pc, sess
<1>2. /\ pc(t) \notin Creating \cup {"idle"}
      /\ \/ pc(t)' = "idle"
         \/ pc(t)' \notin Creating \cup {"idle"} /\ sess(t)' = s
  BY IdlePlaced DEF RequestMoves
<1>3. s \in Sessions /\ s \in known
  BY <1>2 DEF OwnInv, TypeInv, Placed
<1>4. \A o \in Sessions : Exists(o)' => Exists(o)
  BY DEF RequestTouches, CallEffect, Exists, Remains
<1>5. hurt \subseteq hurt'
  BY DEF RequestTouches, CallEffect
<1>6. \A u \in Threads : pc(u)' \in Creating => u # t /\ pc(u) \in Creating /\ sess(u)' = sess(u)
  BY <1>1, <1>2 DEF Creating
<1>7. \A u \in Threads : u # t /\ pc(u) \in Creating => pc(u)' \in Creating /\ sess(u)' = sess(u)
  BY <1>1
<1>8. OwnInv'
  <2>1. \A o \in Sessions : row'[o] # "none" => o \in known'
    BY <1>3 DEF RequestTouches, OwnInv
  <2>2. \A u \in Threads : pc(u)' \notin Creating \cup {"idle"} => sess(u)' \in known
    BY <1>1, <1>2, <1>3 DEF OwnInv
  <2>3. QED
    BY <1>6, <2>1, <2>2 DEF RequestTouches, OwnInv
<1>9. WorkspaceInv' /\ SavedWorkspaceSurvives'
  BY <1>6 DEF RequestTouches, WorkspaceInv, SavedWorkspaceSurvives
<1>10. FreshInv'
  <2>1. ASSUME NEW u \in Threads, pc(u)' \in {"removeName", "create"}
        PROVE  ~Exists(sess(u))' /\ sess(u)' \notin cleanup.listed
    <3>1. u # t /\ pc(u) \in {"removeName", "create"} /\ sess(u)' = sess(u)
      BY <1>1, <1>6, <2>1 DEF Creating
    <3>2. ~Exists(sess(u)) /\ sess(u) \notin cleanup.listed /\ sess(u) \in Sessions
      BY <3>1 DEF FreshInv, TypeInv, Placed
    <3>3. QED
      BY <1>4, <3>1, <3>2 DEF Exists
  <2>2. QED
    BY <1>4, <2>1 DEF RequestTouches, FreshInv
<1>11. GoneInv'
  <2>1. ASSUME NEW u \in Threads, pc(u)' = "deleteRow", Exists(sess(u))'
        PROVE  sess(u)' \in hurt'
    <3>1. CASE u = t
      BY <1>2, <2>1, <3>1 DEF RequestTouches, Exists, Remains
    <3>2. CASE u # t
      <4>1. pc(u) = "deleteRow" /\ sess(u)' = sess(u) /\ sess(u) \in Sessions
        BY <1>1, <2>1, <3>2 DEF TypeInv, Placed
      <4>2. Exists(sess(u))
        BY <1>4, <2>1, <4>1 DEF Exists
      <4>3. QED
        BY <1>5, <4>1, <4>2 DEF GoneInv
    <3>3. QED
      BY <3>1, <3>2
  <2>2. ASSUME NEW o \in Sessions, Exists(o)', row'[o] = "none",
               \A u \in Threads : pc(u)' \in Creating => sess(u)' # o
        PROVE  o \in hurt'
    <3>1. Exists(o)
      BY <1>4, <2>2
    <3>2. CASE row[o] = "none"
      <4>1. \A u \in Threads : pc(u) \in Creating => sess(u) # o
        BY <1>2, <1>7, <2>2
      <4>2. QED
        BY <1>5, <3>1, <3>2, <4>1 DEF GoneInv
    <3>3. CASE row[o] # "none"
      <4>1. o = s /\ pc(t) = "deleteRow"
        BY <2>2, <3>3 DEF RequestTouches
      <4>2. QED
        BY <1>5, <3>1, <4>1 DEF GoneInv
    <3>4. QED
      BY <3>2, <3>3
  <2>3. QED
    BY <2>1, <2>2 DEF GoneInv
<1>12. ListedInv'
  <2>1. \A o \in cleanup'.listed : o \in Sessions
    BY DEF RequestTouches, TypeInv, TypeOK
  <2>2. QED
    BY <1>4, <1>5, <2>1 DEF RequestTouches, ListedInv
<1>13. QED
  BY <1>8, <1>9, <1>10, <1>11, <1>12

\* A process that ends takes its requests with it, and marks their sessions.
LEMMA EndInv ==
  ASSUME IInv, CleanupExit \/ Crash, TypeInv'
  PROVE  IInv'
<1> USE DEF IInv
<1>1. HandlersDie
  BY DEF CleanupExit, Crash
<1>2. \A t \in Threads : pc(t)' = "idle"
  BY <1>1 DEF HandlersDie, NoRequest, pc
<1>3. OwnInv' /\ WorkspaceInv' /\ SavedWorkspaceSurvives' /\ FreshInv' /\ ListedInv'
  BY <1>1, <1>2 DEF HandlersDie, OwnInv, WorkspaceInv, SavedWorkspaceSurvives, FreshInv,
     ListedInv, NoCleanup, Creating, Exists
<1>4. ASSUME NEW s \in Sessions, Exists(s)', row'[s] = "none"
      PROVE  s \in hurt'
  <2>1. CASE \E t \in Threads : sess(t) = s
    BY <1>1, <2>1 DEF HandlersDie, sess
  <2>2. CASE \A t \in Threads : sess(t) # s
    BY <1>1, <1>4, <2>2 DEF HandlersDie, GoneInv, Exists
  <2>3. QED
    BY <2>1, <2>2
<1>5. GoneInv'
  BY <1>2, <1>4 DEF GoneInv
<1>6. QED
  BY <1>3, <1>5

\* When the containers are listed, nobody who is about to make one has one.
LEMMA CleanupListInv ==
  ASSUME IInv, CleanupList, TypeInv'
  PROVE  IInv'
<1> USE DEF IInv
<1>1. UNCHANGED <<issued, known, row, docker, workspace, req, hurt>>
  BY DEF CleanupList
<1>2. /\ cleanup'.listed \subseteq {s \in Sessions : Exists(s)}
      /\ cleanup'.left = cleanup'.listed
  BY DEF CleanupList
<1>3. OwnInv' /\ WorkspaceInv' /\ SavedWorkspaceSurvives' /\ GoneInv'
  BY <1>1 DEF OwnInv, WorkspaceInv, SavedWorkspaceSurvives, GoneInv, Exists, pc, sess
<1>4. FreshInv' /\ ListedInv'
  BY <1>1, <1>2 DEF FreshInv, ListedInv, Exists, pc, sess
<1>5. QED
  BY <1>3, <1>4

\* A container that the shutdown removes, or that ends, is not made again.
LEMMA ContainerInv ==
  ASSUME IInv, NEW s \in Sessions, CleanupRemove(s) \/ ContainerDies(s), TypeInv'
  PROVE  IInv'
<1> USE DEF IInv
<1>1. UNCHANGED <<issued, known, row, workspace, req>>
  BY DEF CleanupRemove, ContainerDies
<1>2. (\A o \in Sessions : Exists(o)' => Exists(o)) /\ hurt \subseteq hurt'
  <2>1. CASE CleanupRemove(s)
    BY <2>1, CleanupEffect DEF CallEffect, Exists, Remains
  <2>2. CASE ContainerDies(s)
    BY <2>2 DEF ContainerDies, TypeInv, TypeOK, Exists
  <2>3. QED
    BY <2>1, <2>2
<1>3. cleanup'.listed = cleanup.listed
  BY DEF CleanupRemove, ContainerDies, TypeInv, TypeOK
<1>4. OwnInv' /\ WorkspaceInv' /\ SavedWorkspaceSurvives'
  BY <1>1 DEF OwnInv, WorkspaceInv, SavedWorkspaceSurvives, pc, sess
<1>5. FreshInv'
  BY <1>1, <1>2, <1>3 DEF FreshInv, TypeInv, Placed, Exists, pc, sess
<1>6. GoneInv'
  BY <1>1, <1>2 DEF GoneInv, OwnInv, TypeInv, Placed, Exists, pc, sess
<1>7. ListedInv'
  <2>1. ASSUME NEW o \in cleanup'.listed \ cleanup'.left, Exists(o)'
        PROVE  o \in hurt'
    <3>1. o \in Sessions /\ Exists(o) /\ o \in cleanup.listed
      BY <1>2, <1>3, <2>1 DEF TypeInv, TypeOK
    <3>2. CASE o \notin cleanup.left
      BY <1>2, <3>1, <3>2 DEF ListedInv
    <3>3. CASE o \in cleanup.left
      <4>1. o = s /\ CleanupRemove(s)
        BY <2>1, <3>3 DEF CleanupRemove, ContainerDies, TypeInv, TypeOK
      <4>2. QED
        BY <2>1, <4>1, CleanupEffect DEF Exists, Remains
    <3>4. QED
      BY <3>2, <3>3
  <2>2. QED
    BY <2>1 DEF ListedInv
<1>8. QED
  BY <1>4, <1>5, <1>6, <1>7

\* No step moves two containers.
LEMMA OneContainer ==
  ASSUME TypeInv, [Next]_vars
  PROVE  OneMoves
<1>1. ASSUME NEW t \in Threads, Handler(t) PROVE OneMoves
  BY <1>1, HandlerSteps
     DEF CreateBegin, ListBegin, CreateDocker, RequestTouches, CallEffect, OneMoves
<1>2. ASSUME NEW s \in Sessions, CleanupRemove(s) \/ ContainerDies(s) PROVE OneMoves
  BY <1>2, CleanupEffect DEF CallEffect, ContainerDies, TypeInv, TypeOK, OneMoves
<1>3. CASE CleanupList \/ CleanupExit \/ Crash \/ UNCHANGED vars
  BY <1>3 DEF CleanupList, CleanupExit, Crash, HandlersDie, vars, OneMoves
<1>4. QED
  BY <1>1, <1>2, <1>3 DEF Next

\* Every step keeps the invariant.
LEMMA InvStep ==
  ASSUME IInv, [Next]_vars
  PROVE  IInv'
<1>1. TypeInv /\ TypeInv'
  BY TypeStep DEF IInv
<1>2. ASSUME NEW t \in Threads, Handler(t) PROVE IInv'
  BY <1>1, <1>2, HandlerSteps, BeginInv, ListBeginInv, CreateInv, RequestInv
<1>3. CASE UNCHANGED vars
  BY <1>3 DEF vars, IInv, TypeInv, TypeOK, Placed, OwnInv, WorkspaceInv, SavedWorkspaceSurvives,
     FreshInv, GoneInv, ListedInv, Exists, pc, sess, op
<1>4. QED
  BY <1>1, <1>2, <1>3, EndInv, CleanupListInv, ContainerInv DEF Next

\* The invariant holds of every state, although calls fail, answers are lost and
\* the process ends at any moment.
THEOREM Invariance == Spec => []IInv
<1>1. Init => IInv
  BY InitInv
<1>2. IInv /\ [Next]_vars => IInv'
  BY InvStep
<1>3. QED
  BY <1>1, <1>2, PTL DEF Spec

-----------------------------------------------------------------------------
(* What follows from it *)

\* Rows, containers, workspaces and requests are well formed.
THEOREM TypeCorrect == Spec => []TypeOK
<1>1. IInv => TypeOK
  BY DEF IInv, TypeInv
<1>2. QED
  BY <1>1, Invariance, PTL

\* The workspace of a session that was ever saved is there for good
\* (ARCHITECTURE.md:73).
THEOREM Workspaces == Spec => []SavedWorkspaceSurvives
<1>1. IInv => SavedWorkspaceSurvives
  BY DEF IInv
<1>2. QED
  BY <1>1, Invariance, PTL

\* A container that no row and no request accounts for goes back to a call that
\* failed or to a crash: manager.go and main.go compensate for everything else.
THEOREM NoLeak == Spec => []NoUnexplainedLeak
<1>1. IInv => NoUnexplainedLeak
  BY DEF IInv, GoneInv, NoUnexplainedLeak, sess
<1>2. QED
  BY <1>1, Invariance, PTL

\* No step makes the container of a session that a shutdown has listed.
LEMMA ListedStep ==
  ASSUME IInv, [Next]_vars, NEW s \in cleanup.listed, ~Exists(s)
  PROVE  ~Exists(s)'
<1>1. TypeInv /\ s \in Sessions
  BY DEF IInv, TypeInv, TypeOK
<1>2. ASSUME NEW t \in Threads, Handler(t) PROVE ~Exists(s)'
  <2>1. CASE \E o \in Sessions : CreateBegin(t, o)
    BY <2>1 DEF CreateBegin, Exists
  <2>2. CASE \E o \in Sessions, q \in RequestOps : ListBegin(t, q, o)
    BY <2>2 DEF ListBegin, Exists
  <2>3. CASE CreateMoves(t) /\ CreateDocker(t)
    <3>1. ~(s = sess(t) /\ pc(t) = "create")
      BY DEF IInv, FreshInv
    <3>2. QED
      BY <1>1, <2>3, <3>1 DEF CreateDocker, Exists, Remains
  <2>4. CASE RequestTouches(t)
    BY <1>1, <2>4 DEF RequestTouches, CallEffect, Exists, Remains
  <2>5. QED
    BY <1>1, <1>2, <2>1, <2>2, <2>3, <2>4, HandlerSteps
<1>3. CASE CleanupList \/ CleanupExit \/ Crash \/ UNCHANGED vars
  BY <1>3 DEF CleanupList, CleanupExit, Crash, HandlersDie, vars, Exists
<1>4. ASSUME NEW o \in Sessions, CleanupRemove(o) PROVE ~Exists(s)'
  BY <1>1, <1>4, CleanupEffect DEF CallEffect, Exists, Remains
<1>5. ASSUME NEW o \in Sessions, ContainerDies(o) PROVE ~Exists(s)'
  BY <1>1, <1>5 DEF ContainerDies, Exists, TypeInv, TypeOK
<1>6. QED
  BY <1>2, <1>3, <1>4, <1>5 DEF Next

\* What CleanupAll has listed and removed stays removed, although the server goes
\* on serving.
THEOREM RemovalsHold == Spec => ShutdownRemovalsHold
<1>1. IInv /\ [Next]_vars =>
        [\A s \in cleanup.listed : ~Exists(s) /\ Exists(s)' =>
            \E t \in Threads : req[t].op = "reconnect" /\ req[t].sess = s]_vars
  BY ListedStep
<1>2. QED
  BY <1>1, Invariance, PTL DEF Spec, ShutdownRemovalsHold

\* No step brings back the row of a session that was saved and deleted.
LEMMA DeletedStep ==
  ASSUME IInv, [Next]_vars, NEW s \in known, row[s] = "none"
  PROVE  row'[s] = "none"
<1>1. TypeInv /\ s \in Sessions
  BY DEF IInv, TypeInv, TypeOK
<1>2. ASSUME NEW t \in Threads, Handler(t) PROVE row'[s] = "none"
  <2>1. CASE \E o \in Sessions : CreateBegin(t, o)
    BY <2>1 DEF CreateBegin
  <2>2. CASE \E o \in Sessions, q \in RequestOps : ListBegin(t, q, o)
    BY <2>2 DEF ListBegin
  <2>3. CASE CreateMoves(t) /\ CreateStore(t)
    <3>1. sess(t) # s
      BY <2>3 DEF CreateMoves, IInv, OwnInv
    <3>2. QED
      BY <1>1, <2>3, <3>1 DEF CreateStore, TypeInv, TypeOK
  <2>4. CASE RequestTouches(t)
    BY <1>1, <2>4 DEF RequestTouches
  <2>5. QED
    BY <1>1, <1>2, <2>1, <2>2, <2>3, <2>4, HandlerSteps
<1>3. CASE CleanupList \/ CleanupExit \/ Crash \/ UNCHANGED vars
  BY <1>3 DEF CleanupList, CleanupExit, Crash, HandlersDie, vars
<1>4. ASSUME NEW o \in Sessions, CleanupRemove(o) \/ ContainerDies(o) PROVE row'[s] = "none"
  BY <1>4 DEF CleanupRemove, ContainerDies
<1>5. QED
  BY <1>2, <1>3, <1>4 DEF Next

\* A session that was deleted stays deleted, whatever was under way for it.
THEOREM DeletedStays == Spec => DeletedStaysDeleted
<1>1. IInv /\ [Next]_vars => [\A s \in known : row[s] = "none" => row'[s] = "none"]_vars
  BY DeletedStep
<1>2. QED
  BY <1>1, Invariance, PTL DEF Spec, DeletedStaysDeleted

-----------------------------------------------------------------------------
(* The names of containers *)

\* No two sessions share a container name: what the names would have to be.
DistinctNames == \A s, o \in Sessions : NameOf[s] = NameOf[o] => s = o

\* Only ContainerRemove by name takes a create from there to ContainerCreate.
LEMMA RemoveNameStep ==
  ASSUME TypeInv, Next, NEW t \in Threads, pc(t) = "removeName", pc(t)' = "create"
  PROVE  CreateRemoveName(t)
<1>1. PICK u \in Threads : Handler(u)
  <2>1. ASSUME CleanupList \/ (\E s \in Sessions : CleanupRemove(s) \/ ContainerDies(s))
        PROVE  req' = req
    BY <2>1 DEF CleanupList, CleanupRemove, ContainerDies
  <2>2. ASSUME CleanupExit \/ Crash
        PROVE  pc(t)' = "idle"
    BY <2>2 DEF CleanupExit, Crash, HandlersDie, NoRequest, pc
  <2> QED
    BY <2>1, <2>2 DEF Next, pc
<1>2. u = t
  <2>1. OthersKeep(u)
    <3>1. ASSUME NEW s \in Sessions, CreateBegin(u, s) PROVE OthersKeep(u)
      BY <3>1 DEF CreateBegin, TypeInv, TypeOK, OthersKeep
    <3>2. ASSUME NEW s \in Sessions, NEW o \in RequestOps, ListBegin(u, o, s) PROVE OthersKeep(u)
      BY <3>2 DEF ListBegin, TypeInv, TypeOK, OthersKeep
    <3> QED
      BY <1>1, <3>1, <3>2, HandlerSteps DEF CreateMoves, RequestMoves
  <2> QED
    BY <2>1 DEF OthersKeep, pc
<1> QED
  BY <1>1, <1>2 DEF Handler, CreateBegin, ListBegin, CreateContainer, CreateContainerFails,
     CreateStart, CreateUndo, CreateSave, CreateSaveFails, List, ListFails, DeleteRemove,
     DeleteRow, ReconnectStart, TerminalStart, ControlAct, UpdateStatus, Goto, Finish, pc

\* If no two sessions shared a name, a create would remove nobody's container, and
\* what manager.go:154 says of the removal would hold: the common prefix of the
\* names (manager.go:152) is the whole cause of the collision.
THEOREM NamesApart == ASSUME DistinctNames PROVE Spec => CreateRemovesOnlyFailed
<1>1. ASSUME IInv, [Next]_vars
      PROVE  [\A t \in Threads, s \in Sessions :
                 req[t].pc = "removeName" /\ req'[t].pc = "create" /\ Exists(s) /\ ~Exists(s)'
                     => row[s] = "none"]_vars
  <2>1. ASSUME Next, NEW t \in Threads, req[t].pc = "removeName", req'[t].pc = "create"
        PROVE  docker' = docker
    <3>1. CreateRemoveName(t)
      BY <1>1, <2>1, RemoveNameStep DEF IInv, pc
    <3>2. sess(t) \in Sessions /\ ~Exists(sess(t))
      BY <1>1, <2>1 DEF IInv, TypeInv, Placed, FreshInv, pc
    <3>3. Namesakes(req[t].sess) = {}
      BY <3>2 DEF Namesakes, DistinctNames, sess
    <3> QED
      BY <3>1, <3>3 DEF CreateRemoveName
  <2> QED
    BY <1>1, <2>1 DEF Exists
<1> QED
  BY <1>1, Invariance, PTL DEF Spec, CreateRemovesOnlyFailed

-----------------------------------------------------------------------------
(* The status in the row *)

\* Of the events that MovedUntold, WriteLost and Overlapping name.
Calm(s) == ~MovedUntold(s) /\ ~WriteLost(s) /\ ~Overlapping(s)

\* A container of a calm session moves only for a request of the session that
\* will tell the store.
LEMMA CalmMoves ==
  ASSUME NEW s \in Sessions, Calm(s), docker'[s] # docker[s]
  PROVE  \E t \in Threads : sess(t) = s /\ pc(t) \in Telling /\ req'[t] # req[t]
BY DEF Calm, MovedUntold, sess, pc

\* Where neither row nor container moves, and no request comes to or leaves a
\* place that StatusOf speaks of, the status is as right as before.
LEMMA StatusKeeps ==
  ASSUME NEW s \in Sessions, StatusOf(s), docker'[s] = docker[s], row'[s] = row[s],
         \A u \in Threads :
             /\ sess(u) = s /\ pc(u) \in {"update", "deleteRow"} =>
                   sess(u)' = s /\ pc(u)' = pc(u)
             /\ sess(u)' = s /\ pc(u)' \in {"update", "save"} =>
                   sess(u) = s /\ pc(u) = pc(u)' /\ op(u) = op(u)'
  PROVE  StatusOf(s)'
<1>1. ASSUME row'[s] # "none",
             \A t \in Threads : sess(t)' = s => pc(t)' \notin {"update", "deleteRow"}
      PROVE  row'[s] \in Shown(docker'[s])
  <2>1. \A t \in Threads : sess(t) = s => pc(t) \notin {"update", "deleteRow"}
    BY <1>1
  <2>2. row[s] \in Shown(docker[s])
    BY <1>1, <2>1 DEF StatusOf
  <2>3. QED
    BY <2>2
<1>2. ASSUME NEW t \in Threads, sess(t)' = s
      PROVE  /\ pc(t)' = "update" /\ row'[s] # "none" => StatusAfter(op(t)') \in Shown(docker'[s])
             /\ pc(t)' = "save" => docker'[s] = "running"
  <2>1. CASE pc(t)' \in {"update", "save"}
    <3>1. sess(t) = s /\ pc(t) = pc(t)' /\ op(t) = op(t)'
      BY <1>2, <2>1
    <3>2. QED
      BY <3>1 DEF StatusOf
  <2>2. QED
    BY <2>1
<1>3. QED
  BY <1>1, <1>2 DEF StatusOf

\* A step of a request does nothing to other calm sessions.
LEMMA StatusOfOthers ==
  ASSUME IInv, NEW s \in Sessions, Calm(s), StatusOf(s), NEW t \in Threads, sess(t) # s,
         OthersKeep(t), row'[s] = row[s],
         sess(t)' = s => pc(t)' \notin {"update", "save"}
  PROVE  StatusOf(s)'
<1>1. docker'[s] = docker[s]
  BY CalmMoves DEF OthersKeep
<1>2. \A u \in Threads \ {t} : sess(u)' = sess(u) /\ pc(u)' = pc(u) /\ op(u)' = op(u)
  BY DEF OthersKeep, sess, pc, op
<1>3. QED
  BY <1>1, <1>2, StatusKeeps

\* Of a calm session only one request moves, and the others are not there.
LEMMA OneRequest ==
  ASSUME NEW s \in Sessions, Calm(s), NEW t \in Threads, sess(t) = s, OthersKeep(t),
         \A u \in Threads : sess(u) = s => u = t
  PROVE  \A u \in Threads : sess(u)' = s => u = t
BY DEF OthersKeep, sess

\* A create has no row until it has a running container.
LEMMA StatusOfCreate ==
  ASSUME IInv, NEW s \in Sessions, Calm(s), StatusOf(s), NEW t \in Threads, sess(t) = s,
         \A u \in Threads : sess(u) = s => u = t,
         \/ CreateRemoveName(t) \/ CreateContainer(t) \/ CreateContainerFails(t)
         \/ CreateStart(t) \/ CreateUndo(t) \/ CreateSave(t) \/ CreateSaveFails(t),
         s \notin hurt'
  PROVE  StatusOf(s)'
<1>1. TypeInv /\ s = req[t].sess
  BY DEF IInv, sess
<1>2. CreateMoves(t) /\ CreateStore(t)
  BY <1>1, CreateRemoveNameEffect, CreateContainerEffect, CreateStartEffect, CreateUndoEffect,
     CreateSaveEffect
<1>3. row[s] = "none" /\ row \in [Sessions -> RowStatus]
  BY <1>2 DEF CreateMoves, IInv, OwnInv, TypeInv, TypeOK
<1>4. \A u \in Threads : sess(u)' = s => u = t
  BY <1>2, OneRequest DEF CreateMoves
<1>5. /\ pc(t)' = "idle" \/ pc(t)' \in Creating
      /\ pc(t)' \notin {"update", "deleteRow"}
  BY <1>2, IdlePlaced DEF CreateMoves, Creating
<1>6. CASE row'[s] = "none"
  <2>1. ASSUME pc(t)' = "save" PROVE docker'[s] = "running"
    <3>1. CreateStart(t)
      BY <1>1, <2>1, GotoMoves, FinishMoves DEF CreateRemoveName, CreateContainer,
         CreateContainerFails, CreateUndo, CreateSave, CreateSaveFails, TypeInv, PCs
    <3>2. CallOk("start", s)
      BY <1>1, <2>1, <3>1, GotoMoves DEF CreateStart, TypeInv, PCs
    <3>3. QED
      BY <1>1, <3>2, CallOkEffect DEF Calls, After, TypeInv
  <2>2. QED
    BY <1>4, <1>6, <2>1 DEF StatusOf
<1>7. CASE row'[s] # "none"
  <2>1. pc(t) = "save" /\ row'[s] = "running"
    BY <1>2, <1>3, <1>7 DEF CreateStore
  <2>2. docker'[s] = docker[s]
    BY <2>1, CalmMoves, <1>2 DEF Telling, CreateMoves, OthersKeep
  <2>3. docker[s] = "running"
    BY <2>1 DEF StatusOf
  <2>4. QED
    BY <1>4, <1>5, <2>1, <2>2, <2>3, <1>2 DEF StatusOf, Shown, CreateStore, Creating
<1>8. QED
  BY <1>6, <1>7

\* A container that a control has moved is in the state the control will write.
LEMMA ControlShown ==
  ASSUME NEW c \in ContainerState, NEW o \in Controls, Accepts(o, c), Shown(c) # {}
  PROVE  StatusAfter(o) \in Shown(After(o, c))
<1>1. CASE o = "stop"
  BY <1>1 DEF After, StatusAfter, Shown, ContainerState
<1>2. CASE o = "pause"
  BY <1>2 DEF After, StatusAfter, Shown
<1>3. CASE o = "resume"
  BY <1>3 DEF After, StatusAfter, Shown
<1>4. CASE o = "kill"
  BY <1>4 DEF After, StatusAfter, Shown
<1>5. QED
  BY <1>1, <1>2, <1>3, <1>4 DEF Controls

\* The other requests leave the status right, or on its way to be written.
LEMMA StatusOfRequest ==
  ASSUME IInv, NEW s \in Sessions, Calm(s), StatusOf(s), NEW t \in Threads, sess(t) = s,
         \A u \in Threads : sess(u) = s => u = t,
         RequestStep(t), s \notin hurt'
  PROVE  StatusOf(s)'
<1>1. TypeInv /\ s = req[t].sess /\ op(t) = req[t].op /\ docker[s] \in ContainerState
  BY DEF IInv, sess, op, TypeInv, TypeOK
<1>2. RequestMoves(t) /\ RequestTouches(t)
  BY <1>1, ListEffect, DeleteEffect, StartEffect, UpdateEffect DEF RequestStep
<1>3. \A u \in Threads : sess(u)' = s => u = t
  BY <1>2, OneRequest DEF RequestMoves
<1>4. req'[t] = NoRequest => pc(t)' = "idle"
  BY IdlePlaced
<1>5. CASE List(t) \/ ListFails(t)
  <2>1. UNCHANGED <<row, docker>> /\ pc(t) = "list"
    BY <1>1, <1>5, FinishMoves DEF List, ListFails, TypeInv, pc
  <2>2. row[s] # "none" => row[s] \in Shown(docker[s])
    BY <2>1 DEF StatusOf
  <2>3. pc(t)' = "update" => op(t)' = "reconnect" /\ docker[s] = "running"
    BY <1>1, <1>5, ListGoes, GotoMoves, FinishMoves DEF ListFails, TypeInv, PCs
  <2>4. pc(t)' # "save"
    BY <1>2, <1>4 DEF RequestMoves, Creating
  <2>5. QED
    BY <1>3, <2>1, <2>2, <2>3, <2>4 DEF StatusOf, Shown, StatusAfter
<1>6. CASE DeleteRemove(t)
  <2>1. pc(t)' = "deleteRow" /\ sess(t)' = s
    BY <1>1, <1>6, GotoMoves DEF DeleteRemove, TypeInv, PCs
  <2>2. QED
    BY <1>3, <2>1 DEF StatusOf
<1>7. CASE DeleteRow(t)
  <2>1. pc(t) = "deleteRow" /\ pc(t)' = "idle"
    BY <1>1, <1>7, FinishMoves DEF DeleteRow, TypeInv
  <2>2. row'[s] = "none"
    BY <1>1, <2>1 DEF Calm, WriteLost, pc
  <2>3. QED
    BY <1>3, <2>1, <2>2 DEF StatusOf
<1>8. CASE TerminalStart(t)
  <2>1. pc(t) = "attach" /\ pc(t)' = "idle" /\ row' = row
    BY <1>1, <1>8, FinishMoves DEF TerminalStart, TypeInv
  <2>2. docker'[s] = docker[s]
    BY <1>2, <2>1, CalmMoves DEF Telling, RequestMoves, OthersKeep
  <2>3. QED
    BY <1>3, <2>1, <2>2 DEF StatusOf
<1>9. CASE ReconnectStart(t) \/ ControlAct(t)
  <2>1. pc(t) \in {"restart", "act"} /\ row' = row /\ Placed(t)
    BY <1>1, <1>9, GotoMoves, FinishMoves DEF ReconnectStart, ControlAct, TypeInv, PCs
  <2>2. row[s] # "none" => row[s] \in Shown(docker[s])
    BY <2>1 DEF StatusOf
  <2>3. CASE Goto(t, "restart", "update") /\ CallOk("start", s)
    <3>1. /\ pc(t)' = "update" /\ sess(t)' = s /\ op(t)' = "reconnect"
          /\ docker'[s] = "running"
      BY <1>1, <2>1, <2>3, GotoMoves, CallOkEffect DEF Calls, After, TypeInv, PCs, Placed
    <3>2. QED
      BY <1>3, <3>1 DEF StatusOf, Shown, StatusAfter
  <2>4. CASE Goto(t, "act", "update") /\ CallOk(op(t), s)
    <3>1. pc(t) = "act" /\ pc(t)' = "update" /\ sess(t)' = s /\ op(t)' = op(t)
      BY <1>1, <2>4, GotoMoves DEF TypeInv, PCs
    <3>2. op(t) \in Controls
      BY <2>1, <3>1 DEF Placed
    <3>3. Accepts(op(t), docker[s]) /\ docker'[s] = After(op(t), docker[s])
      BY <1>1, <2>4, <3>2, CallOkEffect DEF Calls, TypeInv
    <3>4. row[s] # "none" => StatusAfter(op(t)) \in Shown(docker'[s])
      BY <1>1, <2>2, <3>2, <3>3, ControlShown
    <3>5. QED
      BY <1>3, <2>1, <3>1, <3>4 DEF StatusOf
  <2>5. CASE \/ Finish(t, "restart") /\ CallFails("start", s)
             \/ Finish(t, "act") /\ CallFails(op(t), s)
    <3>1. pc(t)' = "idle"
      BY <1>1, <2>5, FinishMoves DEF TypeInv
    <3>2. docker' = docker
      BY <2>5 DEF CallFails, CallRefused, CallLost, Hurts
    <3>3. QED
      BY <1>3, <2>1, <2>2, <3>1, <3>2 DEF StatusOf
  <2>6. QED
    BY <1>1, <1>9, <2>3, <2>4, <2>5 DEF ReconnectStart, ControlAct
<1>10. CASE UpdateStatus(t)
  <2>1. pc(t) = "update" /\ pc(t)' = "idle" /\ req'[t].pc = "idle" /\ UNCHANGED docker
    BY <1>1, <1>10, FinishMoves DEF UpdateStatus, TypeInv, NoRequest
  <2>2. row'[s] = StatusAfter(op(t))
    BY <1>1, <2>1 DEF Calm, WriteLost, pc
  <2>3. row'[s] # "none" => row[s] # "none"
    BY <1>2 DEF RequestTouches
  <2>4. row[s] # "none" => row'[s] \in Shown(docker'[s])
    BY <2>1, <2>2 DEF StatusOf
  <2>5. QED
    BY <1>3, <2>1, <2>3, <2>4 DEF StatusOf
<1>11. QED
  BY <1>5, <1>6, <1>7, <1>8, <1>9, <1>10 DEF RequestStep

\* A step that leaves a session calm, and meets no other request of it, keeps row
\* and container in agreement.
LEMMA StatusOfStep ==
  ASSUME IInv, Next, NEW s \in Sessions, Calm(s), StatusOf(s), s \notin hurt',
         \A t, u \in Threads : sess(t) = s /\ sess(u) = s => t = u
  PROVE  StatusOf(s)'
<1>1. TypeInv
  BY DEF IInv
<1>2. ASSUME NEW t \in Threads, NEW o \in Sessions, CreateBegin(t, o) PROVE StatusOf(s)'
  <2>1. /\ OthersKeep(t) /\ pc(t) = "idle" /\ pc(t)' = "removeName"
        /\ UNCHANGED <<row, docker>>
    BY <1>1, <1>2 DEF CreateBegin, TypeInv, TypeOK, OthersKeep, pc
  <2>2. QED
    BY <2>1, StatusKeeps DEF OthersKeep, pc, sess, op
<1>3. ASSUME NEW t \in Threads, NEW o \in Sessions, NEW q \in RequestOps, ListBegin(t, q, o)
      PROVE  StatusOf(s)'
  <2>1. /\ OthersKeep(t) /\ pc(t) = "idle" /\ pc(t)' = "list"
        /\ UNCHANGED <<row, docker>>
    BY <1>1, <1>3 DEF ListBegin, TypeInv, TypeOK, OthersKeep, pc
  <2>2. QED
    BY <2>1, StatusKeeps DEF OthersKeep, pc, sess, op
<1>4. ASSUME NEW t \in Threads,
             \/ CreateRemoveName(t) \/ CreateContainer(t) \/ CreateContainerFails(t)
             \/ CreateStart(t) \/ CreateUndo(t) \/ CreateSave(t) \/ CreateSaveFails(t)
      PROVE  StatusOf(s)'
  <2>1. CASE sess(t) = s
    BY <1>4, <2>1, StatusOfCreate
  <2>2. CASE sess(t) # s
    <3>1. CreateMoves(t) /\ CreateStore(t)
      BY <1>1, <1>4, CreateRemoveNameEffect, CreateContainerEffect, CreateStartEffect,
         CreateUndoEffect, CreateSaveEffect
    <3>2. row'[s] = row[s]
      BY <1>1, <2>2, <3>1 DEF CreateStore, TypeInv, TypeOK
    <3>3. sess(t)' = s => pc(t)' = "idle"
      BY <2>2, <3>1, IdlePlaced DEF CreateMoves
    <3>4. QED
      BY <2>2, <3>1, <3>2, <3>3, StatusOfOthers DEF CreateMoves
  <2>3. QED
    BY <2>1, <2>2
<1>5. ASSUME NEW t \in Threads, RequestStep(t) PROVE StatusOf(s)'
  <2>1. CASE sess(t) = s
    BY <1>5, <2>1, StatusOfRequest
  <2>2. CASE sess(t) # s
    <3>1. RequestMoves(t) /\ RequestTouches(t)
      BY <1>1, <1>5, ListEffect, DeleteEffect, StartEffect, UpdateEffect DEF RequestStep
    <3>2. row'[s] = row[s]
      BY <2>2, <3>1 DEF RequestTouches
    <3>3. sess(t)' = s => pc(t)' = "idle"
      BY <2>2, <3>1, IdlePlaced DEF RequestMoves
    <3>4. QED
      BY <2>2, <3>1, <3>2, <3>3, StatusOfOthers DEF RequestMoves
  <2>3. QED
    BY <2>1, <2>2
<1>6. CASE CleanupList
  BY <1>6, StatusKeeps DEF CleanupList, pc, sess, op
<1>7. CASE CleanupExit \/ Crash
  <2>1. HandlersDie
    BY <1>7 DEF CleanupExit, Crash
  <2>2. \A t \in Threads : pc(t)' = "idle" /\ sess(t) # s
    BY <1>1, <2>1 DEF HandlersDie, NoRequest, pc, sess
  <2>3. QED
    BY <2>1, <2>2, StatusKeeps DEF HandlersDie
<1>8. ASSUME NEW o \in Sessions, CleanupRemove(o) \/ ContainerDies(o) PROVE StatusOf(s)'
  <2>1. UNCHANGED <<row, req>>
    BY <1>8 DEF CleanupRemove, ContainerDies
  <2>2. docker'[s] = docker[s]
    BY <2>1, CalmMoves
  <2>3. QED
    BY <2>1, <2>2, StatusKeeps DEF pc, sess, op
<1>9. QED
  BY <1>2, <1>3, <1>4, <1>5, <1>6, <1>7, <1>8 DEF Next, Handler, RequestStep

\* No step forgets that a call of a session has failed.
LEMMA HurtGrows ==
  ASSUME TypeInv, [Next]_vars
  PROVE  hurt \subseteq hurt'
<1>1. ASSUME NEW t \in Threads, Handler(t) PROVE hurt \subseteq hurt'
  BY <1>1, HandlerSteps DEF CreateBegin, ListBegin, CreateDocker, RequestTouches, CallEffect
<1>2. ASSUME NEW s \in Sessions, CleanupRemove(s) \/ ContainerDies(s) PROVE hurt \subseteq hurt'
  BY <1>2, CleanupEffect DEF CallEffect, ContainerDies
<1>3. CASE CleanupList \/ CleanupExit \/ Crash \/ UNCHANGED vars
  BY <1>3 DEF CleanupList, CleanupExit, Crash, HandlersDie, vars
<1>4. QED
  BY <1>1, <1>2, <1>3 DEF Next

\* Every step of SessionStatus keeps StatusInv.
LEMMA StatusStep ==
  ASSUME IInv, StatusInv, [StatusNext]_statusVars
  PROVE  StatusInv'
<1>1. CASE StatusNext
  <2>1. ASSUME NEW s \in Sessions \ drifted'
        PROVE  s \notin drifted /\ Calm(s)
    BY <1>1, <2>1 DEF StatusNext, Calm
  <2>2. ASSUME NEW s \in Sessions \ drifted', NEW t \in Threads, NEW u \in Threads,
               sess(t)' = s, sess(u)' = s
        PROVE  t = u
    BY <2>1, <2>2 DEF Calm, Overlapping, sess
  <2>3. ASSUME NEW s \in Sessions \ (hurt' \cup drifted')
        PROVE  StatusOf(s)'
    <3>1. s \notin hurt /\ s \notin drifted /\ Calm(s)
      BY <1>1, <2>1, HurtGrows DEF StatusNext, IInv
    <3>2. StatusOf(s) /\ \A t, u \in Threads : sess(t) = s /\ sess(u) = s => t = u
      BY <3>1 DEF StatusInv
    <3>3. QED
      BY <1>1, <3>1, <3>2, StatusOfStep DEF StatusNext
  <2>4. QED
    BY <2>2, <2>3 DEF StatusInv
<1>2. CASE UNCHANGED statusVars
  BY <1>2 DEF statusVars, vars, StatusInv, StatusOf, pc, sess, op
<1>3. QED
  BY <1>1, <1>2

\* StatusInv holds before the first request.
LEMMA StatusInit0 == StatusInit => StatusInv
<1> SUFFICES ASSUME StatusInit PROVE StatusInv
  OBVIOUS
<1>1. \A t \in Threads : pc(t) = "idle" /\ sess(t) = NoSession
  BY DEF StatusInit, Init, NoRequest, pc, sess
<1>2. \A s \in Sessions : row[s] = "none"
  BY DEF StatusInit, Init
<1>3. QED
  BY <1>1, <1>2 DEF StatusInv, StatusOf

\* Between requests a row's status is the state of its container, unless one of
\* the events of drifted has happened to the session, a call for it failed or
\* the process ended in the middle of a request.
THEOREM StatusHolds == StatusSpec => []StatusExplained
<1>1. StatusInit => IInv /\ StatusInv
  BY InitInv, StatusInit0 DEF StatusInit
<1>2. IInv /\ StatusInv /\ [StatusNext]_statusVars => (IInv /\ StatusInv)'
  <2>1. [StatusNext]_statusVars => [Next]_vars
    BY DEF StatusNext, statusVars
  <2>2. QED
    BY <2>1, InvStep, StatusStep
<1>3. StatusInv => StatusExplained
  BY DEF StatusInv, StatusOf, StatusExplained, sess, pc
<1>4. QED
  BY <1>1, <1>2, <1>3, PTL DEF StatusSpec
=============================================================================
