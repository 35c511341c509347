---------------------------- MODULE AgentSessions ----------------------------
(***************************************************************************)
(* Agent sessions of the agent-runner: the HTTP handlers of cmd/main.go,   *)
(* the calls internal/docker/manager.go and metrics.go make for them, the  *)
(* rows of internal/session/store.go, and the shutdown goroutine.          *)
(*                                                                         *)
(* A session lives in three places nobody updates together: a row in       *)
(* SQLite, a container labelled with the session id in the Docker daemon,  *)
(* and a workspace directory.  Rows, containers and directories outlive    *)
(* the agent-runner process; handlers do not.  Every Docker call may fail, *)
(* and may fail for the caller after the daemon has done the work (a       *)
(* client that goes away or the 60 s limit cancels the context).           *)
(*                                                                         *)
(* Environment, as the handlers use it: the daemon's container states, and *)
(* containers whose agent exits by itself.                                 *)
(***************************************************************************)
CONSTANTS
    Sessions,   \* session ids; sess-<nanoseconds>, never issued twice
    Names,      \* container names
    NameOf,     \* [Sessions -> Names]: agent-user-def-<first 12 characters of the id>
    Threads,    \* handler goroutines
    NoSession

ASSUME SessionsAssumption ==
    /\ NameOf \in [Sessions -> Names]
    /\ NoSession \notin Sessions

VARIABLES
    issued,     \* ids CreateSession has made up so far
    known,      \* ids that were in the store at some time: a client can send them
    row,        \* [Sessions -> RowStatus]: the sessions table
    docker,     \* [Sessions -> ContainerState]: the container with this session's label
    workspace,  \* sessions whose workspace directory exists
    req,        \* [Threads -> RequestRecord]
    cleanup,    \* the shutdown goroutine: [on, listed, left]
    hurt        \* history: sessions that a failed call or a crash has touched

vars == <<issued, known, row, docker, workspace, req, cleanup, hurt>>

RowStatus == {"none", "running", "stopped", "paused", "killed"}

ContainerState == {"none", "created", "running", "paused", "exited"}

Controls == {"stop", "pause", "resume", "kill"}

RequestOps == Controls \cup {"delete", "reconnect", "terminal"}

PCs == {"idle", "removeName", "create", "start", "undo", "save",
        "list", "remove", "deleteRow", "act", "restart", "attach", "update"}

RequestRecord ==
    [pc : PCs, op : RequestOps \cup {"create", "none"}, sess : Sessions \cup {NoSession}]

NoRequest == [pc |-> "idle", op |-> "none", sess |-> NoSession]

NoCleanup == [on |-> FALSE, listed |-> {}, left |-> {}]

TypeOK ==
    /\ issued \subseteq Sessions
    /\ known \subseteq Sessions
    /\ row \in [Sessions -> RowStatus]
    /\ docker \in [Sessions -> ContainerState]
    /\ workspace \subseteq Sessions
    /\ req \in [Threads -> RequestRecord]
    /\ cleanup \in [on : BOOLEAN, listed : SUBSET Sessions, left : SUBSET Sessions]
    /\ hurt \subseteq Sessions

Init ==
    /\ issued = {}
    /\ known = {}
    /\ row = [s \in Sessions |-> "none"]
    /\ docker = [s \in Sessions |-> "none"]
    /\ workspace = {}
    /\ req = [t \in Threads |-> NoRequest]
    /\ cleanup = NoCleanup
    /\ hurt = {}

Exists(s) == docker[s] # "none"

Goto(t, from, to) == req[t].pc = from /\ req' = [req EXCEPT ![t].pc = to]

Finish(t, from) == req[t].pc = from /\ req' = [req EXCEPT ![t] = NoRequest]

Hurts(s) == hurt' = hurt \cup {s}

-----------------------------------------------------------------------------
(* The Docker daemon *)

Accepts(call, c) ==
    CASE call = "start"  -> c \in {"created", "exited", "running"}
      [] call = "stop"   -> c # "none"
      [] call = "pause"  -> c = "running"
      [] call = "resume" -> c = "paused"
      [] call = "kill"   -> c \in {"running", "paused"}
      [] call = "remove" -> c # "none"

After(call, c) ==
    CASE call \in {"start", "resume"} -> "running"
      [] call = "pause"  -> "paused"
      [] call = "kill"   -> "exited"
      [] call = "stop"   -> IF c = "created" THEN c ELSE "exited"
      [] call = "remove" -> "none"

\* The daemon does the work and the caller learns it.
CallOk(call, s) ==
    /\ Accepts(call, docker[s])
    /\ docker' = [docker EXCEPT ![s] = After(call, @)]
    /\ UNCHANGED hurt

\* The daemon refuses: the container is gone or in no state for it.
CallRefused(call, s) == ~Accepts(call, docker[s]) /\ UNCHANGED <<docker, hurt>>

\* The caller gets an error, whether or not the daemon did the work.
CallLost(call, s) ==
    /\ Accepts(call, docker[s])
    /\ docker' \in {docker, [docker EXCEPT ![s] = After(call, @)]}
    /\ Hurts(s)

CallFails(call, s) == CallRefused(call, s) \/ CallLost(call, s)

-----------------------------------------------------------------------------
(* createSession *)

\* The id is made up and the workspace made, once the quota allows it.
CreateBegin(t, s) ==
    /\ req[t].pc = "idle"
    /\ s \notin issued
    /\ issued' = issued \cup {s}
    /\ workspace' = workspace \cup {s}
    /\ req' = [req EXCEPT ![t] = [pc |-> "removeName", op |-> "create", sess |-> s]]
    /\ UNCHANGED <<known, row, docker, cleanup, hurt>>

Namesakes(s) == {o \in Sessions : Exists(o) /\ NameOf[o] = NameOf[s]}

\* Mutant: the namesake's workspace goes with its container.
CreateWipesNamesake(t) ==
    /\ Goto(t, "removeName", "create")
    /\ IF Namesakes(req[t].sess) = {} THEN UNCHANGED <<docker, workspace, hurt>>
       ELSE \E o \in Namesakes(req[t].sess) :
               CallOk("remove", o) /\ workspace' = workspace \ {o}
    /\ UNCHANGED <<issued, known, row, cleanup>>

\* Whatever container has the name goes, by force; the error is not looked at.
CreateRemoveName(t) ==
    /\ Goto(t, "removeName", "create")
    /\ IF Namesakes(req[t].sess) = {} THEN UNCHANGED <<docker, hurt>>
       ELSE \E o \in Namesakes(req[t].sess) : CallOk("remove", o) \/ CallLost("remove", o)
    /\ UNCHANGED <<issued, known, row, workspace, cleanup>>

CreateContainer(t) ==
    LET s == req[t].sess IN
    /\ Goto(t, "create", "start")
    /\ Namesakes(s) = {}
    /\ docker' = [docker EXCEPT ![s] = "created"]
    /\ UNCHANGED <<issued, known, row, workspace, cleanup, hurt>>

\* The name is taken again, or the call fails: only the workspace is removed.
CreateContainerFails(t) ==
    LET s == req[t].sess IN
    /\ Finish(t, "create")
    /\ workspace' = workspace \ {s}
    /\ IF Namesakes(s) # {} THEN UNCHANGED <<docker, hurt>>
       ELSE docker' \in {docker, [docker EXCEPT ![s] = "created"]} /\ Hurts(s)
    /\ UNCHANGED <<issued, known, row, cleanup>>

\* Mutant: a create whose container has vanished makes it once more.
CreateStartsOver(t) ==
    /\ \/ Goto(t, "start", "save") /\ CallOk("start", req[t].sess)
       \/ Goto(t, "start", "undo") /\ CallLost("start", req[t].sess)
       \/ Goto(t, "start", "create") /\ CallRefused("start", req[t].sess)
    /\ UNCHANGED <<issued, known, row, workspace, cleanup>>

CreateStart(t) ==
    /\ \/ Goto(t, "start", "save") /\ CallOk("start", req[t].sess)
       \/ Goto(t, "start", "undo") /\ CallFails("start", req[t].sess)
    /\ UNCHANGED <<issued, known, row, workspace, cleanup>>

\* Remove the container, with the context that may be the reason for all this,
\* and the workspace.
CreateUndo(t) ==
    LET s == req[t].sess IN
    /\ Finish(t, "undo")
    /\ CallOk("remove", s) \/ CallFails("remove", s)
    /\ workspace' = workspace \ {s}
    /\ UNCHANGED <<issued, known, row, cleanup>>

CreateSave(t) ==
    LET s == req[t].sess IN
    /\ Finish(t, "save")
    /\ row' = [row EXCEPT ![s] = "running"]
    /\ known' = known \cup {s}
    /\ UNCHANGED <<issued, docker, workspace, cleanup, hurt>>

\* The INSERT fails: 500, and the container runs on.
CreateSaveFails(t) ==
    /\ Finish(t, "save")
    /\ Hurts(req[t].sess)
    /\ UNCHANGED <<issued, known, row, docker, workspace, cleanup>>

-----------------------------------------------------------------------------
(* The handlers that begin by listing the containers of a session *)

ListBegin(t, op, s) ==
    /\ req[t].pc = "idle"
    /\ s \in known
    /\ req' = [req EXCEPT ![t] = [pc |-> "list", op |-> op, sess |-> s]]
    /\ UNCHANGED <<issued, known, row, docker, workspace, cleanup, hurt>>

\* With no container a delete goes on to the row and the others give up.  What
\* the list says is acted on one call later.
List(t) ==
    LET s == req[t].sess
        op == req[t].op
    IN
    /\ req[t].pc = "list"
    /\ CASE op = "delete" -> Goto(t, "list", IF Exists(s) THEN "remove" ELSE "deleteRow")
         [] op \in Controls /\ Exists(s) -> Goto(t, "list", "act")
         [] op = "reconnect" /\ Exists(s) ->
                Goto(t, "list", IF docker[s] = "running" THEN "update" ELSE "restart")
         [] op = "terminal" /\ docker[s] \in {"exited", "created"} ->
                Goto(t, "list", "attach")
         [] OTHER -> Finish(t, "list")
    /\ UNCHANGED <<issued, known, row, docker, workspace, cleanup, hurt>>

ListFails(t) ==
    /\ Finish(t, "list")
    /\ UNCHANGED <<issued, known, row, docker, workspace, cleanup, hurt>>

\* Mutant: a delete leaves a container alone that is not running.
DeleteRemovesRunningOnly(t) ==
    LET s == req[t].sess IN
    /\ Goto(t, "remove", "deleteRow")
    /\ IF docker[s] = "running" THEN CallOk("remove", s) ELSE UNCHANGED <<docker, hurt>>
    /\ UNCHANGED <<issued, known, row, workspace, cleanup>>

\* A failed removal is logged, and the row goes all the same.
DeleteRemove(t) ==
    LET s == req[t].sess IN
    /\ Goto(t, "remove", "deleteRow")
    /\ CallOk("remove", s) \/ CallFails("remove", s)
    /\ UNCHANGED <<issued, known, row, workspace, cleanup>>

\* The workspace stays.
DeleteRow(t) ==
    LET s == req[t].sess IN
    /\ Finish(t, "deleteRow")
    /\ row' \in {row, [row EXCEPT ![s] = "none"]}
    /\ UNCHANGED <<issued, known, docker, workspace, cleanup, hurt>>

ReconnectStart(t) ==
    LET s == req[t].sess IN
    /\ \/ Goto(t, "restart", "update") /\ CallOk("start", s)
       \/ Finish(t, "restart") /\ CallFails("start", s)
    /\ UNCHANGED <<issued, known, row, workspace, cleanup>>

\* AttachTerminal restarts the container and leaves the row as it is.
TerminalStart(t) ==
    LET s == req[t].sess IN
    /\ Finish(t, "attach")
    /\ CallOk("start", s) \/ CallFails("start", s)
    /\ UNCHANGED <<issued, known, row, workspace, cleanup>>

ControlAct(t) ==
    LET s == req[t].sess
        op == req[t].op
    IN
    /\ \/ Goto(t, "act", "update") /\ CallOk(op, s)
       \/ Finish(t, "act") /\ CallFails(op, s)
    /\ UNCHANGED <<issued, known, row, workspace, cleanup>>

\* Mutant: the name of the operation is stored.
StatusIsOperation(op) == op

\* Mutant: pauseSession is a copy of stopSession.
StatusCopied(op) ==
    CASE op \in {"stop", "pause"} -> "stopped"
      [] op = "kill"  -> "killed"
      [] op \in {"resume", "reconnect"} -> "running"

StatusAfter(op) ==
    CASE op = "stop"  -> "stopped"
      [] op = "pause" -> "paused"
      [] op = "kill"  -> "killed"
      [] op \in {"resume", "reconnect"} -> "running"

\* Mutant: INSERT OR REPLACE instead of UPDATE.
UpsertStatus(t) ==
    /\ Finish(t, "update")
    /\ row' = [row EXCEPT ![req[t].sess] = StatusAfter(req[t].op)]
    /\ UNCHANGED <<issued, known, docker, workspace, cleanup, hurt>>

\* UPDATE ... WHERE id: without a row it changes nothing; its error is dropped.
UpdateStatus(t) ==
    LET s == req[t].sess IN
    /\ Finish(t, "update")
    /\ \/ row[s] # "none" /\ row' = [row EXCEPT ![s] = StatusAfter(req[t].op)]
       \/ UNCHANGED row
    /\ UNCHANGED <<issued, known, docker, workspace, cleanup, hurt>>

-----------------------------------------------------------------------------
(* The end of the process *)

\* SIGTERM: CleanupAll lists the agent containers, or fails to and gives up.  The
\* server goes on serving.
CleanupList ==
    /\ ~cleanup.on
    /\ \E all \in {{}, {s \in Sessions : Exists(s)}} :
          cleanup' = [on |-> TRUE, listed |-> all, left |-> all]
    /\ UNCHANGED <<issued, known, row, docker, workspace, req, hurt>>

CleanupRemove(s) ==
    /\ cleanup.on
    /\ s \in cleanup.left
    /\ CallOk("remove", s) \/ CallFails("remove", s)
    /\ cleanup' = [cleanup EXCEPT !.left = @ \ {s}]
    /\ UNCHANGED <<issued, known, row, workspace, req>>

\* Every handler dies where it is.  What it had in hand counts as hurt.
HandlersDie ==
    /\ hurt' = hurt \cup ({req[t].sess : t \in Threads} \ {NoSession})
    /\ req' = [t \in Threads |-> NoRequest]
    /\ cleanup' = NoCleanup
    /\ UNCHANGED <<issued, known, row, docker, workspace>>

\* os.Exit(0) after the cleanup; the next process does not reconcile anything.
CleanupExit == cleanup.on /\ cleanup.left = {} /\ HandlersDie

\* The process is killed.
Crash == (cleanup.on \/ \E t \in Threads : req[t].pc # "idle") /\ HandlersDie

\* An agent exits, or the daemon or host restarts: there is no restart policy.
ContainerDies(s) ==
    /\ docker[s] \in {"running", "paused"}
    /\ docker' = [docker EXCEPT ![s] = "exited"]
    /\ UNCHANGED <<issued, known, row, workspace, req, cleanup, hurt>>

-----------------------------------------------------------------------------
Handler(t) ==
    \/ \E s \in Sessions : CreateBegin(t, s)
    \/ \E s \in Sessions, op \in RequestOps : ListBegin(t, op, s)
    \/ CreateRemoveName(t) \/ CreateContainer(t) \/ CreateContainerFails(t)
    \/ CreateStart(t) \/ CreateUndo(t) \/ CreateSave(t) \/ CreateSaveFails(t)
    \/ List(t) \/ ListFails(t) \/ DeleteRemove(t) \/ DeleteRow(t)
    \/ ReconnectStart(t) \/ TerminalStart(t) \/ ControlAct(t) \/ UpdateStatus(t)

Next ==
    \/ \E t \in Threads : Handler(t)
    \/ CleanupList \/ CleanupExit \/ Crash
    \/ \E s \in Sessions : CleanupRemove(s) \/ ContainerDies(s)

Spec == Init /\ [][Next]_vars

-----------------------------------------------------------------------------
(* Safety *)

\* ARCHITECTURE.md:73 "Agent workspaces survive container death, service
\* restart": once a session has been saved, its workspace is there for good; a
\* create that fails half-way takes nobody's workspace but its own.
SavedWorkspaceSurvives == known \subseteq workspace

\* A session that has been deleted stays deleted, although the stop, pause,
\* kill, resume or reconnect it overtook still writes its status afterwards.
DeletedStaysDeleted ==
    [][\A s \in known : row[s] = "none" => row'[s] = "none"]_vars

\* The handlers compensate for one another: a container that no row and no
\* request accounts for goes back to a call that failed or a crash.
NoUnexplainedLeak ==
    \A s \in Sessions :
        Exists(s) /\ row[s] = "none" /\ (\A t \in Threads : req[t].sess # s) => s \in hurt

\* What the shutdown has listed to be removed is not made again once it is gone,
\* by no create, delete, terminal or control that is still running.  A reconnect
\* is left out, because ARCHITECTURE.md means it to (see ReconnectRecreates).
ShutdownRemovalsHold ==
    [][\A s \in cleanup.listed : ~Exists(s) /\ Exists(s)' =>
          \E t \in Threads : req[t].op = "reconnect" /\ req[t].sess = s]_vars

-----------------------------------------------------------------------------
(* What the comments and documents say, and the code does not do *)

\* manager.go:154 "Remove any existing container with the same name (from
\* previous failed sessions)": the one removed belongs to no stored session.
CreateRemovesOnlyFailed ==
    [][\A t \in Threads, s \in Sessions :
          req[t].pc = "removeName" /\ req'[t].pc = "create" /\ Exists(s) /\ ~Exists(s)'
              => row[s] = "none"]_vars

\* ARCHITECTURE.md:634 "agent-runner checks if workspace exists, re-creates
\* container, mounts same workspace" and :247 "agent-runner recreates on
\* reconnect": a reconnect does not end at the list for want of a container.
ReconnectRecreates ==
    [][\A t \in Threads :
          req[t].op = "reconnect" /\ List(t) /\ ~Exists(req[t].sess)
              /\ req[t].sess \in workspace => req'[t] # NoRequest]_vars
=============================================================================
