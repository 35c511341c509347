---------------------------- MODULE LlamaGateway ----------------------------
(***************************************************************************)
(* The llm-gateway server (llm-gateway/internal/api/handlers.go): request  *)
(* threads that run the chat, load, unload and delete handlers over the    *)
(* registry, the llama pointer and the load semaphore.                     *)
(*                                                                         *)
(* net/http runs every request in a goroutine of its own.  Server.llama is *)
(* written by all four handlers; only the two load paths take llamaMu, a   *)
(* channel of capacity one.  A nil llama that is dereferenced, or a        *)
(* stopCh closed twice, panics: chi's Recoverer answers 500, and the       *)
(* deferred receive gives the semaphore back.                              *)
(*                                                                         *)
(* Handlers that only read and answer (the GETs, an unknown name, a 409    *)
(* before the semaphore) change nothing and are not actions.  Two reads in *)
(* one condition are one step when a write between them could only end in  *)
(* a panic that the next dereference allows anyway.                        *)
(***************************************************************************)
EXTENDS ModelRegistry, LlamaProcess

CONSTANTS
    Threads,    \* request goroutines
    Ops,        \* the routes clients call, a subset of AllOps
    NoProc,     \* Server.llama = nil
    NoThread    \* the semaphore is free

AllOps == {"chat", "load", "unload", "delete"}

ASSUME GatewayAssumption ==
    /\ Weights = Models \cup {NoModel}
    /\ Procs # {}
    /\ NoProc \notin Procs
    /\ NoThread \notin Threads
    /\ Ops \subseteq AllOps

VARIABLES
    llama,      \* Server.llama
    sem,        \* who holds Server.llamaMu
    req         \* [Threads -> RequestRecord]: the request each thread serves

vars == <<status, active, proc, llama, sem, req>>

Holding == {"recheck", "stopOld", "stopNow", "loading", "publish", "start", "spawn",
            "wait", "abort", "aborted", "failed", "clear", "ready"}

PCs == Holding \cup
       {"idle", "running", "active", "lookup", "acquire", "proxy", "send", "remote",
        "tryAcquire", "unloadStop", "unloadSet", "unloadClear",
        "deleteNil", "deleteStop", "deleteClear"}

\* name is what the client sent, model the catalogue entry it resolved to, and
\* own the receiver of the Start call.
RequestRecord ==
    [pc : PCs, op : AllOps \cup {"none"}, name : Names \cup {NoModel},
     model : Models \cup {NoModel}, own : Procs \cup {NoProc}]

TypeOK ==
    /\ RegistryTypeOK
    /\ ProcTypeOK
    /\ llama \in Procs \cup {NoProc}
    /\ sem \in Threads \cup {NoThread}
    /\ req \in [Threads -> RequestRecord]

NoRequest == [pc |-> "idle", op |-> "none", name |-> NoModel, model |-> NoModel,
              own |-> NoProc]

Init ==
    /\ RegistryInit
    /\ proc = [p \in Procs |-> NewProcess(NoModel)]
    /\ llama = NoProc
    /\ sem = NoThread
    /\ req = [t \in Threads |-> NoRequest]

pc(t)   == req[t].pc
name(t) == req[t].name

Begin(t, op, n, m, to) ==
    /\ pc(t) = "idle"
    /\ op \in Ops
    /\ req' = [req EXCEPT ![t] =
                  [pc |-> to, op |-> op, name |-> n, model |-> m, own |-> NoProc]]

Goto(t, from, to) == pc(t) = from /\ req' = [req EXCEPT ![t].pc = to]

Finish(t, from) == pc(t) = from /\ req' = [req EXCEPT ![t] = NoRequest]

Release(t) == sem' = IF sem = t THEN NoThread ELSE sem

\* Recoverer: the request is over, deferred calls have run, nothing else is undone.
Panic(t, from) ==
    /\ Finish(t, from)
    /\ Release(t)
    /\ UNCHANGED <<registryVars, proc, llama>>

-----------------------------------------------------------------------------
(* handleChatCompletion *)

ChatBegin(t, n) ==
    /\ \E m \in Get(n) :
          Begin(t, "chat", n, m, IF m \in Local THEN "running" ELSE "remote")
    /\ UNCHANGED <<registryVars, proc, llama, sem>>

\* needsLoad, first half: is any llama-server running?
ChatCheckRunning(t) ==
    /\ Goto(t, "running",
            IF llama # NoProc /\ IsRunning(llama) THEN "active" ELSE "lookup")
    /\ UNCHANGED <<registryVars, proc, llama, sem>>

\* needsLoad, second half: is it the model of this request?
ChatCheckActive(t) ==
    /\ Goto(t, "active", IF active = name(t) THEN "proxy" ELSE "lookup")
    /\ UNCHANGED <<registryVars, proc, llama, sem>>

\* proxyToLocal reads the address out of the process object ...
ProxyToLocal(t) ==
    /\ llama # NoProc
    /\ Goto(t, "proxy", "send")
    /\ UNCHANGED <<registryVars, proc, llama, sem>>

ProxyPanic(t) == llama = NoProc /\ Panic(t, "proxy")

\* ... and then the request goes to whichever server holds the port; with none
\* the client gets 502.
Serving == {q \in Procs : proc[q].server = "serving"}

SendToPort(t) == Finish(t, "send") /\ UNCHANGED <<registryVars, proc, llama, sem>>

\* Another host's business, whatever it answers.
ProxyToRemote(t) == Finish(t, "remote") /\ UNCHANGED <<registryVars, proc, llama, sem>>

-----------------------------------------------------------------------------
(* loadModel up to the point it shares with handleLoadModel *)

\* The name is looked up afresh; a model filed as ready needs no load.
LazyLookup(t) ==
    /\ pc(t) = "lookup"
    /\ \E m \in Get(name(t)) :
          IF m \notin Local THEN Finish(t, "lookup")
          ELSE Goto(t, "lookup", IF status[m] = "ready" THEN "proxy" ELSE "acquire")
    /\ UNCHANGED <<registryVars, proc, llama, sem>>

\* Mutant: a chat does not wait for the semaphore.
LazyAcquireUnguarded(t) ==
    /\ Goto(t, "acquire", "recheck")
    /\ sem' = t
    /\ UNCHANGED <<registryVars, proc, llama>>

\* A blocking send on llamaMu.
LazyAcquire(t) ==
    /\ sem = NoThread
    /\ Goto(t, "acquire", "recheck")
    /\ sem' = t
    /\ UNCHANGED <<registryVars, proc, llama>>

\* Mutant: no second look at the status.
LazyNoRecheck(t) ==
    /\ pc(t) = "recheck"
    /\ \E m \in Get(name(t)) :
          req' = [req EXCEPT ![t].pc = "stopOld", ![t].model = m]
    /\ UNCHANGED <<registryVars, proc, llama, sem>>

\* Another goroutine may have loaded the model while this one waited.
LazyRecheck(t) ==
    /\ pc(t) = "recheck"
    /\ \E m \in Get(name(t)) :
          IF status[m] = "ready"
          THEN Goto(t, "recheck", "proxy") /\ Release(t)
          ELSE /\ req' = [req EXCEPT ![t].pc = "stopOld", ![t].model = m]
               /\ UNCHANGED sem
    /\ UNCHANGED <<registryVars, proc, llama>>

-----------------------------------------------------------------------------
(* handleLoadModel up to that point *)

LoadBegin(t, n) ==
    /\ \E m \in Get(n) \cap Local :
          status[m] # "ready" /\ Begin(t, "load", n, m, "tryAcquire")
    /\ UNCHANGED <<registryVars, proc, llama, sem>>

\* The select: take the semaphore, or answer 409 at once.
LoadTryAcquire(t) ==
    /\ IF sem = NoThread THEN Goto(t, "tryAcquire", "stopOld") /\ sem' = t
       ELSE Finish(t, "tryAcquire") /\ UNCHANGED sem
    /\ UNCHANGED <<registryVars, proc, llama>>

-----------------------------------------------------------------------------
(* The load itself, under the semaphore: the same statements in both paths *)

LoadCheckOld(t) ==
    /\ Goto(t, "stopOld",
            IF llama # NoProc /\ IsRunning(llama) THEN "stopNow" ELSE "loading")
    /\ UNCHANGED <<registryVars, proc, llama, sem>>

\* s.llama.Stop(): every call site reads the pointer again, and it may be nil by now.
StopLlama(t, from, to) ==
    /\ Goto(t, from, to)
    /\ llama # NoProc
    /\ Stop(llama)
    /\ UNCHANGED <<registryVars, llama, sem>>

StopLlamaPanic(t, from) ==
    /\ llama # NoProc => StopPanics(llama)
    /\ Panic(t, from)

LoadStopOld(t)      == StopLlama(t, "stopNow", "loading")
LoadStopOldPanic(t) == StopLlamaPanic(t, "stopNow")

LoadSetLoading(t) ==
    /\ Goto(t, "loading", "publish")
    /\ SetStatus(name(t), "loading")
    /\ UNCHANGED <<proc, llama, sem>>

\* Slots the next New may use.  The slot llama points at is one of them: the
\* assignment drops the last reference to what it held.
Garbage == {p \in Procs : Collectable(p) /\ \A u \in Threads : req[u].own # p}

\* s.llama = llama.New(cfg): visible to every handler before it is started.
LoadPublish(t) ==
    /\ Goto(t, "publish", "start")
    /\ \E p \in Garbage :
          /\ proc' = [proc EXCEPT ![p] = NewProcess(req[t].model)]
          /\ llama' = p
    /\ UNCHANGED <<registryVars, sem>>

\* s.llama.Start(ctx): the receiver is what the pointer holds now.
LoadStart(t) ==
    /\ pc(t) = "start"
    /\ llama # NoProc
    /\ StartLocked(llama)
    /\ req' = [req EXCEPT ![t].pc = "spawn", ![t].own = llama]
    /\ UNCHANGED <<registryVars, llama, sem>>

LoadStartPanic(t) == llama = NoProc /\ Panic(t, "start")

LoadSpawn(t) ==
    /\ \/ Goto(t, "spawn", "wait") /\ SpawnOk(req[t].own)
       \/ Goto(t, "spawn", "failed") /\ SpawnFails(req[t].own)
    /\ UNCHANGED <<registryVars, llama, sem>>

LoadServerReady(t) ==
    /\ Goto(t, "wait", "ready")
    /\ TakeReady(req[t].own)
    /\ UNCHANGED <<registryVars, llama, sem>>

LoadServerFailed(t) ==
    /\ Goto(t, "wait", "failed")
    /\ TakeError(req[t].own)
    /\ UNCHANGED <<registryVars, llama, sem>>

\* 180 seconds, or for handleLoadModel the client that went away.
LoadExpired(t) ==
    /\ Goto(t, "wait", "abort")
    /\ UNCHANGED <<registryVars, proc, llama, sem>>

LoadAbort(t) ==
    /\ Goto(t, "abort", "aborted")
    /\ AbortClose(req[t].own)
    /\ UNCHANGED <<registryVars, llama, sem>>

LoadAbortPanic(t) ==
    /\ Finish(t, "abort")
    /\ proc[req[t].own].stopCh
    /\ proc' = [proc EXCEPT ![req[t].own].poll = "off"]
    /\ Release(t)
    /\ UNCHANGED <<registryVars, llama>>

\* Mutant: the time-out arm of the select falls through to "return nil".
LoadAbortedReturnsNil(t) ==
    /\ Goto(t, "aborted", "ready")
    /\ AbortStopped(req[t].own)
    /\ UNCHANGED <<registryVars, llama, sem>>

LoadAborted(t) ==
    /\ Goto(t, "aborted", "failed")
    /\ AbortStopped(req[t].own)
    /\ UNCHANGED <<registryVars, llama, sem>>

\* Mutant: a failed load is not filed.
LoadForgetsError(t) ==
    /\ Goto(t, "failed", "clear")
    /\ UNCHANGED <<registryVars, proc, llama, sem>>

\* Mutant: the semaphore is given back as soon as Start has failed.
LoadReleasesEarly(t) ==
    /\ Goto(t, "failed", "clear")
    /\ SetStatus(name(t), "error")
    /\ Release(t)
    /\ UNCHANGED <<proc, llama>>

LoadSetError(t) ==
    /\ Goto(t, "failed", "clear")
    /\ SetStatus(name(t), "error")
    /\ UNCHANGED <<proc, llama, sem>>

\* Mutant: the failed process stays in the pointer.
LoadKeepsPointer(t) ==
    /\ Finish(t, "clear")
    /\ Release(t)
    /\ UNCHANGED <<registryVars, proc, llama>>

\* Mutant: no deferred receive on the error path.
LoadKeepsSemaphore(t) ==
    /\ Finish(t, "clear")
    /\ llama' = NoProc
    /\ UNCHANGED <<registryVars, proc, sem>>

\* s.llama = nil and, as the function returns, the semaphore.
LoadClear(t) ==
    /\ Finish(t, "clear")
    /\ llama' = NoProc
    /\ Release(t)
    /\ UNCHANGED <<registryVars, proc>>

\* A lazy load goes on to proxy the chat it was made for.
LoadSetReady(t) ==
    /\ pc(t) = "ready"
    /\ IF req[t].op = "chat"
       THEN req' = [req EXCEPT ![t].pc = "proxy", ![t].own = NoProc]
       ELSE Finish(t, "ready")
    /\ SetStatus(name(t), "ready")
    /\ Release(t)
    /\ UNCHANGED <<proc, llama>>

-----------------------------------------------------------------------------
(* handleUnloadModel and handleDeleteModel: without the semaphore *)

UnloadBegin(t, n) ==
    /\ llama # NoProc /\ IsRunning(llama)
    /\ Begin(t, "unload", n, NoModel, "unloadStop")
    /\ UNCHANGED <<registryVars, proc, llama, sem>>

UnloadStop(t)      == StopLlama(t, "unloadStop", "unloadSet")
UnloadStopPanic(t) == StopLlamaPanic(t, "unloadStop")

\* The status of the name in the request, whatever model was running.
UnloadSetStatus(t) ==
    /\ Goto(t, "unloadSet", "unloadClear")
    /\ SetStatus(name(t), "unloaded")
    /\ UNCHANGED <<proc, llama, sem>>

UnloadClear(t) ==
    /\ Finish(t, "unloadClear")
    /\ llama' = NoProc
    /\ UNCHANGED <<registryVars, proc, sem>>

DeleteBegin(t, n) ==
    /\ active = n
    /\ Begin(t, "delete", n, NoModel, "deleteNil")
    /\ UNCHANGED <<registryVars, proc, llama, sem>>

DeleteCheckNil(t) ==
    /\ IF llama = NoProc THEN Finish(t, "deleteNil")
       ELSE Goto(t, "deleteNil", "deleteStop")
    /\ UNCHANGED <<registryVars, proc, llama, sem>>

DeleteStop(t)      == StopLlama(t, "deleteStop", "deleteClear")
DeleteStopPanic(t) == StopLlamaPanic(t, "deleteStop")

\* The registry is not told.
DeleteClear(t) ==
    /\ Finish(t, "deleteClear")
    /\ llama' = NoProc
    /\ UNCHANGED <<registryVars, proc, sem>>

-----------------------------------------------------------------------------
RequestArrives(t) ==
    \E n \in Names : \/ ChatBegin(t, n)
                     \/ LoadBegin(t, n)
                     \/ UnloadBegin(t, n)
                     \/ DeleteBegin(t, n)

ChatStep(t) ==
    \/ ChatCheckRunning(t) \/ ChatCheckActive(t)
    \/ ProxyToLocal(t) \/ ProxyPanic(t) \/ SendToPort(t) \/ ProxyToRemote(t)
    \/ LazyLookup(t) \/ LazyAcquire(t) \/ LazyRecheck(t)

LoadStep(t) ==
    \/ LoadTryAcquire(t) \/ LoadCheckOld(t) \/ LoadStopOld(t) \/ LoadStopOldPanic(t)
    \/ LoadSetLoading(t) \/ LoadPublish(t) \/ LoadStart(t) \/ LoadStartPanic(t)
    \/ LoadSpawn(t) \/ LoadServerReady(t) \/ LoadServerFailed(t)
    \/ LoadExpired(t) \/ LoadAbort(t) \/ LoadAbortPanic(t) \/ LoadAborted(t)
    \/ LoadSetError(t) \/ LoadClear(t) \/ LoadSetReady(t)

UnloadStep(t) ==
    \/ UnloadStop(t) \/ UnloadStopPanic(t) \/ UnloadSetStatus(t) \/ UnloadClear(t)

DeleteStep(t) ==
    \/ DeleteCheckNil(t) \/ DeleteStop(t) \/ DeleteStopPanic(t) \/ DeleteClear(t)

ThreadStep(t) == ChatStep(t) \/ LoadStep(t) \/ UnloadStep(t) \/ DeleteStep(t)

ProcessStep(p) ==
    /\ PollOk(p) \/ PollErr(p) \/ MonitorWait(p) \/ MonitorFail(p) \/ Bind(p) \/ Exit(p)
    /\ UNCHANGED <<registryVars, llama, sem, req>>

Next ==
    \/ \E t \in Threads : RequestArrives(t) \/ ThreadStep(t)
    \/ \E p \in Procs : ProcessStep(p)

Spec == Init /\ [][Next]_vars

\* The Go scheduler runs every runnable goroutine.  A blocked send on a channel
\* is served in arrival order, so a chat that waits for the semaphore gets it
\* when it is given back again and again.  A child that was sent SIGTERM, or
\* finds its port taken, exits; one that finds it free comes to listen on it.
ChildSettles(p) ==
    (Bind(p) \/ ExitDue(p)) /\ UNCHANGED <<registryVars, llama, sem, req>>

MonitorRuns(p) ==
    (MonitorWait(p) \/ MonitorFail(p)) /\ UNCHANGED <<registryVars, llama, sem, req>>

Fairness ==
    /\ \A t \in Threads : WF_vars(ThreadStep(t)) /\ SF_vars(LazyAcquire(t))
    /\ \A p \in Procs : WF_vars(ChildSettles(p)) /\ WF_vars(MonitorRuns(p))

FairSpec == Spec /\ Fairness

-----------------------------------------------------------------------------
(* Safety *)

\* The semaphore does what llamaMu is for: the handler code between acquiring
\* and giving it back is run by its holder alone, and a process object is being
\* started, or polled for readiness, only on behalf of that holder.
OnlyHolderStarts ==
    /\ \A t \in Threads : pc(t) \in Holding <=> sem = t
    /\ \A p \in Procs : proc[p].state = "starting" \/ proc[p].poll # "off" =>
          \E t \in Threads : sem = t /\ req[t].own = p

\* From publishing its process until it gives the semaphore back, a loader
\* finds in the pointer its own process or nil (after an unload or a delete),
\* so neither its Start nor its final nil ever hits the process of a later load.
LoaderOwnsPointer ==
    \A t \in Threads :
        pc(t) \in {"spawn", "wait", "abort", "aborted", "failed", "clear", "ready"} =>
            req[t].own # NoProc /\ llama \in {req[t].own, NoProc}

\* The active model is filed as ready, or as loading while it is loaded again:
\* an unload or a failed load takes both away together.
ActiveStatusAgree ==
    active # NoModel => active \in Local /\ status[active] \in {"ready", "loading"}

\* Outside a load the pointer only shows a process whose Start succeeded, or
\* one that a handler has stopped and is about to clear.
FailedStartNotPublished ==
    sem = NoThread /\ llama # NoProc =>
        \/ proc[llama].monitor # "off"
        \/ \E t \in Threads : pc(t) \in {"unloadSet", "unloadClear", "deleteClear"}

\* Double-checked locking: a chat that waited while another request loaded the
\* model it wants never stops that server to load the model once more.
LazyNeverReloadsReady ==
    \A t \in Threads :
        req[t].op = "chat" /\ pc(t) \in Holding \ {"recheck", "ready"}
            /\ name(t) \in Models => status[name(t)] # "ready"

-----------------------------------------------------------------------------
(* What chats and loads alone guarantee: with Ops = {"chat", "load"} *)

\* A model shows as loading exactly while some thread is loading it, so a
\* status read over the API is never a load that nobody will finish.
LoadingHasLoader ==
    \A m \in Local : status[m] = "loading" <=>
        \E t \in Threads : name(t) = m /\
            pc(t) \in {"publish", "start", "spawn", "wait", "abort", "aborted",
                       "failed", "ready"}

\* The semaphore is given back only where loadModel and handleLoadModel return,
\* never by a panic in the middle of a load.
HolderNeverPanics ==
    [][\A t \in Threads : sem = t /\ sem' # t => pc(t) \in {"recheck", "clear", "ready"}]_vars

\* Between loads, the process in the pointer was never told to stop.
PublishedNotStopped ==
    sem = NoThread /\ llama # NoProc =>
        ~proc[llama].stopCh /\ proc[llama].state \in {"running", "failed"}

-----------------------------------------------------------------------------
(* Liveness, under FairSpec *)

\* Every request is answered: whatever fails, panics or is stopped underneath
\* it, and however many other loads come in between.
EveryRequestAnswered == \A t \in Threads : pc(t) # "idle" ~> pc(t) = "idle"

-----------------------------------------------------------------------------
(* What the comments and names in the code say, and the code does not do *)

\* handlers.go:256 "Check if the current llama process serves the requested
\* model": when a chat for a local model id is past that check and the load it
\* calls for, and reads the address to send to, the process in the pointer is
\* one of that model.  (Which child answers on the port is another matter:
\* StartReturnsOnceReady.)
ChatFindsItsModel ==
    [][\A t \in Threads : pc(t) = "proxy" /\ pc(t)' = "send" /\ name(t) \in Models =>
          proc[llama].weights = name(t)]_vars

\* handlers.go:253 "Lazy-load the model if not running or wrong model is loaded":
\* a chat that found no running server and goes on to the proxy without loading
\* has meanwhile been given one by another request.
LazyLoadsIfNotRunning ==
    [][\A t \in Threads : pc(t) = "lookup" /\ pc(t)' = "proxy" =>
          llama # NoProc /\ IsRunning(llama)]_vars

\* models.go:73 "ActiveModel is the currently loaded local model, if any":
\* when no request is under way, a process of that model is in the pointer.
ActiveModelIsLoaded ==
    (\A t \in Threads : pc(t) = "idle") /\ active # NoModel =>
        llama # NoProc /\ proc[llama].weights = active

\* process.go:102 "It returns once the server is ready to accept requests": it
\* is this process's own child that has become ready.
StartReturnsOnceReady ==
    [][\A p \in Procs : proc[p].state = "starting" /\ proc'[p].state = "running" =>
          proc[p].server # "spawned"]_vars
=============================================================================
