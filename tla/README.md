# LLM Studio: a TLA+ model

LLM Studio is a set of Go services around language models: `llm-gateway` serves
an OpenAI-like API over one local `llama-server` and several remote providers,
`agent-runner` keeps coding agents in Docker containers and opens terminals and
web interfaces on them, and `auth-bridge` signs portal users in to Open WebUI.
This directory holds TLA+ modules for the parts of these services that keep
state, TLC configurations that check them on small instances, and proofs, checked
by TLAPS, of every invariant that the configurations check, of the action
properties and of the refinements, for all values of the constants.

All paths below are relative to `src/code/` unless they say otherwise.

## 1. Inventory

### llm-gateway

| Part | State | Operations |
|---|---|---|
| API server, `internal/api/handlers.go` | `Server.llama`, a pointer to the current process object, under no lock; `Server.llamaMu`, a channel of capacity one used as a semaphore | `handleChatCompletion` with `loadModel`, `proxyToLocal`, `proxyToRemote`; `handleLoadModel`, `handleUnloadModel`, `handleDeleteModel`; reads: model list, model, status, health |
| Model registry, `internal/models/models.go` | one record per model with its status; `ActiveModel` | `Get` (exact, then any suffix match in random map order), `SetStatus`, `GetActiveModel`, scan and registration at start |
| llama process, `internal/llama/process.go` | `state`, `cmd`, `stopCh` of every `Process`; the child; the port 8080 they all use | `Start`, `Stop`, `stop`, `IsRunning`; goroutines `pollForReady`, `monitorProcess` |
| main, `cmd/main.go`, `internal/config` | the HTTP server; the auto-load's count of attempts | registration of models at start, auto-load of a default model through its own HTTP API, shutdown |

Every request is a goroutine. The load paths take the semaphore, `handleUnloadModel`
and `handleDeleteModel` do not, and all four write the pointer. What is hard
here: check-then-act on the pointer, the status and the semaphore; a process
published before it is started; a start that times out while somebody else stops
the process; children that outlive a failed start and sit on the port; three
records of "what is loaded" (pointer, status, active model) that are written one
after the other. It is correct when one load runs at a time and is not disturbed
by another one, when the three records agree, when failures leave nothing half
loaded, and when every request is answered. In main, the auto-load competes with
clients for the semaphore and takes a refusal for an error, and the shutdown runs
in a goroutine that nobody waits for: it is correct when the attempts come to an
end and a signal ends the process.

### agent-runner

| Part | State | Operations |
|---|---|---|
| Session handlers, `cmd/main.go` | none of their own | create, delete, reconnect, terminal, stop, pause, resume, kill; shutdown goroutine |
| Session store, `internal/session/store.go` | SQLite table `sessions` | `Save`, `UpdateStatus`, `Delete`, reads |
| Docker manager, `internal/docker/manager.go`, `metrics.go` | none: containers, found by label, and workspace directories | `CreateSession`, `DestroySession`, `ReconnectSession`, `AttachTerminal`, controls, `CleanupAll` |
| pi-web proxies, `internal/docker/piweb.go` | registry of listeners, its mutex, ten host ports | `StartPiWeb`, `GetPiWebStatus`, `StopAllPiWebProxies` (`StopPiWeb` has no caller) |
| Terminal, `AttachTerminal` in `manager.go` | a WebSocket, an exec of Docker, two goroutines, a channel for their errors | attach with fallbacks and a peek at the first output, copying both ways, resize |
| Tracing, `internal/tracing/tracer.go` | a buffer of 500 events | `TraceFn` pushes, a failed call drains and reports |
| Model catalogue, `internal/models/models.go` | none | merges the gateway's list with two models of its own |

A session is a row, a container and a directory, and nothing updates them
together. What is hard: Docker calls that fail after the daemon has done the
work; handlers that overtake one another between their Docker call and their
row; a crash or a shutdown between two steps; a mutex that is unlocked twice; a
port that is probed and bound later; an exec whose answer is awaited without a
deadline; a container that starts again elsewhere under an open proxy; a terminal whose two
goroutines and handler wait for one another; a trace buffer that all requests share. It is correct when a
container can always be accounted for, deletions and shutdowns are final,
workspaces survive, a status that is wrong has a cause, a registered proxy is open,
none is ever opened on another session's container, a terminal shows every byte once and ends when either
side does, no trace is reported twice, and the merged list has every model once.

### auth-bridge, agent images, deployment

`auth-bridge/cmd/main.go` validates a portal session for each request, writes the
user into Open WebUI's SQLite file without a transaction, and caches a sign-in
cookie for ever. What is hard: concurrent first requests of one user; a statement
that fails, or a restart, between the two tables; a role read before it changed and
written after. It is correct when the tables agree unless a failure explains it,
roles follow the portal's, and no cookie reaches another user. The agent images are entrypoint scripts, the deployment is
Compose and nginx configuration; neither keeps state of its own.

### How they interact

Agents talk to the gateway over HTTP like any other client; the agent-runner asks
it for its model list. Sessions and proxies share containers: a proxy is started
for a session whose container runs, and nothing tells the proxy when that
container stops or its session is deleted. Handlers and proxies live in one
process: a fatal error of the one ends the other, and the shutdown stops the proxies
first. The services share no memory.

## 2. Modules

| Module | Models | Extends |
|---|---|---|
| `ModelRegistry` | the registry | |
| `LlamaProcess` | `Process` objects, children, the port | |
| `LlamaGateway` | the handlers over both: the composition | `ModelRegistry`, `LlamaProcess` |
| `ModelLoader` | what loading a model promises: the abstract specification | |
| `GatewayLoader` | the refinement mapping from the handlers to `ModelLoader` | `LlamaGateway`, instance of `ModelLoader` |
| `ModelCatalogue` | registration at the gateway, and the list the agent-runner makes of it | |
| `GatewayMain` | the life of the gateway process: start, auto-load, chats, shutdown | `ModelCatalogue`, instance of `ModelLoader` |
| `AgentSessions` | handlers, rows, containers, workspaces, shutdown, crash | |
| `SessionStatus` | beside it, when the status in a row is that of the container | `AgentSessions` |
| `PiWebProxy` | proxies, mutex, ports | |
| `AgentHost` | the agent-runner as one process, with the containers' addresses | instances of `AgentSessions` and `PiWebProxy` |
| `Terminal` | one terminal: handler, goroutines, command, client | |
| `TraceBuffer` | traced calls, buffer, reports | |
| `AuthBridge` | validation, provisioning, sign-in, cookie cache | |
| `MC...` | constants, symmetry and view for TLC | the module named |
| `LlamaGatewayProofs` | processes, types, the inductive invariant; then chats and loads alone, and the refinement of `ModelLoader` | `GatewayLoader` |
| `GatewayMainProofs` | the merged list; the gateway's own life | `GatewayMain` |
| `AgentSessionsProofs` | sessions and their status | `SessionStatus` |
| `AgentHostProofs` | what the composition adds, and that what is proved of either component holds in it | `AgentHost`, instances of `AgentSessionsProofs` and `PiWebProxyProofs` |
| `TerminalProofs` | inductive invariant and theorems | `Terminal` |
| `PiWebProxyProofs` | inductive invariant and theorems | `PiWebProxy` |
| `TraceBufferProofs` | inductive invariant and theorems | `TraceBuffer` |
| `AuthBridgeProofs` | inductive invariant and theorems | `AuthBridge` |

Definitions keep the names of the code where that is possible. A definition whose
comment starts with "Mutant:" is not part of a specification: it is a plausible
bug in the definition after it, kept to show that a property notices it.

### LlamaGateway

`req[t]` is the request that goroutine `t` serves: where it is (`pc`), the route,
the name the client sent, the model it resolved to, and the process it is
starting. A handler is cut at every point where another goroutine can change
something it reads: one action per read or write of shared state.

| Code | Actions |
|---|---|
| `handleChatCompletion` | `ChatBegin`, `ChatCheckRunning`, `ChatCheckActive`, then `LazyLookup` or the proxy |
| `proxyToLocal`, `proxyToRemote` | `ProxyToLocal` or `ProxyPanic` (nil), `SendToPort`; `ProxyToRemote` |
| `loadModel` | `LazyLookup`, `LazyAcquire`, `LazyRecheck`, then the common load |
| `handleLoadModel` | `LoadBegin`, `LoadTryAcquire`, then the common load |
| the common load | `LoadCheckOld`, `LoadStopOld`, `LoadSetLoading`, `LoadPublish`, `LoadStart`, `LoadSpawn`, `LoadServerReady` / `LoadServerFailed` / `LoadExpired`, `LoadAbort`, `LoadAborted`, `LoadSetError`, `LoadClear`, `LoadSetReady` |
| `handleUnloadModel` | `UnloadBegin`, `UnloadStop`, `UnloadSetStatus`, `UnloadClear` |
| `handleDeleteModel` | `DeleteBegin`, `DeleteCheckNil`, `DeleteStop`, `DeleteClear` |
| nil dereference, second `close(stopCh)` | `ProxyPanic`, `LoadStartPanic`, `LoadStopOldPanic`, `UnloadStopPanic`, `DeleteStopPanic`, `LoadAbortPanic` |

Two pieces of the environment matter and are modelled: a panic ends only its
request (chi's `Recoverer` answers 500, the deferred receive gives the semaphore
back), and all children listen on one port, so a health request or a chat is
answered by whichever child holds it.

### LlamaProcess

`proc[p]` is a `Process` object together with its child. `Start` is cut where its
locks and its `select` let others run: `StartLocked`, `SpawnOk`/`SpawnFails`, then
one arm of the select. The arm for a time-out calls `stop()` without `p.mu`, so
`AbortClose` and `AbortStopped` are two steps. `MonitorWait` and `MonitorFail` are
the read and the write of `monitorProcess`, which are two critical sections.

### AgentSessions

`row`, `docker` and `workspace` are the three places a session lives in. Every
Docker call has three outcomes (`CallOk`, `CallRefused`, `CallLost`): done; refused,
because the container is gone or in the wrong state; or an error for the caller,
whether or not the daemon has done the work. `hurt` is a history variable: the
sessions such an error, a failed INSERT or a crash has touched. `HandlersDie` ends
all handlers where they are and leaves rows, containers and directories.

### PiWebProxy

`registry` maps a session to a listener, `sock` a listener to its port, the
session it was opened for, and whether its accept loop runs. The Go mutex is a
Boolean without an owner: any goroutine's `Unlock` frees it, and `Unlock` of a free
mutex ends the process (`ProcessGone`), which Docker starts again (`Exit`).
`overlapped` is a history variable.

| Code | Actions |
|---|---|
| `StartPiWeb` up to the port | `StartBegin`, `StartLock`, `FoundProxy` or `FoundNone`, `Healthy` or `Unhealthy`, `CloseOld`, `DeleteOld`, `StartUnlock` |
| `findFreePiWebPort` | `TryPort`, which binds a port for a moment, and `CloseProbe`; `NextPort`, `NoPortFree` |
| the rest of `StartPiWeb` | `Launch` or `LaunchFails`, `Ready` or `NotReady`, `Listen` or `ListenFails`, `RegisterLock`, `Register` |
| `GetPiWebStatus` | `StatusBegin`, `StatusLock`, `StatusUnlock` or `StatusFound`, `StatusHealth` |
| `runPiWebProxy` | `AcceptFails` ends the loop; what it forwards is left out |
| `StopAllPiWebProxies` | `StopBegin`, `StopLock`, `StopClose` and `StopDelete` for each entry the range produces, `StopUnlock` |
| fatal errors | `FoundProxyFatal`, `StartUnlockFatal`, `RegisterFatal`, `StatusUnlockFatal`, `StopUnlockFatal` (unlock of a free mutex); `MapRaceFatal` (a write of the map beside another access) |

`CloseOld` and `DeleteOld` run without the mutex, as in the code, also in the middle of
another request's critical section or of the loop of the shutdown. `StopClose` takes any
entry that is there, one added during the loop perhaps, which is what Go's range over
a map permits; those that were there when it began are in `left` until it has come to them.

### ModelLoader and GatewayLoader

`ModelLoader` has four variables (what the API shows of every model, the active
model, the model being loaded, the model whose process is in the pointer) and five
actions. The mapping is in `GatewayLoader`: the model being loaded is the name the
holder of the semaphore carries between `LoadSetLoading` and the end of the load,
the current model is the weights of the process in the pointer. `LoadSetLoading` is
`BeginLoad`, `LoadPublish` is `Launch`, `LoadSetReady` is `Succeed`, `LoadSetError` is
`Fail`, `LoadClear` is `GiveUp`; everything else stutters. Unloads and deletes do not
implement it, and neither does a load by a suffix of an id, which is filed nowhere.

### GatewayMain and ModelCatalogue

| Code | Actions |
|---|---|
| `NewRegistry`, `registerRemoteModels` | `Register`: `Scan`, then one `registerRemoteModels` per provider, with a key or without |
| the auto-load goroutine | `AutoPost` or `AutoPostFails`, `AutoCheck`, `AutoTryAcquire`, `AutoBegin`, `AutoAnswered`; `Retry` ends an attempt |
| chats, for what they do to the loader | `ChatArrives`, `ChatAcquire`, `ChatRecheck`, `ChatLoaded`, `ChatEnds` |
| `ListenAndServe` | `Listen`, `ListenFails`, `MainReturns` |
| the shutdown goroutine | `Signal`, `Shutdown`, `GraceOver` |

Loads are those of `ModelLoader`, so that the module says what main adds and not what
`GatewayLoader` has shown. `List`, `fetchLocalModels` and `FetchModels` are operators
over the registered models: the agent-runner may ask at any time.

### SessionStatus and AgentHost

`SessionStatus` adds one history variable to `AgentSessions`: the sessions whose
container moved for nobody who writes the row, whose write was lost, or for which
two requests overlapped.

`AgentHost` is the process. `SessionStep`, `WebStep`, `WebFatal` and `ProcessEnds` take
their control from the two components and say what it does to the other one: a fatal
error of a proxy ends the session handlers too (`HandlersDie`), the containers are listed
for removal once the proxies are stopped, and the process may be killed at any time,
idle or not. Its own state are the addresses. `ContainersMove` gives a container that
comes to life a free address and takes it back when it ends, by a handler or by itself
(`ContainerDies`), and tells no proxy. `WebRequest` reads the address of the session's running
container (`seen`, the code's `containerIP`), `WebListen` gives it to the new listener
(`target`, `targetAddr`). `outlived` is a history variable: the requests and listeners whose
session's container has ended since.

### Terminal

The handler is `List`, `Restart`, then up to three times `ExecCreate`, `ExecAttach` and a
peek (`PeekOutput`, `PeekError`, `PeekSilence`), then `HandlerReturns`. The goroutine from
the container to the socket is `ReadOutput`, `WriteOutput`, `ReportOutput`, the other one
`ReadFrame`, `WriteInput`, `Resize`, `ReportInput`. Output is counted in chunks. The
request's context, which `middleware.Timeout` cancels after 60 seconds, is a Boolean.

### TraceBuffer

A call and its event are one value, because every route makes one traced call.
`FnSucceeds` and `FnFails` push, `Drain` is the second critical section of a failed
call, `Post` the fate of its report. `pushed` is a history variable.

### AuthBridge

One action per statement of `provisionUserDB`, each with its failure: `SelectFinds`,
`SelectFindsNone`, `OpenFails`, `UpdateRole`, `InsertUser`, `InsertAuth`. Then `LookupToken`,
`SigninSucceeds` or `SigninFails`, `StoreToken`, `Serve`. `AccountChanges` and `TokenDies`
are the portal's and Open WebUI's; `Restart` loses requests and cache. That two users
never share an address, and that the id is the key of Open WebUI's user table, are
assumptions about those programs.

## 3. Runs

| Run | Instance | Shows |
|---|---|---|
| `gateway_safety` | 2 local models, 2 requests of every kind, 2 processes | `OnlyHolderStarts`, `LoaderOwnsPointer`, `ActiveStatusAgree`, `FailedStartNotPublished`, `LazyNeverReloadsReady`: what the semaphore protects stays intact, although unload and delete ignore it, time-outs stop processes that others stop too, and handlers panic |
| `gateway_loads` | the same with a remote model and an alias, chats and loads only | `LoadingHasLoader`, `PublishedNotStopped`, `HolderNeverPanics`: without unload and delete every load runs to its end and leaves no trace of a failure |
| `gateway_liveness` | 1 local model, 2 chats or loads, 2 processes | `EveryRequestAnswered`; `LoaderSpec`: chats and loads implement `ModelLoader` |
| `gateway_main` | 3 ids, 2 providers, 3 attempts, 1 chat | `AutoLoadEnds`, `SignalEnds`: the retries and the process end; `NoIdTwice`, `EveryModelListed`: the merged list has every registered model once |
| `gateway_wrong_model` | 2 local models, 1 chat at a time | violated: after chats for one model, another, and the first again, the third is sent on with the second model's process in the pointer |
| `sessions_safety` | 2 sessions with one container name, 2 requests | `SavedWorkspaceSurvives`, `DeletedStaysDeleted`, `NoUnexplainedLeak`, `ShutdownRemovalsHold`, `StatusExplained`: with lost answers, crashes and shutdowns, every leak and every wrong status has a cause, a deleted session stays deleted, and nothing that is under way brings a container back that the shutdown has removed |
| `sessions_name_collision` | 2 sessions, 1 request at a time | violated: creating a session removes the running container of another |
| `piweb_proxies` | 1 session, 2 ports, 4 listeners, 2 requests, the shutdown | `RegisteredIsOpen`, `LeakNeedsOverlap`: what the registry names is open, and only overlapping starts, or a start beside the shutdown, leak a listener; `EveryRequestEnds`: no request waits for the mutex for ever, also while another one hangs at an exec; `ProxiesGetStopped`: a signal gets every proxy stopped or the process ends |
| `host_safety` | 2 sessions, 1 create, 1 pi-web request, 2 ports, 2 addresses | `ForwardsToOwnUnlessOutlived`: a proxy leads to another session's container only if its own one has ended since the address was read |
| `terminal` | 2 chunks of output, 1 frame of input | `OutputInOrder`, `EndsWithEitherSide` |
| `trace_safety` | 4 calls, a buffer for 2 events | `BufferIsNewest`, `ReportedOnce`, `OwnEventExplained` |
| `bridge_provisioning` | 1 user, 2 requests, 2 addresses, 1 change of account | `TablesAgree`, `AloneSetsRole`, `RolesConverge` |

Each passing run but two (`gateway_loads` and `gateway_liveness`, whose module
`gateway_safety` covers) and `host_safety` also checks the type invariant of its
module. Each property has a mutant of the code's model that TLC refutes under the
same configuration; they are listed in `PROJECT.json`.

### Where the code does not do what is said

The modules end with properties that a comment, a document or a log line of the
repository states and the code does not have. Two have runs of their own:

* `ChatFindsItsModel`: `handlers.go:256` checks whether the current process serves the
  requested model, and loads it if not; but `loadModel` returns at once for a model
  whose status is ready (`:486`), and the first model's status stays ready when its server
  is stopped for the second one. The run admits chats only, and the failure needs no
  child left over from a failed start: who answers on the port is the question of
  `StartReturnsOnceReady` below.
* `CreateRemovesOnlyFailed`: `manager.go:154` removes a container "from previous failed
  sessions"; but its name is the same for all sessions of about 17 minutes.

TLC refutes each of the others when it takes the place of the properties in the
configuration named:

| Property | Configuration | What is said, and what happens |
|---|---|---|
| `ActiveModelIsLoaded` | `GatewaySafety` | `models.go:73` "the currently loaded local model, if any". `handleUnloadModel` stops whatever runs and files the name in the request (`handlers.go:544`): a model may stay active and ready without a server |
| `StartReturnsOnceReady` | `GatewayWrongModel` | `process.go:102` "returns once the server is ready to accept requests". A failed `Start` leaves its child, which may answer the next one's health check on the common port (`process.go:184`) |
| `LazyLoadsIfNotRunning` | `GatewayWrongModel` | `handlers.go:253` "Lazy-load the model if not running". After a crash the status is still ready, so `loadModel` returns at once (`:486`) |
| `FailedIsNotLoaded` | `GatewayMain` | `cmd/main.go:88` "409 = already loading/loaded". A 409 is retried like an error, and a failure is logged for a model that a chat has loaded |
| `RequestsDrained` | `GatewayMain` | `cmd/main.go:97` "Graceful shutdown". `ListenAndServe` (`:119`) returns as soon as `Shutdown` begins, and main with it |
| `ActiveUnloaded` | `GatewayMain` | `cmd/main.go:105` "Unload any active model". It is only logged |
| `LocalListIsLocal` | `GatewayMain` | agent-runner `models.go:74` "queries the LLM gateway for locally available models". What the gateway has from its providers is returned as Local too (`:121`) |
| `ReconnectRecreates` | `SessionsSafety` | `src/ARCHITECTURE.md:634` "re-creates container, mounts same workspace", and `:247` "agent-runner recreates on reconnect". A reconnect that finds no container is an error (`manager.go:255`); only one that has stopped is started again |
| `RestartGoesOn` | `PiWeb` | `piweb.go:159` "stop proxy, restart below". The path unlocks its mutex twice (`:147`, `:163`), which ends the process |
| `AlreadyRunningIsOpen` | `PiWeb` | `piweb.go:156` "pi-web.dev is already running". The proxy was read before the health check (`:143`); another request, or the shutdown, may have closed it since (`:160`, `:304`) |
| `NotReadyNamesNoOther` | `PiWeb`, with a second session | `piweb.go:251` "not yet ready - try again in a moment", with a URL. The port of the URL was given up after the probe (`:166`), and may by now be that of another session's proxy |
| `RegisteredIsActive` | `PiWeb` | `piweb.go:33` "holds active pi-web.dev TCP proxies". The accept loop ends at the first error (`:315`), and the entry stays |
| `ForwardsToOwnContainer` | `HostSafety` | `piweb.go:25` "forwarding external traffic to an agent container's internal pi-web.dev port". The address is that of the start (`:257`), nothing closes the proxy of a deleted session, and Docker gives its address to another container |
| `PeekTellsMissing` | `Terminal` | `manager.go:350` "Read the first chunk to detect this". Silence for 500 ms counts as success (`:398`), and an agent's own words as a missing command |
| `InputForwarded` | `Terminal` | `agent-runner/PROTOCOL.md:17` "raw binary/text, Forwarded directly to container stdin". A text frame is parsed as control and dropped (`manager.go:472`) |
| `ResizeTriggered` | `Terminal` | `agent-runner/PROTOCOL.md:18` "triggers PTY resize". Not once the request's 60 seconds are over (`manager.go:474`) |
| `ReportOfCurrentGoroutine` | `TraceSafety` | `tracer.go:98` "for the current goroutine's traces". There is one buffer for the process |
| `MissingUserIsInserted` | `Bridge` | `src/SSO-INTEGRATION-GUIDE.md:92` "If not exists: inserts". After a change of address the user is not found, and the id is taken |
| `ProvisionedInBothTables` | `Bridge` | the same sentence, "into user and auth tables". After a failure between the two INSERTs the auth row is never written (`main.go:298`) |
| `CachedTokenIsAccepted` | `Bridge` | `auth-bridge main.go:154` "so the browser has an active session immediately". A dead token is injected until a restart |
| `RowShowsFullName` | `Bridge` | `main.go:69` has a field for the full name, but two fields of that JSON name, so neither is set |

One document disagrees with itself: `src/ARCHITECTURE.md:404-406` draws a DELETE that leads to
a stopped session, and a reconnect that leads back, while `:229` says "Terminate & cleanup".
The code does the latter, and `DeletedStaysDeleted` is stated for it.

### Bounds, and why they are enough

* Request goroutines: two. The interference in question is between one
  handler and one that overtakes it; a third request finds the semaphore or the
  mutex taken, or free. The safety properties of the gateway hold for any number
  by proof. Runs that show a violation use one goroutine on purpose: no
  concurrency is needed.
* `Procs`, the slots for process objects: two. A slot is reused once nothing
  refers to it and neither its child nor a goroutine of it runs (`Collectable`),
  so a run may go through any number of processes, but at most two are alive at
  once; a load that would need a third waits in the model. Two are needed for an
  orphan and its successor. The proofs make no use of this bound.
* Models: two local ones, to have a wrong one; one remote, and one alias
  that matches them all, in `gateway_loads`.
* Sessions: two, for the collision of names, and for an address that goes from one
  container to the other. One in `piweb_proxies`: the mutex and the registry's map are
  the same for all sessions, so what requests do to each other there needs no second one,
  and it is two starts of one session that overwrite each other's entry. That no other
  session's start leads to a leak is by proof.
* Ports: two, so that two starts of one session both get one, the search goes on to the
  next, and they run out once one is leaked. `Socks`, the identities of listeners: one for
  each port and each request there; closed ones nobody refers to are used again.
  `Addresses`: two, so that both sessions have one and either may get the other's. The
  safety properties of sessions, proxies and both together hold for any number of each by
  proof.
* A session id is issued once and `Sessions` is finite, so a behaviour creates at
  most two. This is the only bound of `AgentSessions`. `Routes` of `AgentHost` lets
  a configuration leave operations out, and `host_safety` admits only creates: what matters
  there is that containers start and end, at any moment, and `ContainerDies` ends them.
  The other routes are in `sessions_safety`; the theorems about `AgentHost` admit all.
* `Attempts` of the auto-load: three, for thirty. The first, one in between and the
  last are those that differ; types, list and loads hold for any number by proof. `Ids` and `Providers`: three ids, one of them known to
  two providers and one to the agent-runner too; every set of directories and every
  set of keys is a behaviour.
* `Calls`: four over a buffer for two, so that events are cut off, and that a report
  finds its own event drained or pushed out.
* `Tokens`, each issued once: one; a second sign-in of a behaviour fails, as it may.
  `MaxChanges`: one change of role or address is before or after every step of the
  two requests. One user, because users meet nowhere but in the cache (`CookieIsOwn`
  is proved for any number).
* `MaxOut`: two chunks, the peeked one and one more. `MaxIn`: one frame. Order and
  counts hold for any number of either by proof.
* The safety runs of the gateway use symmetry and a view that identifies states
  that differ only in what no step reads again; each case is named at `Seen` in
  `MCLlamaGateway`. `gateway_safety` and `gateway_loads` check nothing about who
  answers a chat, so their view (`MCSafetyView`) also drops the weights of a
  process, the model a request resolved to, and the name of a request whose
  remaining steps read it no more (`Unweighed`, `Unnamed`). The liveness runs use
  neither symmetry nor a view.

### Fairness

* Goroutines: weak fairness of every request's steps. The Go scheduler runs what
  can run. A request's arrival is not fair.
* The semaphore: strong fairness of `LazyAcquire`. Senders blocked on a Go channel
  are served in the order in which they came, so a chat gets the semaphore
  although others take it in between. `sync.Mutex` in `PiWebProxy`: strong fairness,
  because it goes to a goroutine that has waited for a millisecond (starvation
  mode). So it does for the deferred `Unlock` of the shutdown, which comes in the end although
  a request may steal the lock and start another proxy meanwhile, and a range over a
  map ends (`StopStep`).
* Time limits: `LoadExpired` is a step of the request, so a load that nothing ends
  otherwise ends by its limit.
* pi-web: nothing is assumed of a request that reads the output of an exec (`Reading`). The
  reads at `piweb.go:221` and `:356` have no deadline, and a container that is paused
  meanwhile does not answer; a request may hang there for good, and `EveryRequestEnds`
  says that it hangs nowhere else.
* Children: weak fairness of `ChildSettles`. A child that was sent SIGTERM or finds
  its port taken exits; one that finds it free comes to listen. `Exit` on its own
  is not fair: a child may run for ever. A child stuck in SIGTERM would block
  nothing in the code but uses a slot of the model, which is why the bound on
  slots needs this assumption.
* `monitorProcess`: weak fairness, as for every goroutine.
* `GatewayMain`: goroutines run and a load ends, which `gateway_liveness` shows of the
  handlers. `ChatEnds` is not fair: a stream may go on for ever. Neither is a signal.
* `AuthBridge`: each request runs on: its calls have limits of 5 and 10 seconds. That
  provisioning succeeds again and again is a premise of `RolesConverge`, not fairness.
* `Terminal`: the handler and both goroutines run. Docker calls return, a connected
  client reads what it is sent, and a command what it is typed; otherwise a
  goroutine may stay in a write. What a command or a client does is not fair.

## 4. Proofs

TLAPS proves the theorems below from the named assumptions on the constants alone
(`RegistryAssumption`, `GatewayAssumption`, `CatalogueAssumption`, `MainAssumption`,
`SessionsAssumption`, `HostAssumption`, `PiWebAssumption`, `TerminalAssumption`,
`TraceAssumption`, `BridgeAssumption`). They say that the sentinels are no members of
the sets they stand beside, that the ids of local and remote models are disjoint and
an alias is no id, that a session has a container name and a port is a number, that a
catalogue has finitely many ids and the agent-runner's own list no id twice, and that
bounds are natural numbers. So the theorems hold for all sets of models, providers,
process slots, goroutines, sessions, ports, addresses, users, tokens and calls, and all
numbers of attempts, chunks and frames.

| Module | Theorems |
|---|---|
| `LlamaGatewayProofs` | `TypeCorrect`, `Invariance`, `Holder` (`OnlyHolderStarts`), `Pointer` (`LoaderOwnsPointer`), `ActiveStatus` (`ActiveStatusAgree`), `NoReload` (`LazyNeverReloadsReady`), `FailedStart` (`FailedStartNotPublished`) |
| the same, of chats and loads | `LoadsInvariance`, `LoadingFiled` (`LoadingHasLoader`), `NotStopped` (`PublishedNotStopped`), `NoHolderPanics` (`HolderNeverPanics`), `Refines` (`LoaderSpec`), `CurrentActive` |
| `GatewayMainProofs` | `Invariance`, `TypeCorrect`, `KeepsPromise`, `LoadsApart`, `AutoRunsDown`, `IdsOnce` (`NoIdTwice`), `NoneLost` (`EveryModelListed`) |
| `AgentSessionsProofs` | `Invariance`, `TypeCorrect`, `Workspaces` (`SavedWorkspaceSurvives`), `NoLeak` (`NoUnexplainedLeak`), `RemovalsHold` (`ShutdownRemovalsHold`), `DeletedStays` (`DeletedStaysDeleted`), `NamesApart` (`CreateRemovesOnlyFailed`, if `DistinctNames`), `StatusHolds` (`StatusExplained`) |
| `AgentHostProofs` | `Invariance`, `TypeCorrect`, `ForwardsToOwn` (`ForwardsToOwnUnlessOutlived`), `ImplementsSessions` (`S!Spec`), `SessionsSafe`, `DeletedStays`, `RemovalsHold`, `ProxiesSafe` |
| `TerminalProofs` | `Invariance`, `TypeCorrect`, `InOrder` (`OutputInOrder`) |
| `PiWebProxyProofs` | `Invariance`, `TypeCorrect`, `Registered` (`RegisteredIsOpen`), `Leak` (`LeakNeedsOverlap`) |
| `TraceBufferProofs` | `Invariance`, `TypeCorrect`, `KeepsNewest` (`BufferIsNewest`), `Once` (`ReportedOnce`), `OwnEvent` (`OwnEventExplained`) |
| `AuthBridgeProofs` | `Invariance`, `TypeCorrect`, `Tables` (`TablesAgree`), `RoleSet` (`AloneSetsRole`), `OwnCookie` (`CookieIsOwn`) |

Each module has one inductive invariant, `IInv` (`HInv` in `AgentHostProofs`, `LInv`
and `StatusInv` on top of it for chats and loads alone and for the status); `Init =>
IInv`, `IInv /\ [Next]_vars => IInv'`, and the theorems follow from `Invariance`. TLC
has checked each invariant on an instance before its proof.

### The gateway

None of the five safety properties is inductive. Each speaks of a thread's own
process or of the pointer, and whether a step of another thread keeps it depends
on where that thread may be. `IInv` says it:

* `Mutex`: a thread is between acquiring and giving back the semaphore exactly
  when the semaphore says so; hence there is one at most.
* `OwnInv`: from `LoadStart` on, that thread has a process, and the pointer holds it
  or nil. Only `LoadPublish` writes anything else to the pointer, and by `Mutex` no
  other thread can be there.
* `RegistryInv`: a thread on a local path carries a name that `Get` resolves; the
  active model is filed as ready or loading; a chat past its second look at the
  status finds the model not ready, because only the holder files models as ready.
* `ProcInv`, seven conjuncts about processes: what `LoadStart` finds in the pointer is
  fresh (it has no child, and its channel is open), although an unload may have
  stopped it already; a process is starting, or polled, only for the thread that
  owns it; a process that is starting with a closed channel is one its own thread
  is about to mark as stopped; a thread that has stopped the process in the pointer
  is on its way to clear it; a process in the pointer that has no monitor is in the
  hands of a loader or of somebody who is about to clear it.

The step is proved by disjuncts of `Next`: `MutexStep`, `OwnInvStep`,
`RegistryInvStep` and `ProcInvStep`, each with a lemma per handler. For `ProcInv` most
actions are bland (they change no process, pointer or special place, lemma
`ProcInvBland`); the others have a lemma each. The module begins with a lemma
per process operation, which says what it does to the process and that it leaves
the others alone, so that the gateway's proofs need no record arithmetic.

### Chats and loads, and the abstract loader

The last part of `LlamaGatewayProofs` assumes that `Ops` has no unload and no delete (`LoadsOnly`), and
for the refinement that every name is an id (`IdsOnly`). Both are premises of its
theorems, not assumptions of the model. Then nobody clears the pointer or stops a
process but the loader, and `LInv` can say, on top of `IInv`, what the loader has in
the pointer and in the registry at each of its steps:

* `At(t)`: from `LoadPublish` on the pointer is not nil and its process has the weights
  of the request's model; inside `Start` the process is starting, with an open channel
  and no monitor; after a failure the model is filed as failed.
* `Settled`: between loads the process in the pointer was never told to stop, and runs
  or has died by itself.
* `LoadingHasLoader`.

`HolderStep` is the key: while `t` holds the semaphore no other thread is at a place `LInv`
speaks of, so a step of the holder is judged by what it does to `t` alone. `NoPanic` follows
from `LInv`, and `NoHolderPanics` from that.

`Refines` maps `LoadSetLoading` to `BeginLoad`, `LoadPublish` to `Launch`, `LoadSetReady` to
`Succeed`, `LoadSetError` to `Fail`, `LoadClear` to `GiveUp`, and shows that every other step
leaves status, active model, loading model and current model alone (`LoaderStutters`).
`CurrentActive` is proved of the abstract loader and holds of the handlers by `Refines`.

### The gateway's own life, and the merged list

`HolderInv` says who has the semaphore (whoever is past it) and whose load is under way
(the holder's, who waits for it to end); `LocalOnly` that no remote model gets that far;
`BootInv` that nothing is loaded while the models are registered. With them every load
that auto-load or a chat begins finds the loader idle, and `ModelLoader`'s promises hold
of the process (`KeepsPromise`). The
number of attempts is part of the types: `Placed` says that an attempt is left whenever
the auto-load is in one. So `Left`, five steps for each attempt that is left, falls with
every step of the auto-load, and with no other step does the auto-load move
(`AutoRunsDown`): the part of `AutoLoadEnds` that is not fairness.

The list needs no history: whatever is registered, `MergedList` holds. `SortedExists` shows
that a finite set of numbers can be counted in ascending order, without induction: the
place of a number is how many are below it, that is an injection into `1..n`, and by
counting a bijection. `Sorted`, which the model uses both for `sort.Slice` and for the loop that
skips known ids, then has every element in one place (`SortedOf`), and two lists
without an id in common may be appended (`Appended`, `AppendedHas`).

### Sessions

* `OwnInv`: until its row is written, nobody but its create knows a session's id. So the
  container of a session whose create is past `ContainerCreate` cannot come back once it
  is gone.
* `FreshInv`: before `ContainerCreate` there is no container and no shutdown has listed one.
* `GoneInv`: a delete comes to the row only when the container is gone or its removal lost its
  answer; and a container with no row that is not its create's is in `hurt`. The leak property
  excuses every request of the session, `GoneInv` only its create: that makes it inductive.
* `WorkspaceInv`: a create has its directory before anything else.

The steps of a request are described twice, by what it does to itself (`CreateMoves`,
`RequestMoves`) and what it does to the session (`CreateDocker`, `CreateStore`, `RequestTouches`); the proof of
the invariant uses only that. `CallEffect` says of a Docker call, whatever its outcome, that it
touches one container, makes none, and marks its session if the caller is not told.

`CreateRemovesOnlyFailed` does not hold of the code, whose container names are shortened ids
(run and finding in section 3). `NamesApart` shows that this is the only reason: it assumes
that no two sessions have the same name (`DistinctNames`, a premise of the theorem and not
of the model), and then a create that clears its name removes no other session's container.

`StatusInv` adds what a request that nothing has disturbed will find: row and container agree
unless it stands between the two, and then the row it is about to write agrees with the
container. For a session that has not drifted there is one request at most, so no other
one can come between.

### The agent-runner as one process

`AgentHostProofs` takes both components with their proofs (`SP`, `WP`). A fatal error of a
proxy is `Crash` to the sessions, or nothing if no handler was busy (`GoneIsCrash`), so what is
proved of either component holds of the process (`SessionsSafe`, `DeletedStays`, `RemovalsHold`,
`ProxiesSafe`). Its own invariant is about addresses, on top of the two others:

* `Addressed`: a container has an address exactly while it runs or is paused, and no two
  have the same.
* `Remembered`: what a request has read, and what a listener was given, is the address
  of its session's container, unless the request or listener is in `outlived`.

`ForwardsToOwnUnlessOutlived` follows: two sessions' containers never have one address. The
step is proved by what it moves: `MoveAddresses`, `RequestAddresses`, `ListenAddresses`,
`ForgetAddresses`.

### The terminal

`Order` says where the output is: before the goroutines start, nowhere; then the peeked chunk is
pushed back and nothing else is read, or what was read is with the client but for the chunk in
hand; and after a failed write the client has a beginning of it. `FrameCount` counts the
frame in hand as input or as a resize, so no frame is both.

### The proxies

The proof makes no use of the mutex, which the code unlocks twice on one path. What
keeps the registry sound is who knows a listener:

* `NewInv`: a listener that a request has opened and not yet registered is open, of its
  session, and in nobody else's hands; so registering it cannot name another's.
* `OldInv`: what a request found registered was its own session's, and is registered,
  if at all, for that session; so closing it hurts nobody else.
* `OneSession`, `OwnSession`: a listener is registered once at most, and for the session it
  was opened for; so the shutdown closes one entry's listener and no other's.
* `OverlapNoticed`, `OverwriteNeedsOverlap`: whatever a request is about to overwrite, but for
  the dead listener it found, was put there while it ran. Hence a leak needs two
  starts of one session that overlap, or the shutdown, which deletes what the key has by
  then.

Most steps leave registry and listeners alone: section "What no step but two changes"
says so once, and each other action has a lemma.

### The trace buffer

The argument is about positions in the order of pushes: the buffer is the last
`Len(events)` of them (`BufferIsNewest`), every reported event lies before it
(`ReportedBefore`), and an event that lies before it and whose call has not drained
yet is in a report, or at least `MaxTraceBuffer` events have been pushed after it
(`GoneExplained`).

### The auth-bridge

* `AloneApart`: no other request of the user of a request that is alone is being provisioned
  until that one is past its last statement, so nobody else writes the row it has
  read or written (`AloneRow`, and then `AloneSetsRole`).
* `RowFollows`: the row an `UPDATE` has found, or the first `INSERT` has made, is there
  when the next statement runs; no statement deletes one. `TablesAgree` is kept with it.
* `CookieIsOwn` is its own invariant, given types: a token in anybody's hands has an
  owner, so Open WebUI does not issue it again.

### What stays with TLC

Liveness: `EveryRequestAnswered`, `EveryRequestEnds`, `ProxiesGetStopped`, `AutoLoadEnds`, `SignalEnds`, `EndsWithEitherSide`,
`RolesConverge`. They hold under fairness, and TLAPS handles neither `ENABLED` nor `WF` and
`SF`; so is the absence of deadlock, which is a matter of `ENABLED`. Every other property
of a passing run is a theorem.

The two runs that show a violation, and the properties of section 3 that the code does
not have, are counterexamples; there is nothing to prove.

## 5. Not modelled

* A gateway that restarts and finds a child of the old one on its port: the gateway
  is the first process of its container (`src/code/llm-gateway/Dockerfile`), so its
  children die with it.
* Which bytes go over a terminal or a chat; of a terminal the order and the end of them is
  modelled. Of a proxy's connections nothing is: `AgentHost` says where they lead, and
  `PiWebProxy` only that the loop that accepts them may end. Wording, logging, the metrics
  (`GetMetrics`), which are computed on demand and kept nowhere.
* Disk usage and the quota: a walk over a directory compared with a constant, never
  reserved (hazard at `internal/docker/manager.go:137`).
* The match by suffix of `Registry.Get` in `GatewayMain`, where the default model is an id;
  `LlamaGateway` has it, as `Alias`.
* The parsing of the environment (`config.go`), and the conversion of requests to and from
  the remote providers' formats, which keeps no state.
* `StopPiWeb`, which has no caller.
* Entrypoint scripts and deployment files, but for the restart policies, which
  `AgentHost`, `PiWebProxy` and `AuthBridge` use.

## 6. Plan

Done: the gateway with its processes, the abstract loader it implements, and the life of
its process; sessions, their status, proxies, and both composed; terminal, trace buffer,
auth-bridge; and proofs of all their invariants, action properties and refinements. Next,
in order:

1. What the liveness properties rest on, as safety: for the gateway, that a waiting chat's
   semaphore is always in the hands of a request that can move, for any number of
   requests.
2. A larger liveness instance for the gateway: two local models, so that a load waits
   for the unload of another one.
