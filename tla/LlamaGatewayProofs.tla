------------------------- MODULE LlamaGatewayProofs -------------------------
(***************************************************************************)
(* Type correctness and the safety invariants of LlamaGateway, for all     *)
(* sets of models, aliases, process slots, request threads and routes.     *)
(*                                                                         *)
(* First come lemmas about the operations of a Process object: each leaves *)
(* process objects process objects (the ...Type lemmas), and each changes  *)
(* the named fields of the one object and nothing else (the ...Effect      *)
(* lemmas).  Then IInv, from which the invariants that TLC checks on small *)
(* instances follow.                                                       *)
(*                                                                         *)
(* IInv says who is where.  Mutex: one thread at most is between acquiring *)
(* and giving back the semaphore.  OwnInv: only that thread puts a process *)
(* into the pointer.  RegistryInv: only that thread files a model ready.   *)
(* ProcInv: only on its behalf is a process started, although unload and   *)
(* delete stop and clear whatever the pointer shows at any moment.         *)
(*                                                                         *)
(* Last comes what holds with chats and loads alone: LInv, and that the    *)
(* handlers implement the abstract ModelLoader.                            *)
(***************************************************************************)
EXTENDS GatewayLoader, TLAPS

-----------------------------------------------------------------------------
(* The operations of a Process object *)

\* What New returns is a process object.
LEMMA NewProcessType ==
  ASSUME NEW w \in Weights
  PROVE  NewProcess(w) \in ProcRecord
  BY DEF NewProcess, ProcRecord

\* A process object replaced by a process object; nothing happens to the others.
LEMMA ExceptType ==
  ASSUME ProcTypeOK, NEW p, NEW r, p \in Procs => r \in ProcRecord,
         proc' = [proc EXCEPT ![p] = r]
  PROVE  ProcTypeOK'
  BY DEF ProcTypeOK

\* Both outcomes of cmd.Start leave process objects process objects.
LEMMA SpawnType ==
  ASSUME ProcTypeOK, NEW p, SpawnOk(p) \/ SpawnFails(p)
  PROVE  ProcTypeOK'
<1>1. CASE SpawnOk(p)
  <2>1. proc' = [proc EXCEPT ![p] = [proc[p] EXCEPT !.server = "spawned", !.poll = "polling"]]
    BY <1>1 DEF SpawnOk, ProcTypeOK
  <2>2. p \in Procs => [proc[p] EXCEPT !.server = "spawned", !.poll = "polling"] \in ProcRecord
    BY DEF ProcTypeOK, ProcRecord
  <2> QED
    BY <2>1, <2>2, ExceptType
<1>2. CASE SpawnFails(p)
  <2>1. proc' = [proc EXCEPT ![p] = [proc[p] EXCEPT !.state = "failed"]]
    BY <1>2 DEF SpawnFails, ProcTypeOK
  <2>2. p \in Procs => [proc[p] EXCEPT !.state = "failed"] \in ProcRecord
    BY DEF ProcTypeOK, ProcRecord
  <2> QED
    BY <2>1, <2>2, ExceptType
<1> QED
  BY <1>1, <1>2

\* So do both answers of pollForReady that Start takes,
LEMMA TakeType ==
  ASSUME ProcTypeOK, NEW p, TakeReady(p) \/ TakeError(p)
  PROVE  ProcTypeOK'
<1>1. CASE TakeReady(p)
  <2>1. proc' = [proc EXCEPT ![p] = [proc[p] EXCEPT !.state = "running", !.poll = "off", !.monitor = "waiting"]]
    BY <1>1 DEF TakeReady, ProcTypeOK
  <2>2. p \in Procs => [proc[p] EXCEPT !.state = "running", !.poll = "off", !.monitor = "waiting"] \in ProcRecord
    BY DEF ProcTypeOK, ProcRecord
  <2> QED
    BY <2>1, <2>2, ExceptType
<1>2. CASE TakeError(p)
  <2>1. proc' = [proc EXCEPT ![p] = [proc[p] EXCEPT !.state = "failed", !.poll = "off"]]
    BY <1>2 DEF TakeError, ProcTypeOK
  <2>2. p \in Procs => [proc[p] EXCEPT !.state = "failed", !.poll = "off"] \in ProcRecord
    BY DEF ProcTypeOK, ProcRecord
  <2> QED
    BY <2>1, <2>2, ExceptType
<1> QED
  BY <1>1, <1>2

\* the two halves of Start's unlocked stop(),
LEMMA AbortType ==
  ASSUME ProcTypeOK, NEW p, AbortClose(p) \/ AbortStopped(p)
  PROVE  ProcTypeOK'
<1>1. CASE AbortClose(p)
  <2>1. proc' = [proc EXCEPT ![p] = [proc[p] EXCEPT !.stopCh = TRUE, !.poll = "off"]]
    BY <1>1 DEF AbortClose, ProcTypeOK
  <2>2. p \in Procs => [proc[p] EXCEPT !.stopCh = TRUE, !.poll = "off"] \in ProcRecord
    BY DEF ProcTypeOK, ProcRecord
  <2> QED
    BY <2>1, <2>2, ExceptType
<1>2. CASE AbortStopped(p)
  <2>1. proc' = [proc EXCEPT ![p] = [proc[p] EXCEPT !.state = "stopped"]]
    BY <1>2 DEF AbortStopped, ProcTypeOK
  <2>2. p \in Procs => [proc[p] EXCEPT !.state = "stopped"] \in ProcRecord
    BY DEF ProcTypeOK, ProcRecord
  <2> QED
    BY <2>1, <2>2, ExceptType
<1> QED
  BY <1>1, <1>2

\* and Stop.
LEMMA StopType ==
  ASSUME ProcTypeOK, NEW p \in Procs, Stop(p)
  PROVE  ProcTypeOK'
<1>1. CASE proc[p].state = "stopped"
  BY <1>1 DEF Stop, ProcTypeOK
<1>2. CASE proc[p].state # "stopped" /\ Started(p)
  <2> DEFINE r == [proc[p] EXCEPT !.state = "stopped", !.stopCh = TRUE]
  <2>1. proc' = [proc EXCEPT ![p] = r]
    BY <1>2 DEF Stop, ProcTypeOK
  <2>2. r \in ProcRecord
    BY DEF ProcTypeOK, ProcRecord
  <2> QED
    BY <2>1, <2>2 DEF ProcTypeOK
<1>3. CASE proc[p].state # "stopped" /\ ~Started(p)
  BY <1>3 DEF Stop, ProcTypeOK, ProcRecord
<1> QED
  BY <1>1, <1>2, <1>3

-----------------------------------------------------------------------------
(* What each operation changes *)

\* No process object but p changes.
Others(p) == \A q \in Procs \ {p} : proc'[q] = proc[q]

\* Stop: the object is stopped; stopCh is closed only if a child had been started.
LEMMA StopEffect ==
  ASSUME ProcTypeOK, NEW p \in Procs, Stop(p)
  PROVE  /\ Others(p)
         /\ proc'[p].state = "stopped"
         /\ proc'[p].server = proc[p].server
         /\ proc'[p].poll = proc[p].poll /\ proc'[p].monitor = proc[p].monitor
         /\ proc'[p].stopCh => proc[p].stopCh \/ (proc[p].state # "stopped" /\ proc[p].server # "none")
  BY DEF Stop, Started, Others, ProcTypeOK, ProcRecord

\* Start, up to its first unlock: a stopped object is starting.
LEMMA StartLockedEffect ==
  ASSUME ProcTypeOK, NEW p \in Procs, StartLocked(p)
  PROVE  /\ Others(p)
         /\ proc[p].state = "stopped"
         /\ proc'[p].state = "starting"
         /\ proc'[p].server = proc[p].server
         /\ proc'[p].stopCh = proc[p].stopCh
         /\ proc'[p].poll = proc[p].poll
         /\ proc'[p].monitor = proc[p].monitor
  BY DEF StartLocked, Others, ProcTypeOK, ProcRecord

\* cmd.Start succeeds: a child, and a poller for it.
LEMMA SpawnOkEffect ==
  ASSUME ProcTypeOK, NEW p \in Procs, SpawnOk(p)
  PROVE  /\ Others(p)
         /\ proc'[p].state = proc[p].state
         /\ proc'[p].server = "spawned"
         /\ proc'[p].stopCh = proc[p].stopCh
         /\ proc'[p].poll = "polling"
         /\ proc'[p].monitor = proc[p].monitor
  BY DEF SpawnOk, Others, ProcTypeOK, ProcRecord

\* cmd.Start fails.
LEMMA SpawnFailsEffect ==
  ASSUME ProcTypeOK, NEW p \in Procs, SpawnFails(p)
  PROVE  /\ Others(p)
         /\ proc'[p].state = "failed"
         /\ proc'[p].server = proc[p].server
         /\ proc'[p].stopCh = proc[p].stopCh
         /\ proc'[p].poll = proc[p].poll
         /\ proc'[p].monitor = proc[p].monitor
  BY DEF SpawnFails, Others, ProcTypeOK, ProcRecord

\* The poller has said ok: running and monitored.
LEMMA TakeReadyEffect ==
  ASSUME ProcTypeOK, NEW p \in Procs, TakeReady(p)
  PROVE  /\ Others(p)
         /\ proc'[p].state = "running"
         /\ proc'[p].server = proc[p].server
         /\ proc'[p].stopCh = proc[p].stopCh
         /\ proc'[p].poll = "off"
         /\ proc'[p].monitor = "waiting"
  BY DEF TakeReady, Others, ProcTypeOK, ProcRecord

\* The poller has given up.
LEMMA TakeErrorEffect ==
  ASSUME ProcTypeOK, NEW p \in Procs, TakeError(p)
  PROVE  /\ Others(p)
         /\ proc'[p].state = "failed"
         /\ proc'[p].server = proc[p].server
         /\ proc'[p].stopCh = proc[p].stopCh
         /\ proc'[p].poll = "off"
         /\ proc'[p].monitor = proc[p].monitor
  BY DEF TakeError, Others, ProcTypeOK, ProcRecord

\* Start closes stopCh and stops listening to the poller,
LEMMA AbortCloseEffect ==
  ASSUME ProcTypeOK, NEW p \in Procs, AbortClose(p)
  PROVE  /\ Others(p)
         /\ proc'[p].state = proc[p].state
         /\ proc'[p].server = proc[p].server
         /\ proc'[p].stopCh = TRUE
         /\ proc'[p].poll = "off"
         /\ proc'[p].monitor = proc[p].monitor
  BY DEF AbortClose, Others, ProcTypeOK, ProcRecord

\* and then marks the object stopped.
LEMMA AbortStoppedEffect ==
  ASSUME ProcTypeOK, NEW p \in Procs, AbortStopped(p)
  PROVE  /\ Others(p)
         /\ proc'[p].state = "stopped"
         /\ proc'[p].server = proc[p].server
         /\ proc'[p].stopCh = proc[p].stopCh
         /\ proc'[p].poll = proc[p].poll
         /\ proc'[p].monitor = proc[p].monitor
  BY DEF AbortStopped, Others, ProcTypeOK, ProcRecord

\* pollForReady gets a 200,
LEMMA PollOkEffect ==
  ASSUME ProcTypeOK, NEW p \in Procs, PollOk(p)
  PROVE  /\ Others(p)
         /\ proc[p].poll = "polling"
         /\ proc'[p].state = proc[p].state
         /\ proc'[p].server = proc[p].server
         /\ proc'[p].stopCh = proc[p].stopCh
         /\ proc'[p].poll = "ok"
         /\ proc'[p].monitor = proc[p].monitor
  BY DEF PollOk, Others, ProcTypeOK, ProcRecord

\* or gives up.
LEMMA PollErrEffect ==
  ASSUME ProcTypeOK, NEW p \in Procs, PollErr(p)
  PROVE  /\ Others(p)
         /\ proc[p].poll = "polling"
         /\ proc'[p].state = proc[p].state
         /\ proc'[p].server = proc[p].server
         /\ proc'[p].stopCh = proc[p].stopCh
         /\ proc'[p].poll = "err"
         /\ proc'[p].monitor = proc[p].monitor
  BY DEF PollErr, Others, ProcTypeOK, ProcRecord

\* monitorProcess sees the child gone,
LEMMA MonitorWaitEffect ==
  ASSUME ProcTypeOK, NEW p \in Procs, MonitorWait(p)
  PROVE  /\ Others(p)
         /\ proc[p].monitor = "waiting"
         /\ proc'[p].state = proc[p].state
         /\ proc'[p].server = proc[p].server
         /\ proc'[p].stopCh = proc[p].stopCh
         /\ proc'[p].poll = proc[p].poll
         /\ proc'[p].monitor \in {"saw", "done"}
  BY DEF MonitorWait, Others, ProcTypeOK, ProcRecord

\* and marks the object failed.
LEMMA MonitorFailEffect ==
  ASSUME ProcTypeOK, NEW p \in Procs, MonitorFail(p)
  PROVE  /\ Others(p)
         /\ proc[p].monitor = "saw"
         /\ proc'[p].state = "failed"
         /\ proc'[p].server = proc[p].server
         /\ proc'[p].stopCh = proc[p].stopCh
         /\ proc'[p].poll = proc[p].poll
         /\ proc'[p].monitor = "done"
  BY DEF MonitorFail, Others, ProcTypeOK, ProcRecord

\* The child listens,
LEMMA BindEffect ==
  ASSUME ProcTypeOK, NEW p \in Procs, Bind(p)
  PROVE  /\ Others(p)
         /\ proc[p].server = "spawned"
         /\ proc'[p].state = proc[p].state
         /\ proc'[p].server = "serving"
         /\ proc'[p].stopCh = proc[p].stopCh
         /\ proc'[p].poll = proc[p].poll
         /\ proc'[p].monitor = proc[p].monitor
  BY DEF Bind, Others, ProcTypeOK, ProcRecord

\* and exits.
LEMMA ExitEffect ==
  ASSUME ProcTypeOK, NEW p \in Procs, Exit(p)
  PROVE  /\ Others(p)
         /\ proc[p].server \in {"spawned", "serving"}
         /\ proc'[p].state = proc[p].state
         /\ proc'[p].stopCh = proc[p].stopCh
         /\ proc'[p].poll = proc[p].poll
         /\ proc'[p].monitor = proc[p].monitor
  BY DEF Exit, Others, ProcTypeOK, ProcRecord

USE RegistryAssumption, GatewayAssumption

-----------------------------------------------------------------------------
(* Types *)

\* A request carries a name until it is over.
NamesKnown == \A t \in Threads : pc(t) # "idle" => name(t) \in Names

\* The type invariant, with what makes it inductive.
TypeInv == TypeOK /\ NamesKnown

\* The gateway starts well typed.
THEOREM InitType == Init => TypeInv
  BY DEF Init, TypeInv, TypeOK, NamesKnown, RegistryInit, RegistryTypeOK, ProcTypeOK,
         ProcRecord, NewProcess, NoRequest, RequestRecord, PCs, Statuses, pc, name

\* What SetStatus leaves in the registry is a registry.
LEMMA SetStatusType ==
  ASSUME RegistryTypeOK, NEW n, NEW s \in Statuses, SetStatus(n, s)
  PROVE  RegistryTypeOK'
  BY DEF RegistryTypeOK, SetStatus, registryVars

\* A request that moves to another program counter is a request with the same name.
LEMMA GotoType ==
  ASSUME TypeInv, NEW t \in Threads, NEW from \in PCs \ {"idle"}, NEW to \in PCs,
         Goto(t, from, to)
  PROVE  req' \in [Threads -> RequestRecord] /\ NamesKnown'
  BY DEF TypeInv, TypeOK, NamesKnown, Goto, RequestRecord, pc, name

\* A thread that has finished its request is idle.
LEMMA FinishType ==
  ASSUME TypeInv, NEW t \in Threads, NEW from, Finish(t, from)
  PROVE  req' \in [Threads -> RequestRecord] /\ NamesKnown'
  BY DEF TypeInv, TypeOK, NamesKnown, Finish, RequestRecord, NoRequest, PCs, pc, name

\* A request that begins has a known name.
LEMMA BeginType ==
  ASSUME TypeInv, NEW t \in Threads, NEW op \in AllOps, NEW n \in Names,
         NEW m \in Models \cup {NoModel}, NEW to \in PCs, Begin(t, op, n, m, to)
  PROVE  req' \in [Threads -> RequestRecord] /\ NamesKnown'
  BY DEF TypeInv, TypeOK, NamesKnown, Begin, RequestRecord, pc, name

\* The steps of a child and of its goroutines keep process objects process objects.
LEMMA ProcessStepType ==
  ASSUME ProcTypeOK, NEW p \in Procs, ProcessStep(p)
  PROVE  ProcTypeOK'
<1>1. CASE PollOk(p)
  BY <1>1 DEF ProcTypeOK, ProcRecord, PollOk
<1>2. CASE PollErr(p)
  BY <1>2 DEF ProcTypeOK, ProcRecord, PollErr
<1>3. CASE MonitorWait(p)
  BY <1>3 DEF ProcTypeOK, ProcRecord, MonitorWait
<1>4. CASE MonitorFail(p)
  <2>1. proc' = [proc EXCEPT ![p] = [proc[p] EXCEPT !.monitor = "done", !.state = "failed"]]
    BY <1>4 DEF MonitorFail
  <2>2. [proc[p] EXCEPT !.monitor = "done", !.state = "failed"] \in ProcRecord
    BY DEF ProcTypeOK, ProcRecord
  <2> QED
    BY <2>1, <2>2 DEF ProcTypeOK
<1>5. CASE Bind(p)
  BY <1>5 DEF ProcTypeOK, ProcRecord, Bind
<1>6. CASE Exit(p)
  BY <1>6 DEF ProcTypeOK, ProcRecord, Exit
<1> QED
  BY <1>1, <1>2, <1>3, <1>4, <1>5, <1>6 DEF ProcessStep

\* Every call site of Stop: with the pointer's process, or a panic.
LEMMA StopLlamaType ==
  ASSUME TypeInv, NEW t \in Threads, NEW from \in PCs \ {"idle"}, NEW to \in PCs,
         StopLlama(t, from, to) \/ StopLlamaPanic(t, from)
  PROVE  TypeInv'
<1>1. CASE StopLlama(t, from, to)
  <2>1. req' \in [Threads -> RequestRecord] /\ NamesKnown'
    BY <1>1, GotoType DEF StopLlama
  <2>2. ProcTypeOK'
    BY <1>1, StopType DEF StopLlama, TypeInv, TypeOK
  <2> QED
    BY <1>1, <2>1, <2>2 DEF StopLlama, TypeInv, TypeOK, registryVars, RegistryTypeOK
<1>2. CASE StopLlamaPanic(t, from)
  <2>1. req' \in [Threads -> RequestRecord] /\ NamesKnown'
    BY <1>2, FinishType DEF StopLlamaPanic, Panic
  <2> QED
    BY <1>2, <2>1 DEF StopLlamaPanic, Panic, Release, TypeInv, TypeOK, registryVars,
                      RegistryTypeOK, ProcTypeOK
<1> QED
  BY <1>1, <1>2

\* A panic leaves everything but its request and the semaphore alone.
LEMMA PanicType ==
  ASSUME TypeInv, NEW t \in Threads, NEW from, Panic(t, from)
  PROVE  TypeInv'
<1>1. req' \in [Threads -> RequestRecord] /\ NamesKnown'
  BY FinishType DEF Panic
<1> QED
  BY <1>1 DEF Panic, Release, TypeInv, TypeOK, registryVars, RegistryTypeOK, ProcTypeOK

\* The registry resolves a name to catalogued models only.
LEMMA GetType ==
  ASSUME NEW n \in Names
  PROVE  Get(n) \subseteq Models
  BY DEF Get, Names

\* The steps of handleChatCompletion and of loadModel's look-ups keep the state
\* well typed,
LEMMA ChatType ==
  ASSUME TypeInv, NEW t \in Threads, ChatStep(t)
  PROVE  TypeInv'
<1> USE DEF PCs, Holding
<1>1. CASE ChatCheckRunning(t)
  <2>1. req' \in [Threads -> RequestRecord] /\ NamesKnown'
    BY <1>1, GotoType DEF ChatCheckRunning
  <2> QED
    BY <1>1, <2>1 DEF ChatCheckRunning, TypeInv, TypeOK, registryVars, RegistryTypeOK, ProcTypeOK
<1>2. CASE ChatCheckActive(t)
  <2>1. req' \in [Threads -> RequestRecord] /\ NamesKnown'
    BY <1>2, GotoType DEF ChatCheckActive
  <2> QED
    BY <1>2, <2>1 DEF ChatCheckActive, TypeInv, TypeOK, registryVars, RegistryTypeOK, ProcTypeOK
<1>3. CASE ProxyToLocal(t)
  <2>1. req' \in [Threads -> RequestRecord] /\ NamesKnown'
    BY <1>3, GotoType DEF ProxyToLocal
  <2> QED
    BY <1>3, <2>1 DEF ProxyToLocal, TypeInv, TypeOK, registryVars, RegistryTypeOK, ProcTypeOK
<1>4. CASE ProxyPanic(t)
  BY <1>4, PanicType DEF ProxyPanic
<1>5. CASE SendToPort(t) \/ ProxyToRemote(t)
  <2>1. req' \in [Threads -> RequestRecord] /\ NamesKnown'
    BY <1>5, FinishType DEF SendToPort, ProxyToRemote
  <2> QED
    BY <1>5, <2>1 DEF SendToPort, ProxyToRemote, TypeInv, TypeOK, registryVars,
                      RegistryTypeOK, ProcTypeOK
<1>6. CASE LazyLookup(t)
  <2>1. req' \in [Threads -> RequestRecord] /\ NamesKnown'
    BY <1>6, FinishType, GotoType DEF LazyLookup
  <2> QED
    BY <1>6, <2>1 DEF LazyLookup, TypeInv, TypeOK, registryVars, RegistryTypeOK, ProcTypeOK
<1>7. CASE LazyAcquire(t)
  <2>1. req' \in [Threads -> RequestRecord] /\ NamesKnown'
    BY <1>7, GotoType DEF LazyAcquire
  <2> QED
    BY <1>7, <2>1 DEF LazyAcquire, TypeInv, TypeOK, registryVars, RegistryTypeOK, ProcTypeOK
<1>8. CASE LazyRecheck(t)
  <2>1. name(t) \in Names
    BY <1>8 DEF LazyRecheck, TypeInv, NamesKnown
  <2>2. PICK m \in Get(name(t)) :
           IF status[m] = "ready"
           THEN Goto(t, "recheck", "proxy") /\ Release(t)
           ELSE /\ req' = [req EXCEPT ![t].pc = "stopOld", ![t].model = m]
                /\ UNCHANGED sem
    BY <1>8 DEF LazyRecheck
  <2>3. m \in Models
    BY <2>1, GetType
  <2>4. req' \in [Threads -> RequestRecord] /\ NamesKnown'
    <3>1. CASE status[m] = "ready"
      BY <2>2, <3>1, GotoType
    <3>2. CASE status[m] # "ready"
      BY <1>8, <2>2, <2>3, <3>2 DEF LazyRecheck, TypeInv, TypeOK, NamesKnown, RequestRecord, pc, name
    <3> QED
      BY <3>1, <3>2
  <2> QED
    BY <1>8, <2>2, <2>4 DEF LazyRecheck, Release, TypeInv, TypeOK, registryVars,
                            RegistryTypeOK, ProcTypeOK
<1> QED
  BY <1>1, <1>2, <1>3, <1>4, <1>5, <1>6, <1>7, <1>8 DEF ChatStep
\* the steps of a load do,
LEMMA LoadType ==
  ASSUME TypeInv, NEW t \in Threads, LoadStep(t)
  PROVE  TypeInv'
<1> USE DEF PCs, Holding
<1>1. CASE LoadTryAcquire(t)
  <2>1. req' \in [Threads -> RequestRecord] /\ NamesKnown'
    BY <1>1, GotoType, FinishType DEF LoadTryAcquire
  <2> QED
    BY <1>1, <2>1 DEF LoadTryAcquire, TypeInv, TypeOK, registryVars,
                      RegistryTypeOK, ProcTypeOK
<1>2. CASE LoadCheckOld(t)
  <2>1. req' \in [Threads -> RequestRecord] /\ NamesKnown'
    BY <1>2, GotoType DEF LoadCheckOld
  <2> QED
    BY <1>2, <2>1 DEF LoadCheckOld, TypeInv, TypeOK, registryVars,
                      RegistryTypeOK, ProcTypeOK
<1>3. CASE LoadStopOld(t) \/ LoadStopOldPanic(t)
  BY <1>3, StopLlamaType DEF LoadStopOld, LoadStopOldPanic
<1>4. CASE LoadSetLoading(t)
  <2>1. req' \in [Threads -> RequestRecord] /\ NamesKnown'
    BY <1>4, GotoType DEF LoadSetLoading
  <2>2. RegistryTypeOK'
    BY <1>4, SetStatusType DEF LoadSetLoading, TypeInv, TypeOK, Statuses
  <2> QED
    BY <1>4, <2>1, <2>2 DEF LoadSetLoading, TypeInv, TypeOK, ProcTypeOK
<1>5. CASE LoadPublish(t)
  <2>1. req' \in [Threads -> RequestRecord] /\ NamesKnown'
    BY <1>5, GotoType DEF LoadPublish
  <2>2. PICK p \in Garbage : proc' = [proc EXCEPT ![p] = NewProcess(req[t].model)] /\ llama' = p
    BY <1>5 DEF LoadPublish
  <2>3. NewProcess(req[t].model) \in ProcRecord
    BY NewProcessType DEF TypeInv, TypeOK, RequestRecord
  <2>4. ProcTypeOK' /\ llama' \in Procs
    BY <2>2, <2>3 DEF TypeInv, TypeOK, ProcTypeOK, Garbage
  <2> QED
    BY <1>5, <2>1, <2>4 DEF LoadPublish, TypeInv, TypeOK, registryVars, RegistryTypeOK
<1>6. CASE LoadStart(t)
  <2>1. req' \in [Threads -> RequestRecord] /\ NamesKnown'
    <3> DEFINE r == [req[t] EXCEPT !.pc = "spawn", !.own = llama]
    <3>1. req' = [req EXCEPT ![t] = r]
      BY <1>6 DEF LoadStart, TypeInv, TypeOK
    <3>2. r \in RequestRecord /\ r.name = name(t) /\ pc(t) = "start"
      BY <1>6 DEF LoadStart, TypeInv, TypeOK, RequestRecord, pc, name
    <3> HIDE DEF r
    <3> QED
      BY <3>1, <3>2 DEF TypeInv, TypeOK, NamesKnown, pc, name
  <2>2. ProcTypeOK'
    BY <1>6 DEF LoadStart, StartLocked, TypeInv, TypeOK, ProcTypeOK, ProcRecord
  <2> QED
    BY <1>6, <2>1, <2>2 DEF LoadStart, TypeInv, TypeOK, registryVars, RegistryTypeOK
<1>7. CASE LoadStartPanic(t)
  BY <1>7, PanicType DEF LoadStartPanic
<1>8. CASE LoadSpawn(t)
  <2>1. req' \in [Threads -> RequestRecord] /\ NamesKnown'
    BY <1>8, GotoType DEF LoadSpawn
  <2>2. ProcTypeOK'
    BY <1>8, SpawnType DEF LoadSpawn, TypeInv, TypeOK
  <2> QED
    BY <1>8, <2>1, <2>2 DEF LoadSpawn, TypeInv, TypeOK, registryVars, RegistryTypeOK
<1>9. CASE LoadServerReady(t)
  <2>1. req' \in [Threads -> RequestRecord] /\ NamesKnown'
    BY <1>9, GotoType DEF LoadServerReady
  <2>2. ProcTypeOK'
    BY <1>9, TakeType DEF LoadServerReady, TypeInv, TypeOK
  <2> QED
    BY <1>9, <2>1, <2>2 DEF LoadServerReady, TypeInv, TypeOK, registryVars, RegistryTypeOK
<1>10. CASE LoadServerFailed(t)
  <2>1. req' \in [Threads -> RequestRecord] /\ NamesKnown'
    BY <1>10, GotoType DEF LoadServerFailed
  <2>2. ProcTypeOK'
    BY <1>10, TakeType DEF LoadServerFailed, TypeInv, TypeOK
  <2> QED
    BY <1>10, <2>1, <2>2 DEF LoadServerFailed, TypeInv, TypeOK, registryVars, RegistryTypeOK
<1>11. CASE LoadExpired(t)
  <2>1. req' \in [Threads -> RequestRecord] /\ NamesKnown'
    BY <1>11, GotoType DEF LoadExpired
  <2> QED
    BY <1>11, <2>1 DEF LoadExpired, TypeInv, TypeOK, registryVars,
                      RegistryTypeOK, ProcTypeOK
<1>12. CASE LoadAbort(t)
  <2>1. req' \in [Threads -> RequestRecord] /\ NamesKnown'
    BY <1>12, GotoType DEF LoadAbort
  <2>2. ProcTypeOK'
    BY <1>12, AbortType DEF LoadAbort, TypeInv, TypeOK
  <2> QED
    BY <1>12, <2>1, <2>2 DEF LoadAbort, TypeInv, TypeOK, registryVars, RegistryTypeOK
<1>13. CASE LoadAbortPanic(t)
  <2>1. req' \in [Threads -> RequestRecord] /\ NamesKnown'
    BY <1>13, FinishType DEF LoadAbortPanic
  <2>2. ProcTypeOK'
    <3> DEFINE r == [proc[req[t].own] EXCEPT !.poll = "off"]
    <3>1. proc' = [proc EXCEPT ![req[t].own] = r]
      BY <1>13 DEF LoadAbortPanic, TypeInv, TypeOK, ProcTypeOK
    <3>2. req[t].own \in Procs => r \in ProcRecord
      BY DEF TypeInv, TypeOK, ProcTypeOK, ProcRecord
    <3> QED
      BY <3>1, <3>2, ExceptType DEF TypeInv, TypeOK
  <2> QED
    BY <1>13, <2>1, <2>2 DEF LoadAbortPanic, Release, TypeInv, TypeOK, registryVars, RegistryTypeOK
<1>14. CASE LoadAborted(t)
  <2>1. req' \in [Threads -> RequestRecord] /\ NamesKnown'
    BY <1>14, GotoType DEF LoadAborted
  <2>2. ProcTypeOK'
    BY <1>14, AbortType DEF LoadAborted, TypeInv, TypeOK
  <2> QED
    BY <1>14, <2>1, <2>2 DEF LoadAborted, TypeInv, TypeOK, registryVars, RegistryTypeOK
<1>15. CASE LoadSetError(t)
  <2>1. req' \in [Threads -> RequestRecord] /\ NamesKnown'
    BY <1>15, GotoType DEF LoadSetError
  <2>2. RegistryTypeOK'
    BY <1>15, SetStatusType DEF LoadSetError, TypeInv, TypeOK, Statuses
  <2> QED
    BY <1>15, <2>1, <2>2 DEF LoadSetError, TypeInv, TypeOK, ProcTypeOK
<1>16. CASE LoadClear(t)
  <2>1. req' \in [Threads -> RequestRecord] /\ NamesKnown'
    BY <1>16, FinishType DEF LoadClear
  <2> QED
    BY <1>16, <2>1 DEF LoadClear, Release, TypeInv, TypeOK, registryVars,
                      RegistryTypeOK, ProcTypeOK
<1>17. CASE LoadSetReady(t)
  <2>1. req' \in [Threads -> RequestRecord] /\ NamesKnown'
    <3>1. CASE req[t].op = "chat"
      BY <1>17, <3>1 DEF LoadSetReady, TypeInv, TypeOK, NamesKnown, RequestRecord, pc, name
    <3>2. CASE req[t].op # "chat"
      BY <1>17, <3>2, FinishType DEF LoadSetReady
    <3> QED
      BY <3>1, <3>2
  <2>2. RegistryTypeOK'
    BY <1>17, SetStatusType DEF LoadSetReady, TypeInv, TypeOK, Statuses
  <2> QED
    BY <1>17, <2>1, <2>2 DEF LoadSetReady, Release, TypeInv, TypeOK, ProcTypeOK
<1> QED
  BY <1>1, <1>2, <1>3, <1>4, <1>5, <1>6, <1>7, <1>8, <1>9, <1>10, <1>11, <1>12, <1>13,
     <1>14, <1>15, <1>16, <1>17 DEF LoadStep

\* the steps of an unload or a delete do,
LEMMA UnloadDeleteType ==
  ASSUME TypeInv, NEW t \in Threads, UnloadStep(t) \/ DeleteStep(t)
  PROVE  TypeInv'
<1> USE DEF PCs
<1>1. CASE UnloadStop(t) \/ UnloadStopPanic(t)
  BY <1>1, StopLlamaType DEF UnloadStop, UnloadStopPanic
<1>2. CASE UnloadSetStatus(t)
  <2>1. req' \in [Threads -> RequestRecord] /\ NamesKnown'
    BY <1>2, GotoType DEF UnloadSetStatus
  <2>2. RegistryTypeOK'
    BY <1>2, SetStatusType DEF UnloadSetStatus, TypeInv, TypeOK, Statuses
  <2> QED
    BY <1>2, <2>1, <2>2 DEF UnloadSetStatus, TypeInv, TypeOK, ProcTypeOK
<1>3. CASE UnloadClear(t)
  <2>1. req' \in [Threads -> RequestRecord] /\ NamesKnown'
    BY <1>3, FinishType DEF UnloadClear
  <2> QED
    BY <1>3, <2>1 DEF UnloadClear, TypeInv, TypeOK, registryVars,
                      RegistryTypeOK, ProcTypeOK
<1>4. CASE DeleteCheckNil(t)
  <2>1. req' \in [Threads -> RequestRecord] /\ NamesKnown'
    BY <1>4, GotoType, FinishType DEF DeleteCheckNil
  <2> QED
    BY <1>4, <2>1 DEF DeleteCheckNil, TypeInv, TypeOK, registryVars,
                      RegistryTypeOK, ProcTypeOK
<1>5. CASE DeleteStop(t) \/ DeleteStopPanic(t)
  BY <1>5, StopLlamaType DEF DeleteStop, DeleteStopPanic
<1>6. CASE DeleteClear(t)
  <2>1. req' \in [Threads -> RequestRecord] /\ NamesKnown'
    BY <1>6, FinishType DEF DeleteClear
  <2> QED
    BY <1>6, <2>1 DEF DeleteClear, TypeInv, TypeOK, registryVars,
                      RegistryTypeOK, ProcTypeOK
<1> QED
  BY <1>1, <1>2, <1>3, <1>4, <1>5, <1>6 DEF UnloadStep, DeleteStep

\* and so does a request that arrives.
LEMMA ArrivesType ==
  ASSUME TypeInv, NEW t \in Threads, RequestArrives(t)
  PROVE  TypeInv'
<1> USE DEF AllOps, PCs, Holding
<1>1. PICK n \in Names : ChatBegin(t, n) \/ LoadBegin(t, n) \/ UnloadBegin(t, n) \/ DeleteBegin(t, n)
  BY DEF RequestArrives
<1>2. req' \in [Threads -> RequestRecord] /\ NamesKnown'
  <2>1. CASE ChatBegin(t, n)
    BY <2>1, BeginType, GetType DEF ChatBegin
  <2>2. CASE LoadBegin(t, n)
    BY <2>2, BeginType, GetType DEF LoadBegin
  <2>3. CASE UnloadBegin(t, n) \/ DeleteBegin(t, n)
    BY <2>3, BeginType DEF UnloadBegin, DeleteBegin
  <2> QED
    BY <1>1, <2>1, <2>2, <2>3
<1>3. UNCHANGED <<registryVars, proc, llama, sem>>
  BY <1>1 DEF ChatBegin, LoadBegin, UnloadBegin, DeleteBegin
<1> QED
  BY <1>2, <1>3 DEF TypeInv, TypeOK, registryVars, RegistryTypeOK, ProcTypeOK

\* Every step of the gateway keeps the state well typed.
THEOREM NextType ==
  ASSUME TypeInv, [Next]_vars
  PROVE  TypeInv'
<1>1. ASSUME NEW t \in Threads, RequestArrives(t)
      PROVE  TypeInv'
  BY <1>1, ArrivesType
<1>2. ASSUME NEW t \in Threads, ThreadStep(t)
      PROVE  TypeInv'
  BY <1>2, ChatType, LoadType, UnloadDeleteType DEF ThreadStep
<1>3. ASSUME NEW p \in Procs, ProcessStep(p)
      PROVE  TypeInv'
  BY <1>3, ProcessStepType DEF ProcessStep, TypeInv, TypeOK, registryVars, RegistryTypeOK,
                               NamesKnown, pc, name
<1>4. CASE UNCHANGED vars
  BY <1>4 DEF vars, TypeInv, TypeOK, RegistryTypeOK, ProcTypeOK, NamesKnown, pc, name
<1> QED
  BY <1>1, <1>2, <1>3, <1>4 DEF Next

\* Every reachable state of the gateway is well typed.
THEOREM TypeCorrect == Spec => []TypeOK
<1>1. Spec => []TypeInv
  BY InitType, NextType, PTL DEF Spec
<1>2. TypeInv => TypeOK
  BY DEF TypeInv
<1> QED
  BY <1>1, <1>2, PTL

-----------------------------------------------------------------------------
(* What the steps of a thread do to its request *)

\* The receiver of the Start call a thread is in.
own(t) == req[t].own

\* Only the request of t changes.
OthersKeep(t) == \A u \in Threads \ {t} : req'[u] = req[u]

\* Goto moves the program counter of t,
LEMMA GotoMoves ==
  ASSUME TypeInv, NEW t \in Threads, NEW from, NEW to, Goto(t, from, to)
  PROVE  /\ OthersKeep(t)
         /\ pc(t) = from /\ pc(t)' = to
         /\ own(t)' = own(t) /\ name(t)' = name(t) /\ req'[t].op = req[t].op
         /\ req'[t].model = req[t].model
  BY DEF Goto, OthersKeep, TypeInv, TypeOK, RequestRecord, pc, own, name

\* Finish makes t idle,
LEMMA FinishMoves ==
  ASSUME TypeInv, NEW t \in Threads, NEW from, Finish(t, from)
  PROVE  OthersKeep(t) /\ pc(t) = from /\ req'[t] = NoRequest /\ pc(t)' = "idle" /\ own(t)' = NoProc
  BY DEF Finish, OthersKeep, TypeInv, TypeOK, RequestRecord, NoRequest, pc, own

\* Begin gives it a request,
LEMMA BeginMoves ==
  ASSUME TypeInv, NEW t \in Threads, NEW op, NEW n, NEW m, NEW to, Begin(t, op, n, m, to)
  PROVE  /\ OthersKeep(t)
         /\ pc(t) = "idle" /\ pc(t)' = to
         /\ own(t)' = NoProc /\ name(t)' = n /\ req'[t].op = op
  BY DEF Begin, OthersKeep, TypeInv, TypeOK, RequestRecord, pc, own, name

\* the second look of loadModel proceeds only if the model is not filed as ready,
LEMMA RecheckMoves ==
  ASSUME TypeInv, NEW t \in Threads, LazyRecheck(t)
  PROVE  /\ OthersKeep(t)
         /\ pc(t) = "recheck" /\ own(t)' = own(t) /\ name(t)' = name(t)
         /\ req'[t].op = req[t].op
         /\ \/ pc(t)' = "proxy" /\ Release(t)
            \/ /\ pc(t)' = "stopOld" /\ sem' = sem
               /\ name(t) \in Models => status[name(t)] # "ready"
<1>1. pc(t) = "recheck"
  BY DEF LazyRecheck
<1>2. PICK m \in Get(name(t)) :
         IF status[m] = "ready"
         THEN Goto(t, "recheck", "proxy") /\ Release(t)
         ELSE /\ req' = [req EXCEPT ![t].pc = "stopOld", ![t].model = m]
              /\ UNCHANGED sem
  BY DEF LazyRecheck
<1>3. CASE status[m] = "ready"
  BY <1>1, <1>2, <1>3, GotoMoves
<1>4. CASE status[m] # "ready"
  <2>1. req' = [req EXCEPT ![t] = [req[t] EXCEPT !.pc = "stopOld", !.model = m]]
    BY <1>2, <1>4 DEF TypeInv, TypeOK
  <2>2. /\ OthersKeep(t)
        /\ req'[t] = [req[t] EXCEPT !.pc = "stopOld", !.model = m]
    BY <2>1 DEF OthersKeep, TypeInv, TypeOK
  <2>3. pc(t)' = "stopOld" /\ own(t)' = own(t) /\ name(t)' = name(t) /\ req'[t].op = req[t].op
    BY <2>2 DEF TypeInv, TypeOK, RequestRecord, pc, own, name
  <2>4. name(t) \in Models => status[name(t)] # "ready"
    BY <1>2, <1>4 DEF Get
  <2> QED
    BY <1>1, <1>2, <1>4, <2>2, <2>3, <2>4
<1> QED
  BY <1>3, <1>4

\* Start is called on what the pointer holds,
LEMMA LoadStartMoves ==
  ASSUME TypeInv, NEW t \in Threads, LoadStart(t)
  PROVE  /\ OthersKeep(t)
         /\ pc(t) = "start" /\ pc(t)' = "spawn"
         /\ own(t)' = llama /\ name(t)' = name(t) /\ req'[t].op = req[t].op
<1>1. req' = [req EXCEPT ![t] = [req[t] EXCEPT !.pc = "spawn", !.own = llama]]
  BY DEF LoadStart, TypeInv, TypeOK
<1>2. OthersKeep(t) /\ req'[t] = [req[t] EXCEPT !.pc = "spawn", !.own = llama]
  BY <1>1 DEF OthersKeep, TypeInv, TypeOK
<1> QED
  BY <1>2 DEF LoadStart, TypeInv, TypeOK, RequestRecord, pc, own, name

\* and a load that succeeded ends, or goes on as a chat.
LEMMA LoadSetReadyMoves ==
  ASSUME TypeInv, NEW t \in Threads, LoadSetReady(t)
  PROVE  /\ OthersKeep(t)
         /\ pc(t) = "ready" /\ pc(t)' \in {"proxy", "idle"} /\ own(t)' = NoProc
         /\ pc(t)' = "proxy" => name(t)' = name(t)
<1>1. pc(t) = "ready"
  BY DEF LoadSetReady
<1>2. CASE req[t].op = "chat"
  <2>1. req' = [req EXCEPT ![t] = [req[t] EXCEPT !.pc = "proxy", !.own = NoProc]]
    BY <1>2 DEF LoadSetReady, TypeInv, TypeOK
  <2>2. OthersKeep(t) /\ req'[t] = [req[t] EXCEPT !.pc = "proxy", !.own = NoProc]
    BY <2>1 DEF OthersKeep, TypeInv, TypeOK
  <2> QED
    BY <1>1, <2>2 DEF TypeInv, TypeOK, RequestRecord, pc, own, name
<1>3. CASE req[t].op # "chat"
  BY <1>1, <1>3, FinishMoves DEF LoadSetReady
<1> QED
  BY <1>2, <1>3

-----------------------------------------------------------------------------
(* The semaphore *)

\* A step of t and the semaphore: t keeps inside or outside, takes it, or gives it back.
SemStep(t) ==
    \/ sem' = sem /\ (pc(t)' \in Holding <=> pc(t) \in Holding)
    \/ sem = NoThread /\ sem' = t /\ pc(t)' \in Holding
    \/ sem = t /\ sem' = NoThread /\ pc(t)' \notin Holding

\* The threads between acquiring and giving back are the holder, and nobody else.
Mutex == \A t \in Threads : pc(t) \in Holding <=> sem = t

\* Every step of a thread treats the semaphore that way: a request that arrives,
LEMMA ArrivesSem ==
  ASSUME TypeInv, Mutex, NEW t \in Threads, RequestArrives(t)
  PROVE  SemStep(t) /\ OthersKeep(t)
  BY BeginMoves DEF RequestArrives, ChatBegin, LoadBegin, UnloadBegin, DeleteBegin,
                    Holding, SemStep

\* a chat,
LEMMA ChatSem ==
  ASSUME TypeInv, Mutex, NEW t \in Threads, ChatStep(t)
  PROVE  SemStep(t) /\ OthersKeep(t)
<1> USE GotoMoves, FinishMoves DEF Holding, SemStep, Mutex
<1>1. CASE \/ ChatCheckRunning(t) \/ ChatCheckActive(t) \/ ProxyToLocal(t)
           \/ SendToPort(t) \/ ProxyToRemote(t) \/ LazyLookup(t)
  BY <1>1 DEF ChatCheckRunning, ChatCheckActive, ProxyToLocal, SendToPort, ProxyToRemote, LazyLookup
<1>2. CASE ProxyPanic(t)
  BY <1>2 DEF ProxyPanic, Panic, Release
<1>3. CASE LazyAcquire(t)
  BY <1>3 DEF LazyAcquire
<1>4. CASE LazyRecheck(t)
  BY <1>4, RecheckMoves DEF Release
<1> QED
  BY <1>1, <1>2, <1>3, <1>4 DEF ChatStep

\* a load,
LEMMA LoadSem ==
  ASSUME TypeInv, Mutex, NEW t \in Threads, LoadStep(t)
  PROVE  SemStep(t) /\ OthersKeep(t)
<1> USE GotoMoves, FinishMoves DEF Holding, SemStep, Mutex
<1>1. CASE LoadTryAcquire(t)
  BY <1>1 DEF LoadTryAcquire
<1>2. CASE \/ LoadCheckOld(t) \/ LoadStopOld(t) \/ LoadSetLoading(t) \/ LoadPublish(t)
           \/ LoadSpawn(t)
  BY <1>2 DEF LoadCheckOld, LoadStopOld, StopLlama, LoadSetLoading, LoadPublish, LoadSpawn
<1>3. CASE LoadStart(t)
  BY <1>3, LoadStartMoves DEF LoadStart
<1>4. CASE \/ LoadServerReady(t) \/ LoadServerFailed(t) \/ LoadExpired(t)
           \/ LoadAbort(t) \/ LoadAborted(t) \/ LoadSetError(t)
  BY <1>4 DEF LoadServerReady, LoadServerFailed, LoadExpired, LoadAbort, LoadAborted, LoadSetError
<1>5. CASE LoadStopOldPanic(t) \/ LoadStartPanic(t)
  BY <1>5 DEF LoadStopOldPanic, StopLlamaPanic, LoadStartPanic, Panic, Release
<1>6. CASE LoadAbortPanic(t) \/ LoadClear(t)
  BY <1>6 DEF LoadAbortPanic, LoadClear, Release
<1>7. CASE LoadSetReady(t)
  BY <1>7, LoadSetReadyMoves DEF LoadSetReady, Release
<1> QED
  BY <1>1, <1>2, <1>3, <1>4, <1>5, <1>6, <1>7 DEF LoadStep

\* an unload or a delete, which never touch it.
LEMMA UnloadDeleteSem ==
  ASSUME TypeInv, Mutex, NEW t \in Threads, UnloadStep(t) \/ DeleteStep(t)
  PROVE  SemStep(t) /\ OthersKeep(t)
<1> USE GotoMoves, FinishMoves DEF Holding, SemStep, Mutex
<1>1. CASE UnloadStop(t) \/ UnloadSetStatus(t) \/ UnloadClear(t)
  BY <1>1 DEF UnloadStop, StopLlama, UnloadSetStatus, UnloadClear
<1>2. CASE DeleteCheckNil(t) \/ DeleteStop(t) \/ DeleteClear(t)
  BY <1>2 DEF DeleteCheckNil, DeleteStop, StopLlama, DeleteClear
<1>3. CASE UnloadStopPanic(t) \/ DeleteStopPanic(t)
  BY <1>3 DEF UnloadStopPanic, DeleteStopPanic, StopLlamaPanic, Panic, Release
<1> QED
  BY <1>1, <1>2, <1>3 DEF UnloadStep, DeleteStep

\* Mutex is inductive.
THEOREM MutexStep ==
  ASSUME TypeInv, Mutex, [Next]_vars
  PROVE  Mutex'
<1>1. ASSUME NEW t \in Threads, RequestArrives(t) \/ ThreadStep(t)
      PROVE  Mutex'
  <2>1. SemStep(t) /\ OthersKeep(t)
    BY <1>1, ArrivesSem, ChatSem, LoadSem, UnloadDeleteSem DEF ThreadStep
  <2> QED
    BY <2>1 DEF SemStep, OthersKeep, Mutex, pc
<1>2. ASSUME NEW p \in Procs, ProcessStep(p)
      PROVE  Mutex'
  BY <1>2 DEF ProcessStep, Mutex, pc
<1>3. CASE UNCHANGED vars
  BY <1>3 DEF vars, Mutex, pc
<1> QED
  BY <1>1, <1>2, <1>3 DEF Next

-----------------------------------------------------------------------------
(* The pointer *)

\* The program counters from Start's first unlock to the end of the load.
Owning == {"spawn", "wait", "abort", "aborted", "failed", "clear", "ready"}

\* The pointer of a loader in that phase is its own process or nil.
OwnInv == \A t \in Threads :
    IF pc(t) \in Owning THEN own(t) \in Procs /\ llama \in {own(t), NoProc}
    ELSE own(t) = NoProc

\* A step of t, the receiver of its Start call, and the pointer: only LoadPublish
\* puts a process into the pointer.
OwnStep(t) ==
    /\ IF pc(t)' \in Owning
       THEN \/ pc(t) \in Owning /\ own(t)' = own(t)
            \/ llama \in Procs /\ own(t)' = llama
       ELSE own(t)' = NoProc
    /\ \/ llama' \in {llama, NoProc}
       \/ pc(t) = "publish" /\ pc(t)' = "start"

\* Every step of a thread is such a step: a request that arrives,
LEMMA ArrivesOwn ==
  ASSUME TypeInv, OwnInv, NEW t \in Threads, RequestArrives(t)
  PROVE  OwnStep(t)
  BY BeginMoves DEF RequestArrives, ChatBegin, LoadBegin, UnloadBegin, DeleteBegin,
                    Owning, OwnStep

\* a chat,
LEMMA ChatOwn ==
  ASSUME TypeInv, OwnInv, NEW t \in Threads, ChatStep(t)
  PROVE  OwnStep(t)
<1> USE GotoMoves, FinishMoves DEF Owning, OwnStep, OwnInv
<1>1. CASE \/ ChatCheckRunning(t) \/ ChatCheckActive(t) \/ ProxyToLocal(t) \/ ProxyPanic(t)
           \/ SendToPort(t) \/ ProxyToRemote(t) \/ LazyLookup(t) \/ LazyAcquire(t)
  BY <1>1 DEF ChatCheckRunning, ChatCheckActive, ProxyToLocal, ProxyPanic, Panic, SendToPort,
              ProxyToRemote, LazyLookup, LazyAcquire
<1>2. CASE LazyRecheck(t)
  BY <1>2, RecheckMoves DEF LazyRecheck
<1> QED
  BY <1>1, <1>2 DEF ChatStep

\* a load,
LEMMA LoadOwn ==
  ASSUME TypeInv, OwnInv, NEW t \in Threads, LoadStep(t)
  PROVE  OwnStep(t)
<1> USE GotoMoves, FinishMoves DEF Owning, OwnStep, OwnInv
<1>1. CASE \/ LoadTryAcquire(t) \/ LoadCheckOld(t) \/ LoadStopOld(t) \/ LoadStopOldPanic(t)
           \/ LoadSetLoading(t)
  BY <1>1 DEF LoadTryAcquire, LoadCheckOld, LoadStopOld, LoadStopOldPanic, StopLlama,
              StopLlamaPanic, Panic, LoadSetLoading
<1>2. CASE LoadPublish(t)
  BY <1>2 DEF LoadPublish
<1>3. CASE LoadStart(t)
  BY <1>3, LoadStartMoves DEF LoadStart, TypeInv, TypeOK
<1>4. CASE LoadStartPanic(t) \/ LoadSpawn(t)
  BY <1>4 DEF LoadStartPanic, Panic, LoadSpawn
<1>5. CASE \/ LoadServerReady(t) \/ LoadServerFailed(t) \/ LoadExpired(t)
           \/ LoadAbort(t) \/ LoadAbortPanic(t) \/ LoadAborted(t)
  BY <1>5 DEF LoadServerReady, LoadServerFailed, LoadExpired, LoadAbort, LoadAbortPanic, LoadAborted
<1>6. CASE LoadSetError(t) \/ LoadClear(t)
  BY <1>6 DEF LoadSetError, LoadClear
<1>7. CASE LoadSetReady(t)
  BY <1>7, LoadSetReadyMoves DEF LoadSetReady
<1> QED
  BY <1>1, <1>2, <1>3, <1>4, <1>5, <1>6, <1>7 DEF LoadStep

\* an unload or a delete.
LEMMA UnloadDeleteOwn ==
  ASSUME TypeInv, OwnInv, NEW t \in Threads, UnloadStep(t) \/ DeleteStep(t)
  PROVE  OwnStep(t)
<1> USE GotoMoves, FinishMoves DEF Owning, OwnStep, OwnInv
<1>1. CASE UnloadStep(t)
  BY <1>1 DEF UnloadStep, UnloadStop, UnloadStopPanic, StopLlama, StopLlamaPanic, Panic,
              UnloadSetStatus, UnloadClear
<1>2. CASE DeleteStep(t)
  BY <1>2 DEF DeleteStep, DeleteCheckNil, DeleteStop, DeleteStopPanic, StopLlama,
              StopLlamaPanic, Panic, DeleteClear
<1> QED
  BY <1>1, <1>2

\* OwnInv is inductive, because of Mutex: the thread that publishes is the only loader.
THEOREM OwnInvStep ==
  ASSUME TypeInv, Mutex, OwnInv, [Next]_vars
  PROVE  OwnInv'
<1>1. ASSUME NEW t \in Threads, RequestArrives(t) \/ ThreadStep(t)
      PROVE  OwnInv'
  <2>1. SemStep(t) /\ OthersKeep(t)
    BY <1>1, ArrivesSem, ChatSem, LoadSem, UnloadDeleteSem DEF ThreadStep
  <2>2. OwnStep(t)
    BY <1>1, ArrivesOwn, ChatOwn, LoadOwn, UnloadDeleteOwn DEF ThreadStep
  <2>3. ASSUME NEW u \in Threads \ {t}
        PROVE  IF pc(u)' \in Owning THEN own(u)' \in Procs /\ llama' \in {own(u)', NoProc}
               ELSE own(u)' = NoProc
    <3>1. pc(u)' = pc(u) /\ own(u)' = own(u)
      BY <2>1 DEF OthersKeep, pc, own
    <3>2. ~(pc(t) = "publish" /\ pc(u) \in Owning)
      BY DEF Mutex, Owning, Holding
    <3> QED
      BY <2>2, <3>1, <3>2 DEF OwnStep, OwnInv
  <2>4. IF pc(t)' \in Owning THEN own(t)' \in Procs /\ llama' \in {own(t)', NoProc}
        ELSE own(t)' = NoProc
    BY <2>2 DEF OwnStep, OwnInv, Owning
  <2> QED
    BY <2>3, <2>4 DEF OwnInv
<1>2. ASSUME NEW p \in Procs, ProcessStep(p)
      PROVE  OwnInv'
  BY <1>2 DEF ProcessStep, OwnInv, pc, own
<1>3. CASE UNCHANGED vars
  BY <1>3 DEF vars, OwnInv, pc, own
<1> QED
  BY <1>1, <1>2, <1>3 DEF Next

-----------------------------------------------------------------------------
(* The registry *)

\* The program counters of requests for local models.
LocalPCs == Holding \cup {"running", "active", "lookup", "acquire", "proxy", "send", "tryAcquire"}

\* A request that may end in a load names a local model, or an alias.
NameInv == \A t \in Threads :
    /\ pc(t) \in LocalPCs /\ name(t) \in Models => name(t) \in Local
    /\ pc(t) = "tryAcquire" => req[t].op = "load"

\* A step of t keeps its name, and reaches the load itself only from a load
\* request or from a second look that found the model not ready.
NameStep(t) ==
    /\ pc(t)' \in LocalPCs =>
          \/ pc(t) \in LocalPCs /\ name(t)' = name(t)
          \/ name(t)' \in Models => name(t)' \in Local
    /\ pc(t)' = "tryAcquire" => req'[t].op = "load"
    /\ pc(t)' \in Holding \ {"recheck"} =>
          /\ name(t)' = name(t) /\ req'[t].op = req[t].op
          /\ \/ pc(t) \in Holding \ {"recheck", "ready"}
             \/ pc(t) = "tryAcquire"
             \/ pc(t) = "recheck" /\ (name(t) \in Models => status[name(t)] # "ready")

\* A step of t files a model as ready only at the end of its load.
RegistryStep(t) ==
    \/ UNCHANGED registryVars
    \/ pc(t) = "ready" /\ SetStatus(name(t), "ready")
    \/ \E s \in Statuses \ {"ready"} : SetStatus(name(t), s)

\* Every step of a thread is of both kinds: a request that arrives,
LEMMA ArrivesName ==
  ASSUME TypeInv, NEW t \in Threads, RequestArrives(t)
  PROVE  NameStep(t) /\ RegistryStep(t)
<1> USE BeginMoves DEF LocalPCs, Holding, NameStep, RegistryStep
<1>1. PICK n \in Names : ChatBegin(t, n) \/ LoadBegin(t, n) \/ UnloadBegin(t, n) \/ DeleteBegin(t, n)
  BY DEF RequestArrives
<1>2. CASE ChatBegin(t, n)
  BY <1>2 DEF ChatBegin, Get
<1>3. CASE LoadBegin(t, n)
  BY <1>3 DEF LoadBegin, Get
<1>4. CASE UnloadBegin(t, n) \/ DeleteBegin(t, n)
  BY <1>4 DEF UnloadBegin, DeleteBegin
<1> QED
  BY <1>1, <1>2, <1>3, <1>4

\* a chat,
LEMMA ChatName ==
  ASSUME TypeInv, NEW t \in Threads, ChatStep(t)
  PROVE  NameStep(t) /\ RegistryStep(t)
<1> USE GotoMoves, FinishMoves DEF LocalPCs, Holding, NameStep, RegistryStep
<1>1. CASE \/ ChatCheckRunning(t) \/ ChatCheckActive(t) \/ ProxyToLocal(t) \/ ProxyPanic(t)
           \/ SendToPort(t) \/ ProxyToRemote(t)
  BY <1>1 DEF ChatCheckRunning, ChatCheckActive, ProxyToLocal, ProxyPanic, Panic, SendToPort,
              ProxyToRemote
<1>2. CASE LazyLookup(t) \/ LazyAcquire(t)
  BY <1>2 DEF LazyLookup, LazyAcquire
<1>3. CASE LazyRecheck(t)
  BY <1>3, RecheckMoves DEF LazyRecheck
<1> QED
  BY <1>1, <1>2, <1>3 DEF ChatStep

\* a load,
LEMMA LoadName ==
  ASSUME TypeInv, NEW t \in Threads, LoadStep(t)
  PROVE  NameStep(t) /\ RegistryStep(t)
<1> USE GotoMoves, FinishMoves DEF LocalPCs, Holding, NameStep, RegistryStep
<1>1. CASE \/ LoadTryAcquire(t) \/ LoadCheckOld(t) \/ LoadStopOld(t) \/ LoadStopOldPanic(t)
           \/ LoadPublish(t)
  BY <1>1 DEF LoadTryAcquire, LoadCheckOld, LoadStopOld, LoadStopOldPanic, StopLlama,
              StopLlamaPanic, Panic, LoadPublish
<1>2. CASE LoadStart(t)
  BY <1>2, LoadStartMoves DEF LoadStart
<1>3. CASE LoadStartPanic(t) \/ LoadSpawn(t) \/ LoadClear(t)
  BY <1>3 DEF LoadStartPanic, Panic, LoadSpawn, LoadClear
<1>4. CASE \/ LoadServerReady(t) \/ LoadServerFailed(t) \/ LoadExpired(t)
           \/ LoadAbort(t) \/ LoadAbortPanic(t) \/ LoadAborted(t)
  BY <1>4 DEF LoadServerReady, LoadServerFailed, LoadExpired, LoadAbort, LoadAbortPanic, LoadAborted
<1>5. CASE LoadSetLoading(t) \/ LoadSetError(t)
  BY <1>5 DEF LoadSetLoading, LoadSetError, Statuses
<1>6. CASE LoadSetReady(t)
  BY <1>6, LoadSetReadyMoves DEF LoadSetReady
<1> QED
  BY <1>1, <1>2, <1>3, <1>4, <1>5, <1>6 DEF LoadStep

\* an unload or a delete;
LEMMA UnloadDeleteName ==
  ASSUME TypeInv, NEW t \in Threads, UnloadStep(t) \/ DeleteStep(t)
  PROVE  NameStep(t) /\ RegistryStep(t)
<1> USE GotoMoves, FinishMoves DEF LocalPCs, Holding, NameStep, RegistryStep
<1>1. CASE UnloadStep(t)
  BY <1>1 DEF UnloadStep, UnloadStop, UnloadStopPanic, StopLlama, StopLlamaPanic, Panic,
              UnloadSetStatus, UnloadClear, Statuses
<1>2. CASE DeleteStep(t)
  BY <1>2 DEF DeleteStep, DeleteCheckNil, DeleteStop, DeleteStopPanic, StopLlama,
              StopLlamaPanic, Panic, DeleteClear
<1> QED
  BY <1>1, <1>2

\* so any step of a thread.
LEMMA ThreadName ==
  ASSUME TypeInv, NEW t \in Threads, RequestArrives(t) \/ ThreadStep(t)
  PROVE  NameStep(t) /\ RegistryStep(t)
  BY ArrivesName, ChatName, LoadName, UnloadDeleteName DEF ThreadStep

\* SetStatus changes the status of the name alone, if it is an id.
LEMMA SetStatusStatus ==
  ASSUME RegistryTypeOK, NEW n, NEW s, SetStatus(n, s)
  PROVE  \A m \in Models : status'[m] = IF m = n THEN s ELSE status[m]
  BY DEF SetStatus, RegistryTypeOK, registryVars

\* What the registry shows, with what makes it inductive.
RegistryInv == NameInv /\ ActiveStatusAgree /\ LazyNeverReloadsReady

\* RegistryInv is inductive: the models filed as ready only change at the end of
\* a load, and Mutex says that no other load is under way then.
THEOREM RegistryInvStep ==
  ASSUME TypeInv, Mutex, RegistryInv, [Next]_vars
  PROVE  RegistryInv'
<1>1. ASSUME NEW t \in Threads, RequestArrives(t) \/ ThreadStep(t)
      PROVE  RegistryInv'
  <2>1. SemStep(t) /\ OthersKeep(t)
    BY <1>1, ArrivesSem, ChatSem, LoadSem, UnloadDeleteSem DEF ThreadStep
  <2>2. NameStep(t) /\ RegistryStep(t)
    BY <1>1, ThreadName
  <2>3. \A u \in Threads \ {t} : pc(u)' = pc(u) /\ name(u)' = name(u) /\ req'[u].op = req[u].op
    BY <2>1 DEF OthersKeep, pc, name
  <2>4. NameInv'
    BY <2>2, <2>3 DEF NameStep, NameInv, RegistryInv
  <2>5. ActiveStatusAgree'
    <3>1. CASE UNCHANGED registryVars
      BY <3>1 DEF registryVars, RegistryInv, ActiveStatusAgree
    <3>2. CASE pc(t) = "ready" /\ SetStatus(name(t), "ready")
      <4>1. name(t) \in Models => name(t) \in Local
        BY <3>2 DEF RegistryInv, NameInv, LocalPCs, Holding
      <4> QED
        BY <3>2, <4>1 DEF SetStatus, registryVars, RegistryInv, ActiveStatusAgree, TypeInv, TypeOK,
                          RegistryTypeOK
    <3>3. ASSUME NEW s \in Statuses \ {"ready"}, SetStatus(name(t), s)
          PROVE  ActiveStatusAgree'
      BY <3>3 DEF SetStatus, registryVars, RegistryInv, ActiveStatusAgree, TypeInv, TypeOK,
                  RegistryTypeOK, Statuses
    <3> QED
      BY <2>2, <3>1, <3>2, <3>3 DEF RegistryStep
  <2>6. LazyNeverReloadsReady'
    <3>1. \A m \in Models : status'[m] = "ready" => status[m] = "ready" \/ pc(t) = "ready"
      BY <2>2, SetStatusStatus DEF RegistryStep, TypeInv, TypeOK, registryVars
    <3>2. ASSUME NEW u \in Threads \ {t}, req[u].op = "chat", pc(u) \in Holding \ {"recheck", "ready"},
                 name(u) \in Models
          PROVE  status'[name(u)] # "ready"
      <4>1. pc(t) # "ready"
        BY <3>2 DEF Mutex, Holding
      <4> QED
        BY <3>1, <3>2, <4>1 DEF RegistryInv, LazyNeverReloadsReady
    <3>3. ASSUME req'[t].op = "chat", pc(t)' \in Holding \ {"recheck", "ready"}, name(t)' \in Models
          PROVE  status'[name(t)'] # "ready"
      <4>1. name(t)' = name(t) /\ req[t].op = "chat"
        BY <2>2, <3>3 DEF NameStep
      <4>2. status[name(t)] # "ready" /\ pc(t) # "ready"
        BY <2>2, <3>3, <4>1 DEF NameStep, RegistryInv, NameInv, LazyNeverReloadsReady
      <4> QED
        BY <3>1, <3>3, <4>1, <4>2
    <3> QED
      BY <2>3, <3>2, <3>3 DEF LazyNeverReloadsReady
  <2> QED
    BY <2>4, <2>5, <2>6 DEF RegistryInv
<1>2. ASSUME NEW p \in Procs, ProcessStep(p)
      PROVE  RegistryInv'
  BY <1>2 DEF ProcessStep, registryVars, RegistryInv, NameInv, ActiveStatusAgree,
              LazyNeverReloadsReady, pc, name
<1>3. CASE UNCHANGED vars
  BY <1>3 DEF vars, RegistryInv, NameInv, ActiveStatusAgree, LazyNeverReloadsReady, pc, name
<1> QED
  BY <1>1, <1>2, <1>3 DEF Next

-----------------------------------------------------------------------------
(* The process objects *)

\* Handlers that have stopped a process and are about to clear the pointer.
Clearing == {"unloadSet", "unloadClear", "deleteClear"}

\* As New has made it.
Fresh(p) == /\ proc[p].state = "stopped" /\ proc[p].server = "none"
            /\ ~proc[p].stopCh /\ proc[p].poll = "off" /\ proc[p].monitor = "off"

\* What Start is called on is as New made it, however many handlers called Stop
\* on it in between.
FreshAtStart == \A t \in Threads : pc(t) = "start" /\ llama # NoProc => Fresh(llama)

\* Nobody has closed the stopCh of an object that has no child yet.
UnspawnedAtSpawn == \A t \in Threads : pc(t) = "spawn" =>
    /\ proc[own(t)].server = "none" /\ ~proc[own(t)].stopCh
    /\ proc[own(t)].poll = "off" /\ proc[own(t)].monitor = "off"

\* An object is starting only while its loader is inside Start,
StartingOwned == \A p \in Procs : proc[p].state = "starting" =>
    \E t \in Threads : own(t) = p /\ pc(t) \in {"spawn", "wait", "abort", "aborted"}

\* polled for only while its loader waits,
PollOwned == \A p \in Procs : proc[p].poll # "off" =>
    \E t \in Threads : own(t) = p /\ pc(t) \in {"wait", "abort"}

\* and is both starting and told to stop only half-way through Start's own stop().
StartingOpen == \A p \in Procs : proc[p].state = "starting" /\ proc[p].stopCh =>
    \E t \in Threads : own(t) = p /\ pc(t) = "aborted"

\* A process stopped under the feet of its loader is about to be cleared.
StoppedIsCleared == \A t \in Threads :
    pc(t) \in {"wait", "abort"} /\ llama = own(t) /\ proc[own(t)].stopCh =>
        \E u \in Threads : pc(u) \in Clearing

\* A published process that has not come up is in the hands of its loader, or of
\* a handler about to clear it.
UnmonitoredInHand == llama # NoProc /\ proc[llama].monitor = "off" =>
    \E t \in Threads : pc(t) \in Clearing \cup (Owning \ {"ready"}) \cup {"start"}

\* What ties the process objects to the threads.
ProcInv == /\ FreshAtStart /\ UnspawnedAtSpawn /\ StartingOwned /\ PollOwned
           /\ StartingOpen /\ StoppedIsCleared /\ UnmonitoredInHand

\* The program counters ProcInv speaks of.
Special == Owning \cup Clearing \cup {"start"}

\* Thread t goes from one program counter to another, and nobody else does.
Moves(t, from, to) ==
    /\ pc(t) = from /\ pc(t)' = to
    /\ \A u \in Threads \ {t} : pc(u)' = pc(u) /\ own(u)' = own(u)

\* A step that leaves the other requests alone is a move;
LEMMA MovesIntro ==
  ASSUME NEW t \in Threads, OthersKeep(t), NEW from, NEW to, pc(t) = from, pc(t)' = to
  PROVE  Moves(t, from, to)
  BY DEF OthersKeep, Moves, pc, own

\* Goto is,
LEMMA GotoMove ==
  ASSUME TypeInv, NEW t \in Threads, NEW from, NEW to, Goto(t, from, to)
  PROVE  Moves(t, from, to) /\ own(t)' = own(t)
  BY GotoMoves, MovesIntro

\* and Finish.
LEMMA FinishMove ==
  ASSUME TypeInv, NEW t \in Threads, NEW from, Finish(t, from)
  PROVE  Moves(t, from, "idle") /\ own(t)' = NoProc
  BY FinishMoves, MovesIntro

\* ProcInv survives a move outside the special places with the processes untouched,
LEMMA ProcInvBland ==
  ASSUME ProcInv, OwnInv, OwnInv', NEW t \in Threads, NEW from, NEW to,
         Moves(t, from, to), from \notin Special, to \notin Special,
         UNCHANGED <<proc, llama>>
  PROVE  ProcInv'
<1>1. FreshAtStart'
  BY DEF ProcInv, FreshAtStart, Fresh, Moves, Special
<1>2. UnspawnedAtSpawn'
  BY DEF ProcInv, UnspawnedAtSpawn, Moves, Special, Owning
<1>3. StartingOwned'
  BY DEF ProcInv, StartingOwned, Moves, Special, Owning
<1>4. PollOwned'
  BY DEF ProcInv, PollOwned, Moves, Special, Owning
<1>5. StartingOpen'
  BY DEF ProcInv, StartingOpen, Moves, Special, Owning
<1>6. StoppedIsCleared'
  BY DEF ProcInv, StoppedIsCleared, Moves, Special, Owning
<1>7. UnmonitoredInHand'
  BY DEF ProcInv, UnmonitoredInHand, Moves, Special
<1> QED
  BY <1>1, <1>2, <1>3, <1>4, <1>5, <1>6, <1>7 DEF ProcInv

\* a Stop by an unload, a delete, or a loader that clears the way,
LEMMA ProcInvStop ==
  ASSUME TypeInv, Mutex, ProcInv, OwnInv, OwnInv', NEW t \in Threads, NEW from, NEW to,
         Moves(t, from, to), from \notin Special,
         to \in Clearing \/ (from = "stopNow" /\ to \notin Special),
         llama \in Procs, Stop(llama), UNCHANGED llama
  PROVE  ProcInv'
<1>0. /\ Others(llama)
      /\ proc'[llama].state = "stopped"
      /\ proc'[llama].server = proc[llama].server
      /\ proc'[llama].poll = proc[llama].poll /\ proc'[llama].monitor = proc[llama].monitor
      /\ proc'[llama].stopCh =>
            proc[llama].stopCh \/ (proc[llama].state # "stopped" /\ proc[llama].server # "none")
  BY StopEffect DEF TypeInv, TypeOK
<1>a. \A u \in Threads : own(u)' = own(u)
  BY DEF OwnInv, Moves, Special, Owning, Clearing
<1>b. from = "stopNow" => \A u \in Threads : pc(u) \notin Owning
  BY DEF Moves, Mutex, Owning, Holding
<1>1. FreshAtStart'
  BY <1>0 DEF ProcInv, FreshAtStart, Fresh, Moves, Special, Clearing
<1>2. UnspawnedAtSpawn'
  BY <1>0, <1>a DEF ProcInv, UnspawnedAtSpawn, Moves, Special, Owning, OwnInv
<1>3. StartingOwned'
  BY <1>0 DEF ProcInv, StartingOwned, Moves, Special, Owning, Others
<1>4. PollOwned'
  BY <1>0 DEF ProcInv, PollOwned, Moves, Special, Owning, Others
<1>5. StartingOpen'
  BY <1>0 DEF ProcInv, StartingOpen, Moves, Special, Owning, Others
<1>6. StoppedIsCleared'
  BY <1>b DEF StoppedIsCleared, Moves, Special, Owning
<1>7. UnmonitoredInHand'
  BY <1>0 DEF ProcInv, UnmonitoredInHand, Moves, Special
<1> QED
  BY <1>1, <1>2, <1>3, <1>4, <1>5, <1>6, <1>7 DEF ProcInv

\* the registry update of an unload,
LEMMA ProcInvUnloadSet ==
  ASSUME TypeInv, Mutex, ProcInv, OwnInv, OwnInv', NEW t \in Threads,
         Moves(t, "unloadSet", "unloadClear"), UNCHANGED <<proc, llama>>
  PROVE  ProcInv'
<1>1. FreshAtStart'
  BY DEF ProcInv, FreshAtStart, Fresh, Moves
<1>2. UnspawnedAtSpawn'
  BY DEF ProcInv, UnspawnedAtSpawn, Moves
<1>3. StartingOwned'
  BY DEF ProcInv, StartingOwned, Moves
<1>4. PollOwned'
  BY DEF ProcInv, PollOwned, Moves
<1>5. StartingOpen'
  BY DEF ProcInv, StartingOpen, Moves
<1>6. StoppedIsCleared'
  BY DEF StoppedIsCleared, Moves, Clearing
<1>7. UnmonitoredInHand'
  BY DEF UnmonitoredInHand, Moves, Clearing
<1> QED
  BY <1>1, <1>2, <1>3, <1>4, <1>5, <1>6, <1>7 DEF ProcInv

\* the nil assignment of an unload or a delete,
LEMMA ProcInvUnloadClear ==
  ASSUME TypeInv, Mutex, ProcInv, OwnInv, OwnInv', NEW t \in Threads,
         NEW from, Moves(t, from, "idle"), from \in {"unloadClear", "deleteClear"},
         llama' = NoProc, UNCHANGED proc
  PROVE  ProcInv'
<1>1. FreshAtStart'
  BY DEF FreshAtStart
<1>2. UnspawnedAtSpawn'
  BY DEF ProcInv, UnspawnedAtSpawn, Moves
<1>3. StartingOwned'
  BY DEF ProcInv, StartingOwned, Moves
<1>4. PollOwned'
  BY DEF ProcInv, PollOwned, Moves
<1>5. StartingOpen'
  BY DEF ProcInv, StartingOpen, Moves
<1>6. StoppedIsCleared'
  BY DEF StoppedIsCleared, Owning, OwnInv
<1>7. UnmonitoredInHand'
  BY DEF UnmonitoredInHand
<1> QED
  BY <1>1, <1>2, <1>3, <1>4, <1>5, <1>6, <1>7 DEF ProcInv

\* s.llama = llama.New(cfg),
LEMMA ProcInvPublish ==
  ASSUME TypeInv, Mutex, ProcInv, OwnInv, OwnInv', NEW t \in Threads,
         Moves(t, "publish", "start"), NEW p \in Garbage, NEW w,
         proc' = [proc EXCEPT ![p] = NewProcess(w)], llama' = p
  PROVE  ProcInv'
<1>a. \A u \in Threads : own(u)' = own(u)
  BY DEF OwnInv, Moves, Special, Owning, Clearing
<1>c. p \in Procs /\ \A u \in Threads : own(u) # p
  BY DEF Garbage, own
<1>d. Others(p) /\ proc'[p] = NewProcess(w)
  BY <1>c DEF Others, TypeInv, TypeOK, ProcTypeOK
<1>1. FreshAtStart'
  BY <1>d DEF FreshAtStart, Fresh, NewProcess
<1>2. UnspawnedAtSpawn'
  BY <1>c DEF ProcInv, UnspawnedAtSpawn, Moves
<1>3. StartingOwned'
  BY DEF ProcInv, StartingOwned, Moves, NewProcess
<1>4. PollOwned'
  BY DEF ProcInv, PollOwned, Moves, NewProcess
<1>5. StartingOpen'
  BY DEF ProcInv, StartingOpen, Moves, NewProcess
<1>6. StoppedIsCleared'
  BY <1>a, <1>c DEF StoppedIsCleared
<1>7. UnmonitoredInHand'
  BY DEF UnmonitoredInHand, Moves
<1> QED
  BY <1>1, <1>2, <1>3, <1>4, <1>5, <1>6, <1>7 DEF ProcInv

\* the call of Start,
LEMMA ProcInvStart ==
  ASSUME TypeInv, Mutex, ProcInv, OwnInv, OwnInv', NEW t \in Threads,
         Moves(t, "start", "spawn"), llama \in Procs, own(t)' = llama,
         StartLocked(llama), UNCHANGED llama
  PROVE  ProcInv'
<1>b. \A u \in Threads \ {t} : pc(u) \notin Holding
  BY DEF Moves, Mutex, Holding
<1>c. Fresh(llama)
  BY DEF ProcInv, FreshAtStart, Moves
<1>d. /\ Others(llama)
      /\ proc[llama].state = "stopped"
      /\ proc'[llama].state = "starting"
      /\ proc'[llama].server = proc[llama].server
      /\ proc'[llama].stopCh = proc[llama].stopCh
      /\ proc'[llama].poll = proc[llama].poll
      /\ proc'[llama].monitor = proc[llama].monitor
  BY StartLockedEffect DEF TypeInv, TypeOK
<1>1. FreshAtStart'
  BY <1>b DEF FreshAtStart, Moves, Holding
<1>2. UnspawnedAtSpawn'
  BY <1>c, <1>d DEF UnspawnedAtSpawn, Moves, OwnInv, Fresh
<1>3. StartingOwned'
  BY <1>d DEF ProcInv, StartingOwned, Moves, Others
<1>4. PollOwned'
  BY <1>d DEF ProcInv, PollOwned, Moves, Others
<1>5. StartingOpen'
  BY <1>c, <1>d DEF ProcInv, StartingOpen, Moves, Others, Fresh
<1>6. StoppedIsCleared'
  BY <1>d DEF ProcInv, StoppedIsCleared, Moves, Clearing
<1>7. UnmonitoredInHand'
  BY DEF UnmonitoredInHand, Moves, Owning
<1> QED
  BY <1>1, <1>2, <1>3, <1>4, <1>5, <1>6, <1>7 DEF ProcInv

\* and the same call on a nil pointer.
LEMMA ProcInvStartPanic ==
  ASSUME TypeInv, Mutex, ProcInv, OwnInv, OwnInv', NEW t \in Threads,
         Moves(t, "start", "idle"), llama = NoProc, UNCHANGED <<proc, llama>>
  PROVE  ProcInv'
<1>1. FreshAtStart'
  BY DEF FreshAtStart
<1>2. UnspawnedAtSpawn'
  BY DEF ProcInv, UnspawnedAtSpawn, Moves
<1>3. StartingOwned'
  BY DEF ProcInv, StartingOwned, Moves
<1>4. PollOwned'
  BY DEF ProcInv, PollOwned, Moves
<1>5. StartingOpen'
  BY DEF ProcInv, StartingOpen, Moves
<1>6. StoppedIsCleared'
  BY DEF ProcInv, StoppedIsCleared, Moves, Clearing
<1>7. UnmonitoredInHand'
  BY DEF UnmonitoredInHand
<1> QED
  BY <1>1, <1>2, <1>3, <1>4, <1>5, <1>6, <1>7 DEF ProcInv

\* What a loader inside Start or after it owes at its next program counter, of the
\* object it started.
OwnDone(t, to) ==
    LET p == own(t) IN
    /\ proc'[p].state = "starting" => to \in {"wait", "abort", "aborted"}
    /\ proc'[p].state = "starting" /\ proc'[p].stopCh => to = "aborted"
    /\ proc'[p].poll # "off" => to \in {"wait", "abort"}
    /\ to \in {"wait", "abort"} /\ llama = p /\ proc'[p].stopCh =>
          \E u \in Threads : pc(u) \in Clearing
    /\ llama' = p /\ proc'[p].monitor = "off" =>
          \/ to \in Owning \ {"ready"}
          \/ \E u \in Threads : pc(u) \in Clearing

\* A loader that has called Start and pays this keeps ProcInv.
LEMMA ProcInvLoader ==
  ASSUME TypeInv, Mutex, ProcInv, OwnInv, OwnInv', NEW t \in Threads, NEW from, NEW to,
         Moves(t, from, to), from \in Owning, to \in (Owning \ {"spawn"}) \cup {"idle", "proxy"},
         to \in Owning => own(t)' = own(t), llama' \in {llama, NoProc},
         Others(own(t)), OwnDone(t, to)
  PROVE  ProcInv'
<1>a. \A u \in Threads \ {t} : pc(u) \notin Holding
  BY DEF Moves, Mutex, Holding, Owning
<1>b. own(t) \in Procs /\ llama \in {own(t), NoProc}
  BY DEF Moves, OwnInv
<1>1. FreshAtStart'
  BY <1>a DEF FreshAtStart, Moves, Owning, Holding
<1>2. UnspawnedAtSpawn'
  BY <1>a DEF UnspawnedAtSpawn, Moves, Holding
<1>3. StartingOwned'
  BY DEF ProcInv, StartingOwned, OwnDone, Moves, Others
<1>4. PollOwned'
  BY DEF ProcInv, PollOwned, OwnDone, Moves, Others
<1>5. StartingOpen'
  BY DEF ProcInv, StartingOpen, OwnDone, Moves, Others
<1>6. StoppedIsCleared'
  BY <1>a, <1>b DEF StoppedIsCleared, OwnDone, Moves, Owning, Clearing, Holding
<1>7. UnmonitoredInHand'
  BY <1>b DEF UnmonitoredInHand, OwnDone, Moves, Owning, Clearing
<1> QED
  BY <1>1, <1>2, <1>3, <1>4, <1>5, <1>6, <1>7 DEF ProcInv

\* Every step of a loader that has called Start pays.
LEMMA LoaderProc ==
  ASSUME TypeInv, Mutex, ProcInv, OwnInv, OwnInv', NEW t \in Threads,
         \/ LoadSpawn(t) \/ LoadServerReady(t) \/ LoadServerFailed(t) \/ LoadExpired(t)
         \/ LoadAbort(t) \/ LoadAbortPanic(t) \/ LoadAborted(t)
         \/ LoadSetError(t) \/ LoadClear(t) \/ LoadSetReady(t)
  PROVE  ProcInv'
<1> USE DEF Owning
<1>0. ProcTypeOK /\ pc(t) \in Owning /\ own(t) \in Procs /\ llama \in {own(t), NoProc}
  BY DEF TypeInv, TypeOK, OwnInv, LoadSpawn, LoadServerReady, LoadServerFailed, LoadExpired,
         LoadAbort, LoadAbortPanic, LoadAborted, LoadSetError, LoadClear, LoadSetReady, Goto, Finish
<1>a. \A u \in Threads \ {t} : pc(u) \notin Holding
  BY <1>0 DEF Mutex, Holding
<1>b. /\ pc(t) = "spawn" => ~proc[own(t)].stopCh /\ proc[own(t)].poll = "off"
      /\ proc[own(t)].state = "starting" => pc(t) \in {"spawn", "wait", "abort", "aborted"}
      /\ proc[own(t)].state = "starting" /\ proc[own(t)].stopCh => pc(t) = "aborted"
      /\ proc[own(t)].poll # "off" => pc(t) \in {"wait", "abort"}
  BY <1>0, <1>a DEF ProcInv, UnspawnedAtSpawn, StartingOwned, StartingOpen, PollOwned, Holding
<1>c. /\ pc(t) \in {"wait", "abort"} /\ llama = own(t) /\ proc[own(t)].stopCh =>
            \E u \in Threads : pc(u) \in Clearing
      /\ pc(t) = "ready" /\ llama # NoProc /\ proc[llama].monitor = "off" =>
            \E u \in Threads : pc(u) \in Clearing
  BY <1>a DEF ProcInv, StoppedIsCleared, UnmonitoredInHand, Holding
<1>1. CASE LoadSpawn(t) /\ pc(t)' = "wait"
  <2>1. Moves(t, "spawn", "wait") /\ own(t)' = own(t) /\ SpawnOk(own(t)) /\ llama' = llama
    BY <1>1, GotoMove DEF LoadSpawn, Moves, own
  <2>2. Others(own(t)) /\ OwnDone(t, "wait")
    BY <1>0, <1>b, <2>1, SpawnOkEffect DEF OwnDone, Moves
  <2> QED
    BY <2>1, <2>2, ProcInvLoader
<1>2. CASE LoadSpawn(t) /\ pc(t)' # "wait"
  <2>1. Moves(t, "spawn", "failed") /\ own(t)' = own(t) /\ SpawnFails(own(t)) /\ llama' = llama
    BY <1>2, GotoMove DEF LoadSpawn, Moves, own
  <2>2. Others(own(t)) /\ OwnDone(t, "failed")
    BY <1>0, <1>b, <2>1, SpawnFailsEffect DEF OwnDone, Moves
  <2> QED
    BY <2>1, <2>2, ProcInvLoader
<1>3. CASE LoadServerReady(t)
  <2>1. Moves(t, "wait", "ready") /\ own(t)' = own(t) /\ llama' \in {llama, NoProc}
    BY <1>3, GotoMove DEF LoadServerReady
  <2>2. Others(own(t)) /\ OwnDone(t, "ready")
    BY <1>0, <1>b, <1>c, <1>3, <2>1, TakeReadyEffect DEF LoadServerReady, OwnDone, Others, Moves, own
  <2> QED
    BY <2>1, <2>2, ProcInvLoader
<1>4. CASE LoadServerFailed(t)
  <2>1. Moves(t, "wait", "failed") /\ own(t)' = own(t) /\ llama' \in {llama, NoProc}
    BY <1>4, GotoMove DEF LoadServerFailed
  <2>2. Others(own(t)) /\ OwnDone(t, "failed")
    BY <1>0, <1>b, <1>c, <1>4, <2>1, TakeErrorEffect DEF LoadServerFailed, OwnDone, Others, Moves, own
  <2> QED
    BY <2>1, <2>2, ProcInvLoader
<1>5. CASE LoadExpired(t)
  <2>1. Moves(t, "wait", "abort") /\ own(t)' = own(t) /\ llama' \in {llama, NoProc}
    BY <1>5, GotoMove DEF LoadExpired
  <2>2. Others(own(t)) /\ OwnDone(t, "abort")
    BY <1>0, <1>b, <1>c, <1>5, <2>1 DEF LoadExpired, OwnDone, Others, Moves, own
  <2> QED
    BY <2>1, <2>2, ProcInvLoader
<1>6. CASE LoadAbort(t)
  <2>1. Moves(t, "abort", "aborted") /\ own(t)' = own(t) /\ llama' \in {llama, NoProc}
    BY <1>6, GotoMove DEF LoadAbort
  <2>2. Others(own(t)) /\ OwnDone(t, "aborted")
    BY <1>0, <1>b, <1>c, <1>6, <2>1, AbortCloseEffect DEF LoadAbort, OwnDone, Others, Moves, own
  <2> QED
    BY <2>1, <2>2, ProcInvLoader
<1>7. CASE LoadAbortPanic(t)
  <2>1. Moves(t, "abort", "idle") /\ llama' \in {llama, NoProc}
    BY <1>7, FinishMove DEF LoadAbortPanic
  <2>2. /\ Others(own(t)) /\ proc'[own(t)].poll = "off" /\ proc[own(t)].stopCh
        /\ proc'[own(t)].state = proc[own(t)].state
    BY <1>0, <1>7 DEF LoadAbortPanic, Others, ProcTypeOK, ProcRecord, own
  <2>3. OwnDone(t, "idle")
    BY <1>0, <1>b, <1>c, <2>1, <2>2 DEF OwnDone, Moves
  <2> QED
    BY <2>1, <2>2, <2>3, ProcInvLoader
<1>8. CASE LoadAborted(t)
  <2>1. Moves(t, "aborted", "failed") /\ own(t)' = own(t) /\ llama' \in {llama, NoProc}
    BY <1>8, GotoMove DEF LoadAborted
  <2>2. Others(own(t)) /\ OwnDone(t, "failed")
    BY <1>0, <1>b, <1>c, <1>8, <2>1, AbortStoppedEffect DEF LoadAborted, OwnDone, Others, Moves, own
  <2> QED
    BY <2>1, <2>2, ProcInvLoader
<1>9. CASE LoadSetError(t)
  <2>1. Moves(t, "failed", "clear") /\ own(t)' = own(t) /\ llama' \in {llama, NoProc}
    BY <1>9, GotoMove DEF LoadSetError
  <2>2. Others(own(t)) /\ OwnDone(t, "clear")
    BY <1>0, <1>b, <1>c, <1>9, <2>1 DEF LoadSetError, OwnDone, Others, Moves, own
  <2> QED
    BY <2>1, <2>2, ProcInvLoader
<1>10. CASE LoadClear(t)
  <2>1. Moves(t, "clear", "idle") /\ llama' \in {llama, NoProc}
    BY <1>10, FinishMove DEF LoadClear
  <2>2. Others(own(t)) /\ OwnDone(t, "idle")
    BY <1>0, <1>b, <1>c, <1>10, <2>1 DEF LoadClear, OwnDone, Others, Moves, own
  <2> QED
    BY <2>1, <2>2, ProcInvLoader
<1>11. CASE LoadSetReady(t)
  <2>1. PICK to \in {"proxy", "idle"} : Moves(t, "ready", to)
    BY <1>11, LoadSetReadyMoves, MovesIntro
  <2>2. UNCHANGED <<proc, llama>>
    BY <1>11 DEF LoadSetReady
  <2>3. Others(own(t)) /\ OwnDone(t, to)
    BY <1>0, <1>b, <1>c, <2>1, <2>2 DEF OwnDone, Others, Moves
  <2> QED
    BY <2>1, <2>2, <2>3, ProcInvLoader
<1> QED
  BY <1>1, <1>2, <1>3, <1>4, <1>5, <1>6, <1>7, <1>8, <1>9, <1>10, <1>11

\* A step of a child or of its goroutines keeps ProcInv: it never concerns an
\* object that is as New made it.
LEMMA ProcInvBackground ==
  ASSUME TypeInv, ProcInv, OwnInv, NEW p \in Procs, Others(p), UNCHANGED <<llama, sem, req>>,
         proc[p].server # "none" \/ proc[p].poll # "off" \/ proc[p].monitor # "off",
         proc'[p].state \in {proc[p].state, "failed"}, proc'[p].stopCh = proc[p].stopCh,
         proc'[p].poll # "off" => proc[p].poll # "off",
         proc'[p].monitor = "off" => proc[p].monitor = "off"
  PROVE  ProcInv'
<1>a. \A t \in Threads : pc(t)' = pc(t) /\ own(t)' = own(t)
  BY DEF pc, own
<1>b. llama \in Procs \cup {NoProc}
  BY DEF TypeInv, TypeOK
<1>1. FreshAtStart'
  BY <1>a, <1>b DEF ProcInv, FreshAtStart, Fresh, Others
<1>2. UnspawnedAtSpawn'
  BY <1>a DEF ProcInv, UnspawnedAtSpawn, Owning, Others, OwnInv
<1>3. StartingOwned'
  BY <1>a DEF ProcInv, StartingOwned, Others
<1>4. PollOwned'
  BY <1>a DEF ProcInv, PollOwned, Others
<1>5. StartingOpen'
  BY <1>a DEF ProcInv, StartingOpen, Others
<1>6. StoppedIsCleared'
  BY <1>a DEF ProcInv, StoppedIsCleared, Owning, Others, OwnInv
<1>7. UnmonitoredInHand'
  BY <1>a, <1>b DEF ProcInv, UnmonitoredInHand, Others
<1> QED
  BY <1>1, <1>2, <1>3, <1>4, <1>5, <1>6, <1>7 DEF ProcInv

\* The steps of children, pollers and monitors keep ProcInv.
LEMMA ProcInvProcess ==
  ASSUME TypeInv, ProcInv, OwnInv, NEW p \in Procs, ProcessStep(p)
  PROVE  ProcInv'
<1>0. ProcTypeOK /\ UNCHANGED <<llama, sem, req>>
  BY DEF ProcessStep, TypeInv, TypeOK
<1>1. CASE PollOk(p)
  BY <1>0, <1>1, PollOkEffect, ProcInvBackground
<1>2. CASE PollErr(p)
  BY <1>0, <1>2, PollErrEffect, ProcInvBackground
<1>3. CASE MonitorWait(p)
  BY <1>0, <1>3, MonitorWaitEffect, ProcInvBackground
<1>4. CASE MonitorFail(p)
  BY <1>0, <1>4, MonitorFailEffect, ProcInvBackground
<1>5. CASE Bind(p)
  BY <1>0, <1>5, BindEffect, ProcInvBackground
<1>6. CASE Exit(p)
  BY <1>0, <1>6, ExitEffect, ProcInvBackground
<1> QED
  BY <1>1, <1>2, <1>3, <1>4, <1>5, <1>6 DEF ProcessStep

\* Every step of a thread keeps ProcInv: a request that arrives,
LEMMA ArrivesProc ==
  ASSUME TypeInv, Mutex, ProcInv, OwnInv, OwnInv', NEW t \in Threads, RequestArrives(t)
  PROVE  ProcInv'
<1>1. PICK n \in Names : ChatBegin(t, n) \/ LoadBegin(t, n) \/ UnloadBegin(t, n) \/ DeleteBegin(t, n)
  BY DEF RequestArrives
<1>2. PICK to : pc(t) = "idle" /\ pc(t)' = to /\ OthersKeep(t) /\ to \notin Special
  BY <1>1, BeginMoves DEF ChatBegin, LoadBegin, UnloadBegin, DeleteBegin, Special, Owning, Clearing
<1>3. Moves(t, "idle", to)
  BY <1>2, MovesIntro
<1>4. UNCHANGED <<proc, llama>>
  BY <1>1 DEF ChatBegin, LoadBegin, UnloadBegin, DeleteBegin
<1> QED
  BY <1>2, <1>3, <1>4, ProcInvBland DEF Special, Owning, Clearing

\* a chat,
LEMMA ChatProc ==
  ASSUME TypeInv, Mutex, ProcInv, OwnInv, OwnInv', NEW t \in Threads, ChatStep(t)
  PROVE  ProcInv'
<1>1. UNCHANGED <<proc, llama>>
  BY DEF ChatStep, ChatCheckRunning, ChatCheckActive, ProxyToLocal, ProxyPanic, Panic,
         SendToPort, ProxyToRemote, LazyLookup, LazyAcquire, LazyRecheck
<1>2. PICK from, to : Moves(t, from, to) /\ from \notin Special /\ to \notin Special
  <2> USE GotoMove, FinishMove DEF Special, Owning, Clearing
  <2>1. CASE \/ ChatCheckRunning(t) \/ ChatCheckActive(t) \/ ProxyToLocal(t) \/ ProxyPanic(t)
             \/ SendToPort(t) \/ ProxyToRemote(t)
    BY <2>1 DEF ChatCheckRunning, ChatCheckActive, ProxyToLocal, ProxyPanic, Panic, SendToPort,
                ProxyToRemote
  <2>2. CASE LazyLookup(t) \/ LazyAcquire(t)
    BY <2>2 DEF LazyLookup, LazyAcquire
  <2>3. CASE LazyRecheck(t)
    BY <2>3, RecheckMoves, MovesIntro
  <2> QED
    BY <2>1, <2>2, <2>3 DEF ChatStep
<1> QED
  BY <1>1, <1>2, ProcInvBland

\* a call of Stop, or its panic,
LEMMA StopLlamaProc ==
  ASSUME TypeInv, Mutex, ProcInv, OwnInv, OwnInv', NEW t \in Threads, NEW from, NEW to,
         from \notin Special, to \in Clearing \/ (from = "stopNow" /\ to \notin Special),
         StopLlama(t, from, to) \/ StopLlamaPanic(t, from)
  PROVE  ProcInv'
<1>1. CASE StopLlama(t, from, to)
  BY <1>1, GotoMove, ProcInvStop DEF StopLlama, TypeInv, TypeOK
<1>2. CASE StopLlamaPanic(t, from)
  BY <1>2, FinishMove, ProcInvBland DEF StopLlamaPanic, Panic, Special, Owning, Clearing
<1> QED
  BY <1>1, <1>2

\* a load,
LEMMA LoadProc ==
  ASSUME TypeInv, Mutex, ProcInv, OwnInv, OwnInv', NEW t \in Threads, LoadStep(t)
  PROVE  ProcInv'
<1> USE DEF Special, Owning, Clearing
<1>1. CASE LoadTryAcquire(t)
  BY <1>1, GotoMove, FinishMove, ProcInvBland DEF LoadTryAcquire
<1>2. CASE LoadCheckOld(t)
  BY <1>2, GotoMove, ProcInvBland DEF LoadCheckOld
<1>3. CASE LoadStopOld(t) \/ LoadStopOldPanic(t)
  BY <1>3, StopLlamaProc DEF LoadStopOld, LoadStopOldPanic
<1>4. CASE LoadSetLoading(t)
  BY <1>4, GotoMove, ProcInvBland DEF LoadSetLoading
<1>5. CASE LoadPublish(t)
  BY <1>5, GotoMove, ProcInvPublish DEF LoadPublish
<1>6. CASE LoadStart(t)
  BY <1>6, LoadStartMoves, MovesIntro, ProcInvStart DEF LoadStart, TypeInv, TypeOK
<1>7. CASE LoadStartPanic(t)
  BY <1>7, FinishMove, ProcInvStartPanic DEF LoadStartPanic, Panic
<1>8. CASE \/ LoadSpawn(t) \/ LoadServerReady(t) \/ LoadServerFailed(t) \/ LoadExpired(t)
           \/ LoadAbort(t) \/ LoadAbortPanic(t) \/ LoadAborted(t)
           \/ LoadSetError(t) \/ LoadClear(t) \/ LoadSetReady(t)
  BY <1>8, LoaderProc
<1> QED
  BY <1>1, <1>2, <1>3, <1>4, <1>5, <1>6, <1>7, <1>8 DEF LoadStep

\* an unload or a delete.
LEMMA UnloadDeleteProc ==
  ASSUME TypeInv, Mutex, ProcInv, OwnInv, OwnInv', NEW t \in Threads, UnloadStep(t) \/ DeleteStep(t)
  PROVE  ProcInv'
<1> USE DEF Special, Owning, Clearing
<1>1. CASE UnloadStop(t) \/ UnloadStopPanic(t)
  BY <1>1, StopLlamaProc DEF UnloadStop, UnloadStopPanic
<1>2. CASE UnloadSetStatus(t)
  BY <1>2, GotoMove, ProcInvUnloadSet DEF UnloadSetStatus
<1>3. CASE UnloadClear(t) \/ DeleteClear(t)
  BY <1>3, FinishMove, ProcInvUnloadClear DEF UnloadClear, DeleteClear
<1>4. CASE DeleteCheckNil(t)
  BY <1>4, GotoMove, FinishMove, ProcInvBland DEF DeleteCheckNil
<1>5. CASE DeleteStop(t) \/ DeleteStopPanic(t)
  BY <1>5, StopLlamaProc DEF DeleteStop, DeleteStopPanic
<1> QED
  BY <1>1, <1>2, <1>3, <1>4, <1>5 DEF UnloadStep, DeleteStep

\* ProcInv is inductive.
THEOREM ProcInvStep ==
  ASSUME TypeInv, Mutex, ProcInv, OwnInv, OwnInv', [Next]_vars
  PROVE  ProcInv'
<1>1. ASSUME NEW t \in Threads, RequestArrives(t) \/ ThreadStep(t)
      PROVE  ProcInv'
  BY <1>1, ArrivesProc, ChatProc, LoadProc, UnloadDeleteProc DEF ThreadStep
<1>2. ASSUME NEW p \in Procs, ProcessStep(p)
      PROVE  ProcInv'
  BY <1>2, ProcInvProcess
<1>3. CASE UNCHANGED vars
  BY <1>3 DEF vars, ProcInv, FreshAtStart, Fresh, UnspawnedAtSpawn, StartingOwned, PollOwned,
              StartingOpen, StoppedIsCleared, UnmonitoredInHand, pc, own
<1> QED
  BY <1>1, <1>2, <1>3 DEF Next

-----------------------------------------------------------------------------
(* The invariant, and what follows from it *)

\* The inductive invariant.
IInv == TypeInv /\ Mutex /\ OwnInv /\ RegistryInv /\ ProcInv

\* It holds initially,
THEOREM InitIInv == Init => IInv
<1> SUFFICES ASSUME Init PROVE IInv
  OBVIOUS
<1>1. \A t \in Threads : pc(t) = "idle" /\ own(t) = NoProc /\ name(t) = NoModel
  BY DEF Init, NoRequest, pc, own, name
<1>2. \A p \in Procs : proc[p] = NewProcess(NoModel)
  BY DEF Init
<1>3. TypeInv
  BY InitType
<1>4. Mutex /\ OwnInv
  BY <1>1 DEF Init, Mutex, OwnInv, Owning, Holding
<1>5. RegistryInv
  BY <1>1 DEF Init, RegistryInit, RegistryInv, NameInv, LocalPCs, Holding, ActiveStatusAgree,
              LazyNeverReloadsReady
<1>6. ProcInv
  BY <1>1, <1>2 DEF Init, NewProcess, ProcInv, FreshAtStart, UnspawnedAtSpawn, StartingOwned,
                    PollOwned, StartingOpen, StoppedIsCleared, UnmonitoredInHand
<1> QED
  BY <1>3, <1>4, <1>5, <1>6 DEF IInv

\* every step keeps it,
THEOREM NextIInv ==
  ASSUME IInv, [Next]_vars
  PROVE  IInv'
<1>1. TypeInv' /\ Mutex' /\ OwnInv' /\ RegistryInv'
  BY NextType, MutexStep, OwnInvStep, RegistryInvStep DEF IInv
<1>2. ProcInv'
  BY <1>1, ProcInvStep DEF IInv
<1> QED
  BY <1>1, <1>2 DEF IInv

\* and so it always holds.
THEOREM Invariance == Spec => []IInv
  BY InitIInv, NextIInv, PTL DEF Spec

\* However many threads, models and processes there are: only the holder of the
\* semaphore runs the loading code of handlers.go, and only for it is a process
\* started or polled.
THEOREM Holder == Spec => []OnlyHolderStarts
<1>1. IInv => OnlyHolderStarts
  <2> SUFFICES ASSUME IInv PROVE OnlyHolderStarts
    OBVIOUS
  <2>1. \A t \in Threads : pc(t) \in Holding <=> sem = t
    BY DEF IInv, Mutex
  <2>2. ASSUME NEW p \in Procs, proc[p].state = "starting" \/ proc[p].poll # "off"
        PROVE  \E t \in Threads : sem = t /\ req[t].own = p
    BY <2>1, <2>2 DEF IInv, ProcInv, StartingOwned, PollOwned, Holding, own
  <2> QED
    BY <2>1, <2>2 DEF OnlyHolderStarts
<1> QED
  BY <1>1, Invariance, PTL

\* A loader finds in the pointer its own process or nil, until its load is over.
THEOREM Pointer == Spec => []LoaderOwnsPointer
<1>1. IInv => LoaderOwnsPointer
  BY DEF IInv, OwnInv, Owning, LoaderOwnsPointer, own
<1> QED
  BY <1>1, Invariance, PTL

\* The active model is filed as ready, or as loading while it is loaded again.
THEOREM ActiveStatus == Spec => []ActiveStatusAgree
<1>1. IInv => ActiveStatusAgree
  BY DEF IInv, RegistryInv
<1> QED
  BY <1>1, Invariance, PTL

\* Double-checked locking never reloads a model that another request has just
\* loaded.
THEOREM NoReload == Spec => []LazyNeverReloadsReady
<1>1. IInv => LazyNeverReloadsReady
  BY DEF IInv, RegistryInv
<1> QED
  BY <1>1, Invariance, PTL

\* A process that never came up is not left in the pointer.
THEOREM FailedStart == Spec => []FailedStartNotPublished
<1>1. IInv => FailedStartNotPublished
  <2> SUFFICES ASSUME IInv, sem = NoThread, llama # NoProc, proc[llama].monitor = "off"
               PROVE  \E t \in Threads : pc(t) \in {"unloadSet", "unloadClear", "deleteClear"}
    BY DEF FailedStartNotPublished
  <2>1. PICK t \in Threads : pc(t) \in Clearing \cup (Owning \ {"ready"}) \cup {"start"}
    BY DEF IInv, ProcInv, UnmonitoredInHand
  <2>2. pc(t) \notin Holding
    BY DEF IInv, Mutex
  <2> QED
    BY <2>1, <2>2 DEF Owning, Clearing, Holding
<1> QED
  BY <1>1, Invariance, PTL
-----------------------------------------------------------------------------
(***************************************************************************)
(* What chats and loads alone guarantee, for all sets of models, process   *)
(* slots and request threads: every load is filed and finished by its      *)
(* loader, the semaphore is given back only where a load returns, and the  *)
(* handlers implement the abstract ModelLoader.                            *)
(*                                                                         *)
(* Nobody clears the pointer or stops a process but the loader, so on top  *)
(* of IInv, which says that there is one, LInv can say what the loader has *)
(* in the pointer at each of its steps.                                    *)
(***************************************************************************)

\* Nobody unloads or deletes,
LoadsOnly == Ops \subseteq {"chat", "load"}

\* and clients name models by their ids.
IdsOnly == Alias = {}

Unloading == {"unloadStop", "unloadSet", "unloadClear", "deleteNil", "deleteStop", "deleteClear"}

\* A process inside Start, and one whose Start has succeeded; its child may have
\* died since.
Coming(p) == proc[p].state = "starting" /\ ~proc[p].stopCh /\ proc[p].monitor = "off"
Healthy(p) == ~proc[p].stopCh /\ proc[p].state \in {"running", "failed"}

\* Where a model shows as loading, and where the old process may be stopped or
\* the new one not be up yet.
Filed == {"publish", "start", "spawn", "wait", "abort", "aborted", "failed", "ready"}
Replacing == {"loading", "publish", "start", "spawn", "wait", "abort", "aborted", "failed", "clear"}

\* What thread t has in the pointer, and in the registry.
At(t) ==
    /\ pc(t) \notin Unloading
    /\ pc(t) \in {"stopNow", "start"} \cup Owning => llama # NoProc
    /\ pc(t) \in {"spawn", "wait", "abort"} => Coming(llama)
    /\ pc(t) \in {"start"} \cup Owning => proc[llama].weights = req[t].model
    /\ pc(t) = "clear" /\ name(t) \in Models => status[name(t)] = "error"

\* Between loads the process in the pointer was never told to stop.
Settled == llama # NoProc /\ (\A t \in Threads : pc(t) \notin Replacing) => Healthy(llama)

LInv == LoadsOnly /\ (\A t \in Threads : At(t)) /\ Settled /\ LoadingHasLoader

\* A gateway that starts loads nothing.
THEOREM InitLInv == Init /\ LoadsOnly => LInv
<1> SUFFICES ASSUME Init, LoadsOnly
             PROVE  LInv
  OBVIOUS
<1>1. \A t \in Threads : pc(t) = "idle"
  BY DEF Init, NoRequest, pc
<1>2. \A t \in Threads : At(t)
  BY <1>1 DEF At, Unloading, Owning
<1>3. Settled
  BY DEF Init, Settled
<1>4. LoadingHasLoader
  BY <1>1 DEF LoadingHasLoader, Init, RegistryInit, Models
<1> QED
  BY <1>2, <1>3, <1>4 DEF LInv

-----------------------------------------------------------------------------
(* Weights *)

\* No operation on a process but New says which model it serves.
LEMMA WeightsKept ==
  ASSUME ProcTypeOK, NEW p \in Procs,
         \/ Stop(p) \/ StartLocked(p) \/ SpawnOk(p) \/ SpawnFails(p) \/ TakeReady(p)
         \/ TakeError(p) \/ AbortClose(p) \/ AbortStopped(p) \/ PollOk(p) \/ PollErr(p)
         \/ MonitorWait(p) \/ MonitorFail(p) \/ Bind(p) \/ Exit(p)
  PROVE  \A q \in Procs : proc'[q].weights = proc[q].weights
<1> USE DEF ProcTypeOK, ProcRecord
<1>1. CASE Stop(p)
  BY <1>1 DEF Stop
<1>2. CASE StartLocked(p) \/ SpawnOk(p) \/ SpawnFails(p)
  BY <1>2 DEF StartLocked, SpawnOk, SpawnFails
<1>3. CASE TakeReady(p) \/ TakeError(p) \/ AbortClose(p) \/ AbortStopped(p)
  BY <1>3 DEF TakeReady, TakeError, AbortClose, AbortStopped
<1>4. CASE PollOk(p) \/ PollErr(p) \/ MonitorWait(p) \/ MonitorFail(p)
  BY <1>4 DEF PollOk, PollErr, MonitorWait, MonitorFail
<1>5. CASE Bind(p) \/ Exit(p)
  BY <1>5 DEF Bind, Exit
<1> QED
  BY <1>1, <1>2, <1>3, <1>4, <1>5

\* The child and the goroutines of a process never stop it, and fail it only
\* after its Start has succeeded.
LEMMA ProcessStepEffect ==
  ASSUME ProcTypeOK, NEW p \in Procs, ProcessStep(p)
  PROVE  \A q \in Procs :
            /\ proc'[q].weights = proc[q].weights /\ proc'[q].stopCh = proc[q].stopCh
            /\ proc'[q].state = proc[q].state \/ (proc'[q].state = "failed" /\ proc[q].monitor = "saw")
            /\ proc[q].monitor = "off" => proc'[q].monitor = "off"
<1>1. \A q \in Procs : proc'[q].weights = proc[q].weights
  BY WeightsKept DEF ProcessStep
<1>2. Others(p)
  BY PollOkEffect, PollErrEffect, MonitorWaitEffect, MonitorFailEffect, BindEffect, ExitEffect
     DEF ProcessStep
<1>3. /\ proc'[p].stopCh = proc[p].stopCh
      /\ proc'[p].state = proc[p].state \/ (proc'[p].state = "failed" /\ proc[p].monitor = "saw")
      /\ proc[p].monitor = "off" => proc'[p].monitor = "off"
  BY PollOkEffect, PollErrEffect, MonitorWaitEffect, MonitorFailEffect, BindEffect, ExitEffect
     DEF ProcessStep
<1> QED
  BY <1>1, <1>2, <1>3 DEF Others

-----------------------------------------------------------------------------
(* Steps outside a load, and of a loader *)

\* A step that leaves processes, pointer and registry alone, by a thread that
\* neither was loading nor is now.
LEMMA OutsideStep ==
  ASSUME TypeInv, LInv, NEW t \in Threads, OthersKeep(t), UNCHANGED <<proc, llama, registryVars>>,
         pc(t) \notin Filed \cup Replacing, pc(t)' \notin Filed \cup Replacing \cup Unloading,
         pc(t)' = "stopNow" => llama # NoProc
  PROVE  LInv'
<1>1. \A u \in Threads \ {t} : pc(u)' = pc(u) /\ name(u)' = name(u) /\ req'[u].model = req[u].model
  BY DEF OthersKeep, pc, name
<1>2. At(t)'
  BY DEF At, Filed, Replacing, Owning
<1>3. \A u \in Threads \ {t} : At(u)'
  BY <1>1 DEF LInv, At, Coming, registryVars
<1>4. Settled'
  BY <1>1 DEF LInv, Settled, Healthy
<1>5. LoadingHasLoader'
  BY <1>1 DEF LInv, LoadingHasLoader, Filed, registryVars
<1> QED
  BY <1>2, <1>3, <1>4, <1>5 DEF LInv, LoadsOnly

\* A model shows as loading exactly if it is the one t is loading.
FiledBy(t) == \A m \in Local : status[m] = "loading" <=> name(t) = m /\ pc(t) \in Filed

\* While t holds the semaphore the others are elsewhere, and t alone matters.
LEMMA HolderFiles ==
  ASSUME Mutex, LInv, NEW t \in Threads, pc(t) \in Holding
  PROVE  FiledBy(t)
<1>1. \A u \in Threads \ {t} : pc(u) \notin Filed
  BY DEF Mutex, Holding, Filed
<1> QED
  BY <1>1 DEF LInv, LoadingHasLoader, FiledBy, Filed

\* So a step of the holder keeps LInv if it keeps what LInv says of the holder.
LEMMA HolderStep ==
  ASSUME Mutex, LInv, NEW t \in Threads, pc(t) \in Holding, OthersKeep(t),
         At(t)', FiledBy(t)',
         llama' # NoProc /\ pc(t)' \notin Replacing => Healthy(llama)'
  PROVE  LInv'
<1>1. \A u \in Threads \ {t} : pc(u)' = pc(u) /\ pc(u) \notin Holding
  BY DEF Mutex, OthersKeep, pc
<1>2. \A u \in Threads \ {t} : At(u)'
  BY <1>1 DEF LInv, At, Holding, Owning
<1>3. Settled'
  BY <1>1 DEF Settled, Holding, Replacing
<1>4. LoadingHasLoader'
  BY <1>1 DEF LoadingHasLoader, FiledBy, Filed, Holding
<1> QED
  BY <1>2, <1>3, <1>4 DEF LInv, LoadsOnly

\* What a holder that leaves the registry alone has filed stays filed.
LEMMA FiledStays ==
  ASSUME Mutex, LInv, NEW t \in Threads, pc(t) \in Holding, UNCHANGED registryVars,
         pc(t)' \in Filed <=> pc(t) \in Filed, name(t)' = name(t)
  PROVE  FiledBy(t)'
  BY HolderFiles DEF FiledBy, registryVars

-----------------------------------------------------------------------------
(* The steps of a load *)

\* The old process is stopped, if it runs.
LEMMA StopOldStep ==
  ASSUME TypeInv, Mutex, LInv, NEW t \in Threads, LoadCheckOld(t) \/ LoadStopOld(t)
  PROVE  LInv'
<1>1. CASE LoadCheckOld(t)
  <2>1. /\ OthersKeep(t) /\ pc(t) = "stopOld" /\ name(t)' = name(t)
        /\ pc(t)' \in {"stopNow", "loading"} /\ (pc(t)' = "stopNow" => llama # NoProc)
        /\ UNCHANGED <<registryVars, proc, llama>>
    BY <1>1, GotoMoves DEF LoadCheckOld
  <2>2. CASE pc(t)' = "stopNow"
    BY <2>1, <2>2, OutsideStep DEF Filed, Replacing, Unloading
  <2>3. CASE pc(t)' = "loading"
    <3>1. FiledBy(t)'
      BY <2>1, <2>3, FiledStays DEF Holding, Filed
    <3>2. At(t)'
      BY <2>3 DEF At, Unloading, Owning
    <3> QED
      BY <2>1, <2>3, <3>1, <3>2, HolderStep DEF Holding, Replacing
  <2> QED
    BY <2>1, <2>2, <2>3
<1>2. CASE LoadStopOld(t)
  <2>1. /\ OthersKeep(t) /\ pc(t) = "stopNow" /\ name(t)' = name(t) /\ pc(t)' = "loading"
        /\ UNCHANGED registryVars
    BY <1>2, GotoMoves DEF LoadStopOld, StopLlama
  <2>2. FiledBy(t)'
    BY <2>1, FiledStays DEF Holding, Filed
  <2>3. At(t)'
    BY <2>1 DEF At, Unloading, Owning
  <2> QED
    BY <2>1, <2>2, <2>3, HolderStep DEF Holding, Replacing
<1> QED
  BY <1>1, <1>2

\* The model is filed as loading.
LEMMA SetLoadingStep ==
  ASSUME TypeInv, Mutex, LInv, NEW t \in Threads, LoadSetLoading(t)
  PROVE  LInv'
<1>1. /\ OthersKeep(t) /\ pc(t) = "loading" /\ name(t)' = name(t) /\ pc(t)' = "publish"
      /\ SetStatus(name(t), "loading")
  BY GotoMoves DEF LoadSetLoading
<1>2. \A m \in Models : status'[m] = IF m = name(t) THEN "loading" ELSE status[m]
  BY <1>1, SetStatusStatus DEF TypeInv, TypeOK
<1>3. FiledBy(t)
  BY <1>1, HolderFiles DEF Holding
<1>4. FiledBy(t)'
  BY <1>1, <1>2, <1>3 DEF FiledBy, Filed, Models
<1>5. At(t)'
  BY <1>1 DEF At, Unloading, Owning
<1> QED
  BY <1>1, <1>4, <1>5, HolderStep DEF Holding, Replacing

\* The new process is published,
LEMMA PublishStep ==
  ASSUME TypeInv, Mutex, LInv, NEW t \in Threads, LoadPublish(t)
  PROVE  LInv'
<1>1. /\ OthersKeep(t) /\ pc(t) = "publish" /\ name(t)' = name(t) /\ pc(t)' = "start"
      /\ req'[t].model = req[t].model /\ UNCHANGED registryVars
  BY GotoMoves DEF LoadPublish
<1>2. PICK p \in Garbage : proc' = [proc EXCEPT ![p] = NewProcess(req[t].model)] /\ llama' = p
  BY DEF LoadPublish
<1>3. p \in Procs /\ proc'[p].weights = req[t].model
  BY <1>2 DEF Garbage, NewProcess, TypeInv, TypeOK, ProcTypeOK
<1>4. At(t)'
  BY <1>1, <1>2, <1>3 DEF At, Unloading, Owning
<1>5. FiledBy(t)'
  BY <1>1, FiledStays DEF Holding, Filed
<1> QED
  BY <1>1, <1>4, <1>5, HolderStep DEF Holding, Replacing

\* and started.
LEMMA StartStep ==
  ASSUME TypeInv, Mutex, ProcInv, LInv, NEW t \in Threads, LoadStart(t)
  PROVE  LInv'
<1>1. /\ OthersKeep(t) /\ pc(t) = "start" /\ pc(t)' = "spawn" /\ name(t)' = name(t)
      /\ UNCHANGED <<registryVars, llama>> /\ llama \in Procs /\ StartLocked(llama)
  BY LoadStartMoves DEF LoadStart, TypeInv, TypeOK
<1>2. req'[t].model = req[t].model
  BY DEF LoadStart, TypeInv, TypeOK, RequestRecord
<1>3. Fresh(llama)
  BY <1>1 DEF ProcInv, FreshAtStart
<1>4. Coming(llama)'
  BY <1>1, <1>3, StartLockedEffect DEF Fresh, Coming, TypeInv, TypeOK
<1>5. proc'[llama].weights = req[t].model
  BY <1>1, WeightsKept DEF TypeInv, TypeOK, LInv, At
<1>6. At(t)'
  BY <1>1, <1>2, <1>4, <1>5 DEF At, Unloading, Owning
<1>7. FiledBy(t)'
  BY <1>1, FiledStays DEF Holding, Filed
<1> QED
  BY <1>1, <1>6, <1>7, HolderStep DEF Holding, Replacing

\* A step inside Start: t goes on within Owning, on the process in the pointer.
StartOn(t, from, to) ==
    /\ OthersKeep(t) /\ pc(t) = from /\ pc(t)' = to
    /\ name(t)' = name(t) /\ req'[t].model = req[t].model
    /\ UNCHANGED <<registryVars, llama>>
    /\ llama \in Procs /\ req[t].own = llama

\* The program counters within Owning have a process, and the pointer shows it.
LEMMA StartOnIntro ==
  ASSUME TypeInv, OwnInv, LInv, NEW t \in Threads, NEW from \in Owning, NEW to,
         Goto(t, from, to), UNCHANGED <<registryVars, llama>>
  PROVE  StartOn(t, from, to)
  BY GotoMoves DEF StartOn, LInv, At, OwnInv, own

\* Such a step keeps LInv if the process is as LInv wants it where t goes.
LEMMA StartOnStep ==
  ASSUME TypeInv, Mutex, LInv, NEW t \in Threads, NEW from \in Owning \ {"clear"},
         NEW to \in Owning \ {"clear"}, StartOn(t, from, to),
         proc'[llama].weights = proc[llama].weights,
         to \in {"wait", "abort"} => Coming(llama)',
         to = "ready" => Healthy(llama)',
         to # "spawn"
  PROVE  LInv'
<1>1. At(t)'
  BY DEF StartOn, LInv, At, Unloading, Owning, Coming
<1>2. FiledBy(t)'
  BY FiledStays DEF StartOn, Holding, Filed, Owning
<1>3. llama' # NoProc /\ pc(t)' \notin Replacing => Healthy(llama)'
  BY DEF StartOn, Owning, Replacing, Healthy
<1> QED
  BY <1>1, <1>2, <1>3, HolderStep DEF StartOn, Owning, Holding

\* Start and its outcomes are such steps.
LEMMA StartStepOn ==
  ASSUME TypeInv, Mutex, OwnInv, LInv, NEW t \in Threads,
         \/ LoadSpawn(t) \/ LoadServerReady(t) \/ LoadServerFailed(t)
         \/ LoadExpired(t) \/ LoadAbort(t) \/ LoadAborted(t)
  PROVE  LInv'
<1>0. ProcTypeOK
  BY DEF TypeInv, TypeOK
<1>1. CASE LoadSpawn(t) /\ pc(t)' = "wait"
  <2>1. StartOn(t, "spawn", "wait") /\ SpawnOk(llama)
    BY <1>1, StartOnIntro, GotoMoves DEF LoadSpawn, Owning, StartOn
  <2>2. Coming(llama)
    BY <2>1 DEF LInv, At, StartOn
  <2>3. Coming(llama)' /\ proc'[llama].weights = proc[llama].weights
    BY <1>0, <2>1, <2>2, SpawnOkEffect, WeightsKept DEF Coming, StartOn
  <2> QED
    BY <2>1, <2>3, StartOnStep DEF Owning
<1>2. CASE LoadSpawn(t) /\ pc(t)' # "wait"
  <2>1. StartOn(t, "spawn", "failed") /\ SpawnFails(llama)
    BY <1>2, StartOnIntro, GotoMoves DEF LoadSpawn, Owning, StartOn
  <2>2. proc'[llama].weights = proc[llama].weights
    BY <1>0, <2>1, WeightsKept DEF StartOn
  <2> QED
    BY <2>1, <2>2, StartOnStep DEF Owning
<1>3. CASE LoadServerReady(t)
  <2>1. StartOn(t, "wait", "ready") /\ TakeReady(llama)
    BY <1>3, StartOnIntro DEF LoadServerReady, Owning, StartOn
  <2>2. Coming(llama)
    BY <2>1 DEF LInv, At, StartOn
  <2>3. Healthy(llama)' /\ proc'[llama].weights = proc[llama].weights
    BY <1>0, <2>1, <2>2, TakeReadyEffect, WeightsKept DEF Coming, Healthy, StartOn
  <2> QED
    BY <2>1, <2>3, StartOnStep DEF Owning
<1>4. CASE LoadServerFailed(t)
  <2>1. StartOn(t, "wait", "failed") /\ TakeError(llama)
    BY <1>4, StartOnIntro DEF LoadServerFailed, Owning, StartOn
  <2>2. proc'[llama].weights = proc[llama].weights
    BY <1>0, <2>1, WeightsKept DEF StartOn
  <2> QED
    BY <2>1, <2>2, StartOnStep DEF Owning
<1>5. CASE LoadExpired(t)
  <2>1. StartOn(t, "wait", "abort") /\ proc' = proc
    BY <1>5, StartOnIntro DEF LoadExpired, Owning
  <2>2. Coming(llama)'
    BY <2>1 DEF LInv, At, StartOn, Coming
  <2> QED
    BY <2>1, <2>2, StartOnStep DEF Owning
<1>6. CASE LoadAbort(t)
  <2>1. StartOn(t, "abort", "aborted") /\ AbortClose(llama)
    BY <1>6, StartOnIntro DEF LoadAbort, Owning, StartOn
  <2>2. proc'[llama].weights = proc[llama].weights
    BY <1>0, <2>1, WeightsKept DEF StartOn
  <2> QED
    BY <2>1, <2>2, StartOnStep DEF Owning
<1>7. CASE LoadAborted(t)
  <2>1. StartOn(t, "aborted", "failed") /\ AbortStopped(llama)
    BY <1>7, StartOnIntro DEF LoadAborted, Owning, StartOn
  <2>2. proc'[llama].weights = proc[llama].weights
    BY <1>0, <2>1, WeightsKept DEF StartOn
  <2> QED
    BY <2>1, <2>2, StartOnStep DEF Owning
<1> QED
  BY <1>1, <1>2, <1>3, <1>4, <1>5, <1>6, <1>7

\* The outcome is filed: a failure, whose process is dropped,
LEMMA FailStep ==
  ASSUME TypeInv, Mutex, LInv, NEW t \in Threads, LoadSetError(t) \/ LoadClear(t)
  PROVE  LInv'
<1>1. CASE LoadSetError(t)
  <2>1. /\ OthersKeep(t) /\ pc(t) = "failed" /\ name(t)' = name(t) /\ pc(t)' = "clear"
        /\ req'[t].model = req[t].model /\ SetStatus(name(t), "error")
        /\ UNCHANGED <<proc, llama>>
    BY <1>1, GotoMoves DEF LoadSetError
  <2>2. \A m \in Models : status'[m] = IF m = name(t) THEN "error" ELSE status[m]
    BY <2>1, SetStatusStatus DEF TypeInv, TypeOK
  <2>3. FiledBy(t)
    BY <2>1, HolderFiles DEF Holding
  <2>4. FiledBy(t)'
    BY <2>1, <2>2, <2>3 DEF FiledBy, Filed, Models
  <2>5. At(t)'
    BY <2>1, <2>2 DEF LInv, At, Unloading, Owning
  <2> QED
    BY <2>1, <2>4, <2>5, HolderStep DEF Holding, Replacing
<1>2. CASE LoadClear(t)
  <2>1. /\ OthersKeep(t) /\ pc(t) = "clear" /\ pc(t)' = "idle" /\ llama' = NoProc
        /\ UNCHANGED registryVars
    BY <1>2, FinishMoves DEF LoadClear
  <2>2. FiledBy(t)
    BY <2>1, HolderFiles DEF Holding
  <2>3. FiledBy(t)'
    BY <2>1, <2>2 DEF FiledBy, Filed, registryVars
  <2>4. At(t)'
    BY <2>1 DEF At, Unloading, Owning
  <2> QED
    BY <2>1, <2>3, <2>4, HolderStep DEF Holding
<1> QED
  BY <1>1, <1>2

\* or success.
LEMMA SetReadyStep ==
  ASSUME TypeInv, Mutex, LInv, NEW t \in Threads, LoadSetReady(t)
  PROVE  LInv'
<1>1. /\ OthersKeep(t) /\ pc(t) = "ready" /\ pc(t)' \in {"proxy", "idle"}
      /\ SetStatus(name(t), "ready") /\ UNCHANGED <<proc, llama>>
  BY LoadSetReadyMoves DEF LoadSetReady
<1>2. \A m \in Models : status'[m] = IF m = name(t) THEN "ready" ELSE status[m]
  BY <1>1, SetStatusStatus DEF TypeInv, TypeOK
<1>3. FiledBy(t)
  BY <1>1, HolderFiles DEF Holding
<1>4. FiledBy(t)'
  BY <1>1, <1>2, <1>3 DEF FiledBy, Filed, Models
<1>5. At(t)'
  BY <1>1 DEF At, Unloading, Owning
<1>6. \A u \in Threads : pc(u) \notin Replacing
  BY <1>1 DEF Mutex, Holding, Replacing
<1>7. llama' # NoProc => Healthy(llama)'
  BY <1>1, <1>6 DEF LInv, Settled, Healthy
<1> QED
  BY <1>1, <1>4, <1>5, <1>7, HolderStep DEF Holding

-----------------------------------------------------------------------------
(* Every step *)

\* No load panics: what it stops, starts or aborts is there, and its channel open.
LEMMA NoPanic ==
  ASSUME TypeInv, Mutex, OwnInv, LInv, NEW t \in Threads
  PROVE  ~LoadStopOldPanic(t) /\ ~LoadStartPanic(t) /\ ~LoadAbortPanic(t)
<1>1. ASSUME LoadStopOldPanic(t)
      PROVE  FALSE
  <2>1. pc(t) = "stopNow" /\ (llama # NoProc => StopPanics(llama))
    BY <1>1 DEF LoadStopOldPanic, StopLlamaPanic, Panic, Finish
  <2>2. llama # NoProc
    BY <2>1 DEF LInv, At
  <2>3. \A u \in Threads : pc(u) \notin Replacing
    BY <2>1 DEF Mutex, Holding, Replacing
  <2> QED
    BY <2>1, <2>2, <2>3 DEF LInv, Settled, Healthy, StopPanics
<1>2. ASSUME LoadStartPanic(t)
      PROVE  FALSE
  BY <1>2 DEF LoadStartPanic, Panic, Finish, LInv, At
<1>3. ASSUME LoadAbortPanic(t)
      PROVE  FALSE
  <2>1. pc(t) = "abort" /\ proc[own(t)].stopCh
    BY <1>3 DEF LoadAbortPanic, Finish, own
  <2>2. llama = own(t) /\ Coming(llama)
    BY <2>1 DEF LInv, At, OwnInv, Owning
  <2> QED
    BY <2>1, <2>2 DEF Coming
<1> QED
  BY <1>1, <1>2, <1>3

\* A request that arrives is a chat or a load, and not loading yet.
LEMMA ArrivesOutside ==
  ASSUME TypeInv, LInv, NEW t \in Threads, RequestArrives(t)
  PROVE  /\ OthersKeep(t) /\ UNCHANGED <<proc, llama, registryVars>>
         /\ pc(t) \notin Filed \cup Replacing
         /\ pc(t)' \notin Filed \cup Replacing \cup Unloading \cup {"stopNow"}
<1>1. PICK n \in Names : ChatBegin(t, n) \/ LoadBegin(t, n) \/ UnloadBegin(t, n) \/ DeleteBegin(t, n)
  BY DEF RequestArrives
<1>2. ChatBegin(t, n) \/ LoadBegin(t, n)
  BY <1>1 DEF LInv, LoadsOnly, UnloadBegin, DeleteBegin, Begin
<1>3. /\ OthersKeep(t) /\ pc(t) = "idle" /\ pc(t)' \in {"running", "remote", "tryAcquire"}
      /\ UNCHANGED <<registryVars, proc, llama>>
  BY <1>2, BeginMoves DEF ChatBegin, LoadBegin
<1> QED
  BY <1>3 DEF Filed, Replacing, Unloading

\* A chat outside its load; LoadTryAcquire.
LEMMA ChatOutside ==
  ASSUME TypeInv, Mutex, LInv, NEW t \in Threads, ChatStep(t) \/ LoadTryAcquire(t)
  PROVE  /\ OthersKeep(t) /\ UNCHANGED <<proc, llama, registryVars>>
         /\ pc(t) \notin Filed \cup Replacing
         /\ pc(t)' \notin Filed \cup Replacing \cup Unloading \cup {"stopNow"}
         /\ sem = t /\ sem' # t => pc(t) = "recheck"
<1> USE GotoMoves, FinishMoves DEF Filed, Replacing, Unloading
<1>1. CASE \/ ChatCheckRunning(t) \/ ChatCheckActive(t) \/ ProxyToLocal(t)
           \/ SendToPort(t) \/ ProxyToRemote(t) \/ LazyLookup(t)
  BY <1>1 DEF ChatCheckRunning, ChatCheckActive, ProxyToLocal, SendToPort, ProxyToRemote, LazyLookup
<1>2. CASE ProxyPanic(t)
  BY <1>2 DEF ProxyPanic, Panic, Mutex, Holding
<1>3. CASE LazyAcquire(t)
  BY <1>3 DEF LazyAcquire
<1>4. CASE LazyRecheck(t)
  BY <1>4, RecheckMoves DEF LazyRecheck
<1>5. CASE LoadTryAcquire(t)
  BY <1>5 DEF LoadTryAcquire
<1> QED
  BY <1>1, <1>2, <1>3, <1>4, <1>5 DEF ChatStep

\* So none of these steps concerns LInv,
LEMMA OutsideLoads ==
  ASSUME TypeInv, Mutex, LInv, NEW t \in Threads,
         RequestArrives(t) \/ ChatStep(t) \/ LoadTryAcquire(t)
  PROVE  LInv'
  BY ArrivesOutside, ChatOutside, OutsideStep

\* No thread is inside an unload or a delete.
LEMMA NoUnload ==
  ASSUME LInv, NEW t \in Threads
  PROVE  ~UnloadStep(t) /\ ~DeleteStep(t)
<1>1. pc(t) \notin Unloading
  BY DEF LInv, At
<1> QED
  BY <1>1 DEF Unloading, UnloadStep, UnloadStop, UnloadStopPanic, StopLlama, StopLlamaPanic, Panic,
              UnloadSetStatus, UnloadClear, DeleteStep, DeleteCheckNil, DeleteStop,
              DeleteStopPanic, DeleteClear, Goto, Finish

\* and no step of a thread violates it.
LEMMA ThreadStepLoads ==
  ASSUME TypeInv, Mutex, OwnInv, ProcInv, LInv, NEW t \in Threads,
         RequestArrives(t) \/ ThreadStep(t)
  PROVE  LInv'
  BY OutsideLoads, NoUnload, NoPanic, StopOldStep, SetLoadingStep, PublishStep,
     StartStep, StartStepOn, FailStep, SetReadyStep DEF ThreadStep, LoadStep

\* A child or a goroutine of a process leaves it to the loader to stop it.
LEMMA ProcessStepLoads ==
  ASSUME TypeInv, LInv, NEW p \in Procs, ProcessStep(p)
  PROVE  LInv'
<1>1. UNCHANGED <<status, active, llama, req>>
  BY DEF ProcessStep, registryVars
<1>2. \A q \in Procs :
         /\ proc'[q].weights = proc[q].weights /\ proc'[q].stopCh = proc[q].stopCh
         /\ proc'[q].state = proc[q].state \/ (proc'[q].state = "failed" /\ proc[q].monitor = "saw")
         /\ proc[q].monitor = "off" => proc'[q].monitor = "off"
  BY ProcessStepEffect DEF TypeInv, TypeOK
<1>3. llama # NoProc => llama \in Procs
  BY DEF TypeInv, TypeOK
<1>4. ASSUME NEW t \in Threads
      PROVE  At(t)'
  <2>1. At(t) /\ pc(t)' = pc(t) /\ name(t)' = name(t) /\ req'[t].model = req[t].model
    BY <1>1 DEF LInv, pc, name
  <2>2. llama # NoProc /\ Coming(llama) => Coming(llama)'
    BY <1>1, <1>2, <1>3 DEF Coming
  <2>3. llama # NoProc => proc'[llama'].weights = proc[llama].weights
    BY <1>1, <1>2, <1>3
  <2> QED
    BY <1>1, <2>1, <2>2, <2>3 DEF At, Owning
<1>5. Settled'
  BY <1>1, <1>2, <1>3 DEF LInv, Settled, Healthy, pc
<1>6. LoadingHasLoader'
  BY <1>1 DEF LInv, LoadingHasLoader, pc, name
<1> QED
  BY <1>4, <1>5, <1>6 DEF LInv, LoadsOnly

\* LInv is inductive, given IInv.
THEOREM NextLInv ==
  ASSUME IInv, LInv, [Next]_vars
  PROVE  LInv'
<1>1. CASE \E t \in Threads : RequestArrives(t) \/ ThreadStep(t)
  BY <1>1, ThreadStepLoads DEF IInv
<1>2. CASE \E p \in Procs : ProcessStep(p)
  BY <1>2, ProcessStepLoads DEF IInv
<1>3. CASE UNCHANGED vars
  BY <1>3 DEF vars, LInv, LoadsOnly, At, Settled, Coming, Healthy, LoadingHasLoader, pc, name
<1> QED
  BY <1>1, <1>2, <1>3 DEF Next

\* With chats and loads only both invariants hold in every reachable state.
THEOREM LoadsInvariance == Spec /\ LoadsOnly => [](IInv /\ LInv)
<1>1. IInv /\ LInv /\ [Next]_vars => IInv' /\ LInv'
  BY NextIInv, NextLInv
<1> QED
  BY <1>1, InitIInv, InitLInv, PTL DEF Spec

-----------------------------------------------------------------------------
(* What the runs check *)

\* With chats and loads only a model shows as loading exactly while a request
\* is loading it, for any number of models and requests.
THEOREM LoadingFiled == Spec /\ LoadsOnly => []LoadingHasLoader
<1>1. LInv => LoadingHasLoader
  BY DEF LInv
<1> QED
  BY <1>1, LoadsInvariance, PTL

\* Then, too, a process in the pointer between loads was never told to stop.
THEOREM NotStopped == Spec /\ LoadsOnly => []PublishedNotStopped
<1>1. IInv /\ LInv => PublishedNotStopped
  <2> SUFFICES ASSUME IInv, LInv, sem = NoThread, llama # NoProc
               PROVE  ~proc[llama].stopCh /\ proc[llama].state \in {"running", "failed"}
    BY DEF PublishedNotStopped
  <2>1. \A t \in Threads : pc(t) \notin Replacing
    BY DEF IInv, Mutex, Holding, Replacing
  <2> QED
    BY <2>1 DEF LInv, Settled, Healthy
<1> QED
  BY <1>1, LoadsInvariance, PTL

\* A step that gives the semaphore back is a return of loadModel or
\* handleLoadModel, and no panic.
LEMMA HolderStepNeverPanics ==
  ASSUME IInv, LInv, [Next]_vars, NEW t \in Threads, sem = t, sem' # t
  PROVE  pc(t) \in {"recheck", "clear", "ready"}
<1>1. TypeInv /\ Mutex /\ OwnInv
  BY DEF IInv
<1>2. PICK u \in Threads : RequestArrives(u) \/ ThreadStep(u)
  BY DEF Next, ProcessStep, vars
<1>3. SemStep(u) /\ OthersKeep(u)
  BY <1>1, <1>2, ArrivesSem, ChatSem, LoadSem, UnloadDeleteSem DEF ThreadStep
<1>4. u = t /\ pc(t) \in Holding /\ pc(t)' \notin Holding
  BY <1>1, <1>3 DEF SemStep, Mutex
<1>5. ChatStep(t) \/ LoadStep(t)
  <2>1. ~RequestArrives(t)
    BY <1>4 DEF RequestArrives, ChatBegin, LoadBegin, UnloadBegin, DeleteBegin, Begin, Holding
  <2> QED
    BY <1>2, <1>4, <2>1, NoUnload DEF ThreadStep
<1>6. CASE ChatStep(t)
  BY <1>1, <1>6, ChatOutside
<1>7. CASE LoadStep(t)
  <2>1. LoadTryAcquire(t) \/ LoadClear(t) \/ LoadSetReady(t)
    <3> USE <1>1, GotoMoves DEF Holding
    <3>1. ~(LoadCheckOld(t) \/ LoadStopOld(t) \/ LoadSetLoading(t) \/ LoadPublish(t))
      BY <1>4 DEF LoadCheckOld, LoadStopOld, StopLlama, LoadSetLoading, LoadPublish
    <3>2. ~LoadStart(t)
      BY <1>4, LoadStartMoves
    <3>3. ~(LoadSpawn(t) \/ LoadServerReady(t) \/ LoadServerFailed(t))
      BY <1>4 DEF LoadSpawn, LoadServerReady, LoadServerFailed
    <3>4. ~(LoadExpired(t) \/ LoadAbort(t) \/ LoadAborted(t) \/ LoadSetError(t))
      BY <1>4 DEF LoadExpired, LoadAbort, LoadAborted, LoadSetError
    <3> QED
      BY <1>7, <3>1, <3>2, <3>3, <3>4, NoPanic DEF LoadStep
  <2> QED
    BY <1>1, <2>1, ChatOutside DEF LoadClear, LoadSetReady, Finish
<1> QED
  BY <1>5, <1>6, <1>7

\* With chats and loads only the semaphore is given back only where a load returns.
THEOREM NoHolderPanics == Spec /\ LoadsOnly => HolderNeverPanics
<1>1. IInv /\ LInv /\ [Next]_vars =>
         [\A t \in Threads : sem = t /\ sem' # t => pc(t) \in {"recheck", "clear", "ready"}]_vars
  BY HolderStepNeverPanics
<1> QED
  BY <1>1, LoadsInvariance, PTL DEF Spec, HolderNeverPanics

-----------------------------------------------------------------------------
(* The refinement *)

\* A request carries the model its name stands for.
ModelNamed == \A t \in Threads : pc(t) # "idle" => req[t].model = name(t) /\ name(t) \in Models

\* A request keeps its name, and looks no other model up.
NamedStep(t) ==
    pc(t)' # "idle" => pc(t) # "idle" /\ name(t)' = name(t) /\ req'[t].model \in {req[t].model, name(t)}

\* So does every step of a chat,
LEMMA ChatNamed ==
  ASSUME TypeInv, ModelNamed, NEW t \in Threads, ChatStep(t)
  PROVE  NamedStep(t)
<1> USE GotoMoves, FinishMoves DEF NamedStep
<1>1. CASE \/ ChatCheckRunning(t) \/ ChatCheckActive(t) \/ ProxyToLocal(t) \/ ProxyPanic(t)
           \/ SendToPort(t) \/ ProxyToRemote(t)
  BY <1>1 DEF ChatCheckRunning, ChatCheckActive, ProxyToLocal, ProxyPanic, Panic, SendToPort,
              ProxyToRemote
<1>2. CASE LazyLookup(t) \/ LazyAcquire(t)
  BY <1>2 DEF LazyLookup, LazyAcquire
<1>3. CASE LazyRecheck(t)
  <2>1. name(t)' = name(t) /\ pc(t) = "recheck"
    BY <1>3, RecheckMoves
  <2>2. Get(name(t)) = {name(t)}
    BY <2>1 DEF ModelNamed, Get
  <2>3. \/ Goto(t, "recheck", "proxy")
        \/ req' = [req EXCEPT ![t].pc = "stopOld", ![t].model = name(t)]
    BY <1>3, <2>2 DEF LazyRecheck
  <2>4. req'[t].model \in {req[t].model, name(t)}
    BY <2>3 DEF TypeInv, TypeOK, RequestRecord
  <2> QED
    BY <2>1, <2>4
<1> QED
  BY <1>1, <1>2, <1>3 DEF ChatStep

\* and of a load.
LEMMA LoadNamed ==
  ASSUME TypeInv, NEW t \in Threads, LoadStep(t)
  PROVE  NamedStep(t)
<1> USE GotoMoves, FinishMoves DEF NamedStep
<1>1. CASE \/ LoadTryAcquire(t) \/ LoadCheckOld(t) \/ LoadStopOld(t) \/ LoadStopOldPanic(t)
           \/ LoadSetLoading(t) \/ LoadPublish(t)
  BY <1>1 DEF LoadTryAcquire, LoadCheckOld, LoadStopOld, LoadStopOldPanic, StopLlama,
              StopLlamaPanic, Panic, LoadSetLoading, LoadPublish
<1>2. CASE LoadStart(t)
  <2>1. pc(t) = "start" /\ name(t)' = name(t)
    BY <1>2, LoadStartMoves
  <2>2. req'[t].model = req[t].model
    BY <1>2 DEF LoadStart, TypeInv, TypeOK, RequestRecord
  <2> QED
    BY <2>1, <2>2
<1>3. CASE \/ LoadStartPanic(t) \/ LoadSpawn(t) \/ LoadServerReady(t) \/ LoadServerFailed(t)
           \/ LoadExpired(t) \/ LoadAbort(t) \/ LoadAbortPanic(t) \/ LoadAborted(t)
  BY <1>3 DEF LoadStartPanic, Panic, LoadSpawn, LoadServerReady, LoadServerFailed, LoadExpired,
              LoadAbort, LoadAbortPanic, LoadAborted
<1>4. CASE LoadSetError(t) \/ LoadClear(t)
  BY <1>4 DEF LoadSetError, LoadClear
<1>5. CASE LoadSetReady(t)
  <2>1. CASE req[t].op = "chat"
    <3>1. req' = [req EXCEPT ![t].pc = "proxy", ![t].own = NoProc] /\ pc(t) = "ready"
      BY <1>5, <2>1 DEF LoadSetReady
    <3> QED
      BY <3>1 DEF TypeInv, TypeOK, RequestRecord, pc, name
  <2>2. CASE req[t].op # "chat"
    BY <1>5, <2>2 DEF LoadSetReady
  <2> QED
    BY <2>1, <2>2
<1> QED
  BY <1>1, <1>2, <1>3, <1>4, <1>5 DEF LoadStep

\* Where every name is an id, ModelNamed is inductive.
LEMMA ModelNamedStep ==
  ASSUME IdsOnly, IInv, LInv, ModelNamed, [Next]_vars
  PROVE  ModelNamed'
<1>0. TypeInv /\ Mutex
  BY DEF IInv
<1>1. ASSUME NEW t \in Threads, RequestArrives(t)
      PROVE  ModelNamed'
  <2>1. PICK n \in Names : ChatBegin(t, n) \/ LoadBegin(t, n) \/ UnloadBegin(t, n) \/ DeleteBegin(t, n)
    BY <1>1 DEF RequestArrives
  <2>2. ChatBegin(t, n) \/ LoadBegin(t, n)
    BY <2>1 DEF LInv, LoadsOnly, UnloadBegin, DeleteBegin, Begin
  <2>3. n \in Models /\ Get(n) = {n}
    BY DEF IdsOnly, Names, Get
  <2>4. PICK op \in {"chat", "load"}, to \in PCs : Begin(t, op, n, n, to)
    BY <2>2, <2>3 DEF ChatBegin, LoadBegin, PCs
  <2>5. OthersKeep(t) /\ req'[t].model = n /\ name(t)' = n
    BY <1>0, <2>4, BeginMoves DEF Begin, TypeInv, TypeOK
  <2> QED
    BY <2>3, <2>5 DEF ModelNamed, OthersKeep, pc, name
<1>2. ASSUME NEW t \in Threads, ThreadStep(t)
      PROVE  ModelNamed'
  <2>1. ChatStep(t) \/ LoadStep(t)
    BY <1>2, NoUnload DEF ThreadStep
  <2>2. OthersKeep(t) /\ NamedStep(t)
    BY <1>0, <2>1, ChatSem, LoadSem, ChatNamed, LoadNamed
  <2> QED
    BY <2>2 DEF ModelNamed, OthersKeep, NamedStep, pc, name
<1>3. CASE (\E p \in Procs : ProcessStep(p)) \/ UNCHANGED vars
  BY <1>3 DEF ProcessStep, vars, ModelNamed, pc, name
<1> QED
  BY <1>1, <1>2, <1>3 DEF Next

\* The model being loaded is that of the thread in the midst of a load,
LEMMA LoadingIs ==
  ASSUME Mutex, NEW t \in Threads, pc(t) \in LoadingPCs
  PROVE  LoadingModel = name(t)
  BY DEF Mutex, LoadingModel, LoadingPCs, Holding

\* before and after a step,
LEMMA LoadingBecomes ==
  ASSUME Mutex', NEW t \in Threads, pc(t)' \in LoadingPCs
  PROVE  LoadingModel' = name(t)'
<1>1. sem' = t
  BY DEF Mutex, LoadingPCs, Holding
<1> QED
  BY <1>1 DEF LoadingModel, pc, name

\* and there is none otherwise.
LEMMA LoadingNone ==
  ASSUME TypeInv, \A t \in Threads : pc(t) \notin LoadingPCs
  PROVE  LoadingModel = NoModel
  BY DEF TypeInv, TypeOK, LoadingModel

\* None is loading once no thread is within a load.
LEMMA LoadingEnds ==
  ASSUME TypeInv', \A t \in Threads : pc(t)' \notin LoadingPCs
  PROVE  LoadingModel' = NoModel
  BY DEF TypeInv, TypeOK, LoadingModel, pc

\* It stays when a thread moves within a load, or outside.
LEMMA LoadingStays ==
  ASSUME TypeInv, TypeInv', Mutex, Mutex', NEW t \in Threads, OthersKeep(t),
         pc(t)' \in LoadingPCs <=> pc(t) \in LoadingPCs,
         pc(t) \in LoadingPCs => name(t)' = name(t)
  PROVE  LoadingModel' = LoadingModel
<1>1. \A u \in Threads \ {t} : pc(u)' = pc(u) /\ name(u)' = name(u)
  BY DEF OthersKeep, pc, name
<1>2. CASE \E u \in Threads : pc(u) \in LoadingPCs
  BY <1>1, <1>2, LoadingIs, LoadingBecomes
<1>3. CASE \A u \in Threads : pc(u) \notin LoadingPCs
  BY <1>1, <1>3, LoadingNone, LoadingEnds
<1> QED
  BY <1>2, <1>3

\* The current model stays while the pointer does.
LEMMA CurrentStays ==
  ASSUME llama' = llama, llama # NoProc => proc'[llama].weights = proc[llama].weights
  PROVE  CurrentModel' = CurrentModel
  BY DEF CurrentModel

\* The invariants the refinement rests on.
Refining == IInv /\ LInv /\ ModelNamed

\* What is being loaded is filed as loading, until the load has failed.
LEMMA LoadingFiledAs ==
  ASSUME Refining, NEW t \in Threads, pc(t) \in Filed
  PROVE  /\ name(t) \in Local /\ name(t) \in Models /\ status[name(t)] = "loading"
         /\ req[t].model = name(t)
<1>1. name(t) \in Models /\ req[t].model = name(t)
  BY DEF Refining, ModelNamed, Filed
<1>2. name(t) \in Local
  BY <1>1 DEF Refining, IInv, RegistryInv, NameInv, Filed, LocalPCs, Holding
<1> QED
  BY <1>1, <1>2 DEF Refining, LInv, LoadingHasLoader, Filed

\* A process in the hands of a loader is one of the model it loads.
LEMMA CurrentIs ==
  ASSUME Refining, NEW t \in Threads, pc(t) \in {"start"} \cup Owning
  PROVE  CurrentModel = name(t)
<1>1. llama # NoProc /\ proc[llama].weights = req[t].model
  BY DEF Refining, LInv, At
<1>2. req[t].model = name(t)
  BY DEF Refining, ModelNamed, Owning
<1> QED
  BY <1>1, <1>2 DEF CurrentModel

\* BeginLoad,
LEMMA BeginsLoad ==
  ASSUME Refining, Refining', NEW t \in Threads, LoadSetLoading(t)
  PROVE  Loader!BeginLoad(name(t)) /\ name(t) \in Models
<1>0. TypeInv /\ Mutex /\ Mutex'
  BY DEF Refining, IInv
<1>1. /\ OthersKeep(t) /\ pc(t) = "loading" /\ name(t)' = name(t) /\ pc(t)' = "publish"
      /\ SetStatus(name(t), "loading") /\ UNCHANGED <<proc, llama>>
  BY <1>0, GotoMoves DEF LoadSetLoading
<1>2. name(t) \in Models
  BY <1>1 DEF Refining, ModelNamed
<1>3. LoadingModel = NoModel
  BY <1>0, <1>1, LoadingNone DEF Mutex, Holding, LoadingPCs
<1>4. LoadingModel' = name(t)
  BY <1>0, <1>1, LoadingBecomes DEF LoadingPCs
<1>5. status' = [status EXCEPT ![name(t)] = "loading"] /\ active' = active
  BY <1>1, <1>2 DEF SetStatus
<1>6. CurrentModel' = CurrentModel
  BY <1>1, CurrentStays
<1> QED
  BY <1>2, <1>3, <1>4, <1>5, <1>6 DEF Loader!BeginLoad

\* Launch,
LEMMA Launches ==
  ASSUME Refining, Refining', NEW t \in Threads, LoadPublish(t)
  PROVE  Loader!Launch
<1>0. TypeInv /\ Mutex /\ TypeInv' /\ Mutex'
  BY DEF Refining, IInv
<1>1. /\ OthersKeep(t) /\ pc(t) = "publish" /\ name(t)' = name(t) /\ pc(t)' = "start"
      /\ UNCHANGED registryVars
  BY <1>0, GotoMoves DEF LoadPublish
<1>2. LoadingModel = name(t) /\ LoadingModel' = name(t)
  BY <1>0, <1>1, LoadingIs, LoadingBecomes DEF LoadingPCs
<1>3. name(t) \in Models /\ status[name(t)] = "loading" /\ name(t) # NoModel
  BY <1>1, LoadingFiledAs DEF Filed, Names
<1>4. CurrentModel' = name(t)
  <2>1. llama' # NoProc /\ proc'[llama'].weights = req'[t].model
    BY <1>1 DEF Refining, LInv, At
  <2>2. req'[t].model = name(t)
    BY <1>1 DEF Refining, ModelNamed
  <2> QED
    BY <2>1, <2>2 DEF CurrentModel
<1> QED
  BY <1>1, <1>2, <1>3, <1>4 DEF Loader!Launch, registryVars

\* Succeed,
LEMMA Succeeds ==
  ASSUME Refining, Refining', NEW t \in Threads, LoadSetReady(t)
  PROVE  Loader!Succeed
<1>0. TypeInv /\ Mutex /\ TypeInv' /\ Mutex'
  BY DEF Refining, IInv
<1>1. /\ OthersKeep(t) /\ pc(t) = "ready" /\ pc(t)' \in {"proxy", "idle"}
      /\ SetStatus(name(t), "ready") /\ UNCHANGED <<proc, llama>>
  BY <1>0, LoadSetReadyMoves DEF LoadSetReady
<1>2. LoadingModel = name(t)
  BY <1>0, <1>1, LoadingIs DEF LoadingPCs
<1>3. name(t) \in Models /\ status[name(t)] = "loading" /\ name(t) # NoModel
  BY <1>1, LoadingFiledAs DEF Filed, Names
<1>4. CurrentModel = name(t)
  BY <1>1, CurrentIs DEF Owning
<1>5. LoadingModel' = NoModel
  <2>1. \A u \in Threads : pc(u)' \notin LoadingPCs
    BY <1>0, <1>1 DEF Mutex, OthersKeep, Holding, LoadingPCs, pc
  <2> QED
    BY <1>0, <2>1, LoadingEnds
<1>6. status' = [status EXCEPT ![name(t)] = "ready"] /\ active' = name(t)
  BY <1>1, <1>3 DEF SetStatus
<1>7. CurrentModel' = CurrentModel
  BY <1>1, CurrentStays
<1> QED
  BY <1>2, <1>3, <1>4, <1>5, <1>6, <1>7 DEF Loader!Succeed

\* Fail,
LEMMA Fails ==
  ASSUME Refining, Refining', NEW t \in Threads, LoadSetError(t)
  PROVE  Loader!Fail
<1>0. TypeInv /\ Mutex /\ TypeInv' /\ Mutex'
  BY DEF Refining, IInv
<1>1. /\ OthersKeep(t) /\ pc(t) = "failed" /\ name(t)' = name(t) /\ pc(t)' = "clear"
      /\ SetStatus(name(t), "error") /\ UNCHANGED <<proc, llama>>
  BY <1>0, GotoMoves DEF LoadSetError
<1>2. LoadingModel = name(t) /\ LoadingModel' = name(t)
  BY <1>0, <1>1, LoadingIs, LoadingBecomes DEF LoadingPCs
<1>3. name(t) \in Models /\ status[name(t)] = "loading" /\ name(t) # NoModel
  BY <1>1, LoadingFiledAs DEF Filed, Names
<1>4. CurrentModel = name(t)
  BY <1>1, CurrentIs DEF Owning
<1>5. /\ status' = [status EXCEPT ![name(t)] = "error"]
      /\ active' = IF active = name(t) THEN NoModel ELSE active
  BY <1>1, <1>3 DEF SetStatus
<1>6. CurrentModel' = CurrentModel
  BY <1>1, CurrentStays
<1> QED
  BY <1>2, <1>3, <1>4, <1>5, <1>6 DEF Loader!Fail

\* and GiveUp are what a loader does;
LEMMA GivesUp ==
  ASSUME Refining, Refining', NEW t \in Threads, LoadClear(t)
  PROVE  Loader!GiveUp
<1>0. TypeInv /\ Mutex /\ TypeInv' /\ Mutex'
  BY DEF Refining, IInv
<1>1. /\ OthersKeep(t) /\ pc(t) = "clear" /\ pc(t)' = "idle" /\ llama' = NoProc
      /\ UNCHANGED registryVars
  BY <1>0, FinishMoves DEF LoadClear
<1>2. LoadingModel = name(t)
  BY <1>0, <1>1, LoadingIs DEF LoadingPCs
<1>3. name(t) \in Models /\ name(t) # NoModel /\ status[name(t)] = "error"
  BY <1>1 DEF Refining, ModelNamed, LInv, At, Names
<1>4. LoadingModel' = NoModel
  <2>1. \A u \in Threads : pc(u)' \notin LoadingPCs
    BY <1>0, <1>1 DEF Mutex, OthersKeep, Holding, LoadingPCs, pc
  <2> QED
    BY <1>0, <2>1, LoadingEnds
<1>5. CurrentModel' = NoModel
  BY <1>1 DEF CurrentModel
<1> QED
  BY <1>1, <1>2, <1>3, <1>4, <1>5 DEF Loader!GiveUp, registryVars

LoaderStutters == UNCHANGED <<status, active, LoadingModel, CurrentModel>>

\* and what it does otherwise the abstract loader does not see.
LEMMA StartStutters ==
  ASSUME Refining, Refining', NEW t \in Threads,
         \/ LoadStart(t) \/ LoadSpawn(t) \/ LoadServerReady(t) \/ LoadServerFailed(t)
         \/ LoadExpired(t) \/ LoadAbort(t) \/ LoadAborted(t)
  PROVE  LoaderStutters
<1>0. TypeInv /\ Mutex /\ TypeInv' /\ Mutex'
  BY DEF Refining, IInv
<1>1. /\ OthersKeep(t) /\ name(t)' = name(t) /\ UNCHANGED registryVars
      /\ pc(t) \in {"start"} \cup Owning /\ pc(t)' \in {"start"} \cup Owning
  <2> USE <1>0, GotoMoves DEF Owning
  <2>1. CASE LoadStart(t)
    BY <2>1, LoadStartMoves DEF LoadStart
  <2>2. CASE LoadSpawn(t) \/ LoadServerReady(t) \/ LoadServerFailed(t)
    BY <2>2 DEF LoadSpawn, LoadServerReady, LoadServerFailed
  <2>3. CASE LoadExpired(t) \/ LoadAbort(t) \/ LoadAborted(t)
    BY <2>3 DEF LoadExpired, LoadAbort, LoadAborted
  <2> QED
    BY <2>1, <2>2, <2>3
<1>2. LoadingModel' = LoadingModel
  BY <1>0, <1>1, LoadingStays DEF LoadingPCs, Owning
<1>3. CurrentModel = name(t)
  BY <1>1, CurrentIs
<1>4. CurrentModel' = name(t)
  <2>1. llama' # NoProc /\ proc'[llama'].weights = req'[t].model
    BY <1>1 DEF Refining, LInv, At
  <2>2. req'[t].model = name(t)
    BY <1>1 DEF Refining, ModelNamed, Owning
  <2> QED
    BY <2>1, <2>2 DEF CurrentModel
<1> QED
  BY <1>1, <1>2, <1>3, <1>4 DEF LoaderStutters, registryVars

\* Neither does it see the old process stopped,
LEMMA StopOldStutters ==
  ASSUME Refining, Refining', NEW t \in Threads, LoadCheckOld(t) \/ LoadStopOld(t)
  PROVE  LoaderStutters
<1>0. TypeInv /\ Mutex /\ TypeInv' /\ Mutex'
  BY DEF Refining, IInv
<1>1. /\ OthersKeep(t) /\ UNCHANGED <<registryVars, llama>>
      /\ pc(t) \in {"stopOld", "stopNow"} /\ pc(t)' \in {"stopNow", "loading"}
      /\ proc' = proc \/ (llama # NoProc /\ Stop(llama))
  BY <1>0, GotoMoves DEF LoadCheckOld, LoadStopOld, StopLlama
<1>2. LoadingModel' = LoadingModel
  BY <1>0, <1>1, LoadingStays DEF LoadingPCs
<1>3. llama # NoProc => proc'[llama].weights = proc[llama].weights
  BY <1>0, <1>1, WeightsKept DEF TypeInv, TypeOK
<1> QED
  BY <1>1, <1>2, <1>3, CurrentStays DEF LoaderStutters, registryVars

\* requests that load nothing,
LEMMA OutsideStutters ==
  ASSUME Refining, Refining', NEW t \in Threads,
         RequestArrives(t) \/ ChatStep(t) \/ LoadTryAcquire(t)
  PROVE  LoaderStutters
<1>0. TypeInv /\ Mutex /\ LInv /\ TypeInv' /\ Mutex'
  BY DEF Refining, IInv
<1>1. /\ OthersKeep(t) /\ UNCHANGED <<proc, llama, registryVars>>
      /\ pc(t) \notin Filed \cup Replacing /\ pc(t)' \notin Filed \cup Replacing
  BY <1>0, ArrivesOutside, ChatOutside
<1>2. LoadingModel' = LoadingModel
  BY <1>0, <1>1, LoadingStays DEF LoadingPCs, Filed, Replacing
<1> QED
  BY <1>1, <1>2, CurrentStays DEF LoaderStutters, registryVars

\* children and their goroutines.
LEMMA ProcessStutters ==
  ASSUME Refining, NEW p \in Procs, ProcessStep(p)
  PROVE  LoaderStutters
<1>1. UNCHANGED <<status, active, llama, sem, req>>
  BY DEF ProcessStep, registryVars
<1>2. LoadingModel' = LoadingModel
  BY <1>1 DEF LoadingModel, pc, name
<1>3. llama # NoProc => proc'[llama].weights = proc[llama].weights
  BY ProcessStepEffect DEF Refining, IInv, TypeInv, TypeOK
<1> QED
  BY <1>1, <1>2, <1>3, CurrentStays DEF LoaderStutters

\* Every step of the handlers is one of the abstract loader's, or none.
LEMMA StepRefines ==
  ASSUME Refining, Refining', [Next]_vars
  PROVE  [Loader!Next]_(Loader!loaderVars)
<1>1. ASSUME NEW t \in Threads, RequestArrives(t) \/ ThreadStep(t)
      PROVE  Loader!Next \/ LoaderStutters
  <2>1. TypeInv /\ Mutex /\ OwnInv /\ LInv
    BY DEF Refining, IInv
  <2>2. RequestArrives(t) \/ ChatStep(t) \/ LoadStep(t)
    BY <1>1, <2>1, NoUnload DEF ThreadStep
  <2>3. CASE RequestArrives(t) \/ ChatStep(t) \/ LoadTryAcquire(t)
    BY <2>3, OutsideStutters
  <2>4. CASE LoadCheckOld(t) \/ LoadStopOld(t)
    BY <2>4, StopOldStutters
  <2>5. CASE \/ LoadStart(t) \/ LoadSpawn(t) \/ LoadServerReady(t) \/ LoadServerFailed(t)
             \/ LoadExpired(t) \/ LoadAbort(t) \/ LoadAborted(t)
    BY <2>5, StartStutters
  <2>6. CASE LoadSetLoading(t)
    BY <2>6, BeginsLoad DEF Loader!Next
  <2>7. CASE LoadPublish(t) \/ LoadSetReady(t) \/ LoadSetError(t) \/ LoadClear(t)
    BY <2>7, Launches, Succeeds, Fails, GivesUp DEF Loader!Next
  <2> QED
    BY <2>1, <2>2, <2>3, <2>4, <2>5, <2>6, <2>7, NoPanic DEF LoadStep
<1>2. ASSUME NEW p \in Procs, ProcessStep(p)
      PROVE  LoaderStutters
  BY <1>2, ProcessStutters
<1>3. CASE UNCHANGED vars
  <2>1. UNCHANGED <<status, active, proc, llama, sem, req>>
    BY <1>3 DEF vars
  <2>2. LoadingModel' = LoadingModel
    BY <2>1 DEF LoadingModel, pc, name
  <2>3. LoaderStutters
    BY <2>1, <2>2, CurrentStays DEF LoaderStutters
  <2> QED
    BY <2>3 DEF LoaderStutters, Loader!loaderVars
<1> QED
  BY <1>1, <1>2, <1>3 DEF Next, LoaderStutters, Loader!loaderVars

\* The handlers implement the abstract loader, for all sets of models, process
\* slots and requests, if clients send chats and loads and name models by ids.
THEOREM Refines == Spec /\ LoadsOnly /\ IdsOnly => LoaderSpec
<1>1. Init => Loader!Init
  BY DEF Init, RegistryInit, Loader!Init, LoadingModel, CurrentModel
<1>2. Init => ModelNamed
  BY DEF Init, ModelNamed, NoRequest, pc
<1>3. IdsOnly /\ IInv /\ LInv /\ ModelNamed /\ [Next]_vars => ModelNamed'
  BY ModelNamedStep
<1>4. IInv /\ LInv /\ ModelNamed /\ IInv' /\ LInv' /\ ModelNamed' /\ [Next]_vars
         => [Loader!Next]_(Loader!loaderVars)
  BY StepRefines DEF Refining
<1>5. IdsOnly => IdsOnly'
  BY DEF IdsOnly
<1> QED
  BY <1>1, <1>2, <1>3, <1>4, <1>5, LoadsInvariance, PTL DEF Spec, LoaderSpec, Loader!Spec

\* What the abstract loader promises, with its types.
Promises ==
    /\ status \in [Models -> Statuses] /\ LoadingModel \in Models \cup {NoModel}
    /\ Loader!CurrentIsActive /\ Loader!LoadingIsFiled

\* They are inductive.
LEMMA PromisesStep ==
  ASSUME Promises, [Loader!Next]_(Loader!loaderVars)
  PROVE  Promises'
<1> USE DEF Loader!CurrentIsActive, Loader!LoadingIsFiled, Promises
<1>0. NoModel \notin Models
  BY DEF Names
<1>1. ASSUME NEW m \in Models, Loader!BeginLoad(m)
      PROVE  Promises'
  BY <1>0, <1>1 DEF Loader!BeginLoad, Statuses
<1>2. CASE Loader!Launch
  BY <1>2 DEF Loader!Launch
<1>3. CASE Loader!Succeed
  BY <1>0, <1>3 DEF Loader!Succeed, Statuses
<1>4. CASE Loader!Fail
  BY <1>0, <1>4 DEF Loader!Fail, Statuses
<1>5. CASE Loader!GiveUp
  BY <1>0, <1>5 DEF Loader!GiveUp
<1>6. CASE UNCHANGED Loader!loaderVars
  BY <1>6 DEF Loader!loaderVars
<1> QED
  BY <1>1, <1>2, <1>3, <1>4, <1>5, <1>6 DEF Loader!Next

\* So between loads a process in the pointer is one of the active model, which
\* is filed as ready.
THEOREM CurrentActive == Spec /\ LoadsOnly /\ IdsOnly => []LoaderCurrentIsActive
<1>1. Loader!Init => Promises
  BY DEF Loader!Init, Promises, Loader!CurrentIsActive, Loader!LoadingIsFiled, Statuses
<1>2. Promises => LoaderCurrentIsActive
  BY DEF Promises, LoaderCurrentIsActive
<1> QED
  BY <1>1, <1>2, PromisesStep, Refines, PTL DEF LoaderSpec, Loader!Spec
=============================================================================
