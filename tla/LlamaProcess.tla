---------------------------- MODULE LlamaProcess ----------------------------
(***************************************************************************)
(* llm-gateway/internal/llama/process.go: the Process objects that manage  *)
(* a llama-server child, with the two goroutines of each (pollForReady and *)
(* monitorProcess) and, as environment, the child itself and the one TCP   *)
(* port (127.0.0.1:8080) every child is told to listen on.                 *)
(*                                                                         *)
(* Procs is a pool of slots for Process objects.  A slot nobody refers to  *)
(* and whose child is gone is reused by the next New: the garbage          *)
(* collector's job, and the only bound of this module.                     *)
(***************************************************************************)
CONSTANTS
    Procs,      \* slots for Process objects
    Weights     \* what Config.ModelPath may point at

VARIABLE proc   \* [Procs -> ProcRecord]

\* server is the child as the operating system sees it: not started, started,
\* listening on the port and healthy, or gone with a failure or exit status 0.
\* stopCh is TRUE once the channel is closed, which is also when the child is
\* sent SIGTERM.  poll is what pollForReady has put on readyCh.
ProcRecord ==
    [state   : {"stopped", "starting", "running", "failed"},
     weights : Weights,
     stopCh  : BOOLEAN,
     poll    : {"off", "polling", "ok", "err"},
     monitor : {"off", "waiting", "saw", "done"},
     server  : {"none", "spawned", "serving", "crashed", "exited"}]

ProcTypeOK == proc \in [Procs -> ProcRecord]

NewProcess(w) ==
    [state |-> "stopped", weights |-> w, stopCh |-> FALSE,
     poll |-> "off", monitor |-> "off", server |-> "none"]

Gone(p) == proc[p].server \in {"none", "crashed", "exited"}

\* Nothing of p runs any more: neither the child nor a goroutine.
Collectable(p) ==
    /\ Gone(p)
    /\ proc[p].poll # "polling"
    /\ proc[p].monitor \in {"off", "done"}

IsRunning(p) == proc[p].state = "running"

-----------------------------------------------------------------------------
(* Stop and stop *)

Started(p) == proc[p].server # "none"            \* p.cmd.Process != nil

\* close(p.stopCh) of a closed channel: a run-time panic.
StopPanics(p) == proc[p].state # "stopped" /\ Started(p) /\ proc[p].stopCh

\* Stop holds p.mu throughout.  It does not wait for the child to exit.
Stop(p) ==
    /\ ~StopPanics(p)
    /\ proc' = IF proc[p].state = "stopped" THEN proc
               ELSE IF Started(p)
               THEN [proc EXCEPT ![p].state = "stopped", ![p].stopCh = TRUE]
               ELSE [proc EXCEPT ![p].state = "stopped"]

-----------------------------------------------------------------------------
(* Start, as the steps between which other goroutines can run *)

StartLocked(p) ==
    /\ proc[p].state = "stopped"
    /\ proc' = [proc EXCEPT ![p].state = "starting"]

\* cmd.Start succeeds and the poller starts ...
SpawnOk(p) == proc' = [proc EXCEPT ![p].server = "spawned", ![p].poll = "polling"]

\* ... or a pipe or the exec fails.
SpawnFails(p) == proc' = [proc EXCEPT ![p].state = "failed"]

\* The three arms of the select: what the poller reports, or the time limit.
TakeReady(p) ==
    /\ proc[p].poll = "ok"
    /\ proc' = [proc EXCEPT ![p].state = "running", ![p].poll = "off",
                            ![p].monitor = "waiting"]

TakeError(p) ==
    /\ proc[p].poll = "err"
    /\ proc' = [proc EXCEPT ![p].state = "failed", ![p].poll = "off"]

\* On expiry Start calls stop() without p.mu, so the close and the assignment
\* of the state are two steps.  readyCh is buffered: from here on the poller
\* only talks to itself.
AbortClose(p) ==
    /\ ~proc[p].stopCh
    /\ proc' = [proc EXCEPT ![p].stopCh = TRUE, ![p].poll = "off"]

AbortStopped(p) == proc' = [proc EXCEPT ![p].state = "stopped"]

-----------------------------------------------------------------------------
(* The goroutines of a process *)

\* A health request is answered by whichever server holds the port.
PollOk(p) ==
    /\ proc[p].poll = "polling"
    /\ \E q \in Procs : proc[q].server = "serving"
    /\ proc' = [proc EXCEPT ![p].poll = "ok"]

\* stopCh is closed, the context is done, or 180 tries have failed.
PollErr(p) ==
    /\ proc[p].poll = "polling"
    /\ proc' = [proc EXCEPT ![p].poll = "err"]

\* cmd.Wait returns.  A child that exits with status 0 leaves the state alone;
\* after a failure the state is read under one lock and written under another.
MonitorWait(p) ==
    /\ proc[p].monitor = "waiting"
    /\ Gone(p)
    /\ proc' = [proc EXCEPT ![p].monitor =
                  IF proc[p].server = "crashed" /\ proc[p].state # "stopped"
                  THEN "saw" ELSE "done"]

\* Mutant: the state is set to what the child ended with.
MonitorCopiesExit(p) ==
    /\ proc[p].monitor = "saw"
    /\ proc' = [proc EXCEPT ![p].monitor = "done", ![p].state = proc[p].server]

MonitorFail(p) ==
    /\ proc[p].monitor = "saw"
    /\ proc' = [proc EXCEPT ![p].monitor = "done", ![p].state = "failed"]

-----------------------------------------------------------------------------
(* The child and the port (environment) *)

PortFree == \A q \in Procs : proc[q].server # "serving"

\* The weights are loaded and the port was free.  A child that has been sent
\* SIGTERM may still get here before it handles the signal.
Bind(p) ==
    /\ proc[p].server = "spawned"
    /\ PortFree
    /\ proc' = [proc EXCEPT ![p].server = "serving"]

\* A crash, a bind error, an unreadable file, or the end after SIGTERM.
Exit(p) ==
    /\ proc[p].server \in {"spawned", "serving"}
    /\ \E how \in {"crashed", "exited"} :
          proc' = [proc EXCEPT ![p].server = how]

\* The exits that come by themselves: after SIGTERM, or when the port is taken.
ExitDue(p) ==
    /\ proc[p].stopCh \/ (proc[p].server = "spawned" /\ ~PortFree)
    /\ Exit(p)
=============================================================================
