------------------------------ MODULE Terminal ------------------------------
(***************************************************************************)
(* One terminal of the agent-runner (AttachTerminal in                     *)
(* internal/docker/manager.go): a WebSocket whose handler executes the     *)
(* agent, or else a shell, in the session's container, and two goroutines  *)
(* that copy between the socket and the command's terminal.                *)
(*                                                                         *)
(* The output of a command is counted in chunks, one per read: chunk k is  *)
(* the k-th.  Choosing the agent's command line, and control frames that   *)
(* are no resize, change nothing here.                                     *)
(*                                                                         *)
(* Environment, as the code uses it: a container and the commands it has,  *)
(* a daemon that announces a missing command as output (manager.go:350),   *)
(* and a client that sends frames, reads what it gets, and leaves.         *)
(***************************************************************************)
EXTENDS Naturals, Sequences

CONSTANTS
    MaxOut,     \* chunks a command writes: a bound
    MaxIn       \* frames a client sends: a bound

ASSUME TerminalAssumption == MaxOut \in Nat \ {0} /\ MaxIn \in Nat

Tries == 1..3       \* the agent, bash, sh

VARIABLES
    box,        \* the state of the container
    present,    \* the commands that exist in it
    looksBad,   \* the commands whose first output reads like an error message
    handler,    \* AttachTerminal: [pc, try]
    ctx,        \* the request's context has not been cancelled
    exec,       \* the command of the present try: [state, made, read, resized]
    pushed,     \* the peeked chunks that are read again first
    attached,   \* execAttach is not closed
    out, inp,   \* the goroutines: [pc, chunk] and [pc, frame]
    errCh,      \* errors in the channel
    socket,     \* "open", or the side that has closed it first
    got,        \* the chunks the client has received
    answer,     \* the error message it has received
    frames,     \* frames the client has sent
    typed       \* [sent, written]: frames with input read here, and passed on

vars == <<box, present, looksBad, handler, ctx, exec, pushed, attached, out, inp,
          errCh, socket, got, answer, frames, typed>>

ContainerState == {"none", "created", "running", "paused", "exited"}

HandlerRecord ==
    [pc : {"list", "restart", "create", "attach", "peek", "serving", "done"}, try : Tries]

ExecRecord == [state : {"none", "created", "running", "ended"}, made : 0..MaxOut,
               read : 0..MaxOut, resized : 0..MaxIn]

OutRecord == [pc : {"off", "read", "write", "report", "done"}, chunk : 0..MaxOut]

InpRecord == [pc : {"off", "read", "stdin", "resize", "report", "done"}]

Chunks == Seq(1..MaxOut)

TypeOK ==
    /\ box \in ContainerState
    /\ present \subseteq Tries
    /\ looksBad \subseteq Tries
    /\ handler \in HandlerRecord
    /\ ctx \in BOOLEAN
    /\ exec \in ExecRecord /\ exec.read <= exec.made
    /\ pushed \in Chunks /\ Len(pushed) <= 1
    /\ attached \in BOOLEAN
    /\ out \in OutRecord
    /\ inp \in InpRecord
    /\ errCh \in 0..2
    /\ socket \in {"open", "client", "server"}
    /\ got \in Chunks /\ Len(got) <= MaxOut
    /\ answer \in {"none", "notFound", "failed"}
    /\ frames \in 0..MaxIn
    /\ typed \in [sent : 0..MaxIn, written : 0..MaxIn]

NoExec == [state |-> "none", made |-> 0, read |-> 0, resized |-> 0]

\* A missing command is announced with words that read like an error message.
Init ==
    /\ box \in ContainerState
    /\ present \in SUBSET Tries
    /\ looksBad \in {b \in SUBSET Tries : Tries \ present \subseteq b}
    /\ handler = [pc |-> "list", try |-> 1]
    /\ ctx = TRUE
    /\ exec = NoExec
    /\ pushed = <<>>
    /\ attached = FALSE
    /\ out = [pc |-> "off", chunk |-> 0]
    /\ inp = [pc |-> "off"]
    /\ errCh = 0
    /\ socket = "open"
    /\ got = <<>>
    /\ answer = "none"
    /\ frames = 0
    /\ typed = [sent |-> 0, written |-> 0]

image == <<present, looksBad>>
traffic == <<out, inp, errCh, got, frames, typed>>

Goto(from, to) == handler.pc = from /\ handler' = [handler EXCEPT !.pc = to]

-----------------------------------------------------------------------------
(* The handler, up to an attached command *)

\* The deferred calls: the socket and the attached connection are closed, and
\* net/http cancels the context.
Return(from) ==
    /\ Goto(from, "done")
    /\ attached' = FALSE
    /\ ctx' = FALSE
    /\ socket' = IF socket = "open" THEN "server" ELSE socket

\* "session not found", also when the list fails.
ListFails ==
    /\ Return("list")
    /\ answer' = IF socket = "open" THEN "notFound" ELSE answer
    /\ UNCHANGED <<box, image, exec, pushed, traffic>>

List ==
    /\ box # "none"
    /\ Goto("list", IF box \in {"exited", "created"} THEN "restart" ELSE "create")
    /\ UNCHANGED <<box, image, ctx, exec, pushed, attached, socket, answer, traffic>>

\* A restart that fails is only logged.
Restart ==
    /\ Goto("restart", "create")
    /\ box' \in {box} \cup {b \in {"running"} : ctx /\ box # "none"}
    /\ UNCHANGED <<image, ctx, exec, pushed, attached, socket, answer, traffic>>

ExecCreate ==
    /\ ctx /\ box = "running"
    /\ Goto("create", "attach")
    /\ exec' = [NoExec EXCEPT !.state = "created"]
    /\ UNCHANGED <<box, image, ctx, pushed, attached, socket, answer, traffic>>

\* The next command is tried, or the client is told the last error.
TryNext(from) ==
    \/ /\ handler.pc = from
       /\ handler.try < 3
       /\ handler' = [pc |-> "create", try |-> handler.try + 1]
       /\ attached' = FALSE
       /\ UNCHANGED <<ctx, socket, answer>>
    \/ /\ handler.try = 3
       /\ Return(from)
       /\ answer' = IF socket = "open" THEN "failed" ELSE answer

ExecCreateFails ==
    /\ TryNext("create")
    /\ exec' = NoExec
    /\ UNCHANGED <<box, image, pushed, traffic>>

ExecAttach ==
    /\ ctx /\ box = "running"
    /\ Goto("attach", "peek")
    /\ exec' = [exec EXCEPT !.state = "running"]
    /\ attached' = TRUE
    /\ UNCHANGED <<box, image, ctx, pushed, socket, answer, traffic>>

ExecAttachFails ==
    /\ TryNext("attach")
    /\ exec' = NoExec
    /\ UNCHANGED <<box, image, pushed, traffic>>

Serve ==
    /\ Goto("peek", "serving")
    /\ out' = [out EXCEPT !.pc = "read"]
    /\ inp' = [inp EXCEPT !.pc = "read"]

\* Mutant: the peeked bytes are not pushed back.
PeekDrops ==
    /\ Serve
    /\ exec.read < exec.made
    /\ handler.try \notin looksBad
    /\ exec' = [exec EXCEPT !.read = 1]
    /\ UNCHANGED <<box, image, ctx, pushed, attached, errCh, socket, got, answer, frames, typed>>

\* Mutant: the whole buffer is pushed back, not the bytes that were read.
PeekPushesBuffer ==
    /\ Serve
    /\ exec.read < exec.made
    /\ handler.try \notin looksBad
    /\ exec' = [exec EXCEPT !.read = 1]
    /\ pushed' = <<1, 0>>
    /\ UNCHANGED <<box, image, ctx, attached, errCh, socket, got, answer, frames, typed>>

PeekOutput ==
    /\ Serve
    /\ exec.read < exec.made
    /\ handler.try \notin looksBad
    /\ exec' = [exec EXCEPT !.read = 1]
    /\ pushed' = <<1>>
    /\ UNCHANGED <<box, image, ctx, attached, errCh, socket, got, answer, frames, typed>>

\* The first chunk has one of the four phrases in it.
PeekError ==
    /\ exec.read < exec.made
    /\ handler.try \in looksBad
    /\ TryNext("peek")
    /\ exec' = NoExec
    /\ UNCHANGED <<box, image, pushed, traffic>>

\* Nothing within 500 ms, or the end of the stream: taken for success.
PeekSilence ==
    /\ Serve
    /\ exec.read = exec.made
    /\ UNCHANGED <<box, image, ctx, exec, pushed, attached, errCh, socket, got, answer,
                   frames, typed>>

\* <-errCh
HandlerReturns ==
    /\ errCh > 0
    /\ errCh' = errCh - 1
    /\ Return("serving")
    /\ UNCHANGED <<box, image, exec, pushed, answer, out, inp, got, frames, typed>>

-----------------------------------------------------------------------------
(* Container to WebSocket *)

session == <<box, image, handler, ctx, attached, answer>>

\* First the peeked chunk, which outlives the connection, then the connection.
ReadOutput ==
    /\ out.pc = "read"
    /\ IF pushed # <<>>
       THEN /\ out' = [pc |-> "write", chunk |-> Head(pushed)]
            /\ pushed' = Tail(pushed)
            /\ UNCHANGED exec
       ELSE /\ attached
            /\ exec.read < exec.made
            /\ out' = [pc |-> "write", chunk |-> exec.read + 1]
            /\ exec' = [exec EXCEPT !.read = @ + 1]
            /\ UNCHANGED pushed
    /\ UNCHANGED <<session, inp, errCh, socket, got, frames, typed>>

\* The end of the stream, or the connection was closed here.
ReadOutputFails ==
    /\ out.pc = "read"
    /\ pushed = <<>>
    /\ ~attached \/ (exec.state = "ended" /\ exec.read = exec.made)
    /\ out' = [out EXCEPT !.pc = "report"]
    /\ UNCHANGED <<session, exec, pushed, inp, errCh, socket, got, frames, typed>>

WriteOutput ==
    /\ out.pc = "write"
    /\ IF socket = "open"
       THEN got' = Append(got, out.chunk) /\ out' = [out EXCEPT !.pc = "read"]
       ELSE out' = [out EXCEPT !.pc = "report"] /\ UNCHANGED got
    /\ UNCHANGED <<session, exec, pushed, inp, errCh, socket, frames, typed>>

\* Mutant: make(chan error), a rendezvous with the handler.
ErrChUnbuffered == errCh = 0 /\ handler.pc = "serving"

\* make(chan error, 2) has room.
ErrChTakes == errCh < 2

ReportOutput ==
    /\ out.pc = "report"
    /\ ErrChTakes
    /\ errCh' = errCh + 1
    /\ out' = [out EXCEPT !.pc = "done"]
    /\ UNCHANGED <<session, exec, pushed, inp, socket, got, frames, typed>>

-----------------------------------------------------------------------------
(* WebSocket to container *)

\* Binary frames are input.  Text frames are control frames: a resize is passed
\* on, and input in a text frame is logged as bad JSON and dropped.
ReadFrame ==
    /\ inp.pc = "read"
    /\ socket = "open"
    /\ frames < MaxIn
    /\ frames' = frames + 1
    /\ \/ inp' = [pc |-> "resize"] /\ UNCHANGED typed
       \/ inp' = [pc |-> "stdin"] /\ typed' = [typed EXCEPT !.sent = @ + 1]
       \/ UNCHANGED inp /\ typed' = [typed EXCEPT !.sent = @ + 1]
    /\ UNCHANGED <<session, exec, pushed, out, errCh, socket, got>>

ReadFrameFails ==
    /\ inp.pc = "read"
    /\ socket # "open"
    /\ inp' = [pc |-> "report"]
    /\ UNCHANGED <<session, exec, pushed, out, errCh, socket, got, frames, typed>>

\* The error of the write is not looked at.
WriteInput ==
    /\ inp.pc = "stdin"
    /\ inp' = [pc |-> "read"]
    /\ typed' = [typed EXCEPT !.written = IF attached /\ exec.state = "running" THEN @ + 1 ELSE @]
    /\ UNCHANGED <<session, exec, pushed, out, errCh, socket, got, frames>>

\* ContainerExecResize with the context of the request; an error is only logged.
Resize ==
    /\ inp.pc = "resize"
    /\ inp' = [pc |-> "read"]
    /\ exec' = [exec EXCEPT !.resized = IF ctx /\ exec.state = "running" THEN @ + 1 ELSE @]
    /\ UNCHANGED <<session, pushed, out, errCh, socket, got, frames, typed>>

ReportInput ==
    /\ inp.pc = "report"
    /\ ErrChTakes
    /\ errCh' = errCh + 1
    /\ inp' = [pc |-> "done"]
    /\ UNCHANGED <<session, exec, pushed, out, socket, got, frames, typed>>

-----------------------------------------------------------------------------
(* The environment *)

Produce ==
    /\ exec.state = "running" /\ box = "running"
    /\ exec.made < IF handler.try \in present THEN MaxOut ELSE 1
    /\ exec' = [exec EXCEPT !.made = @ + 1]
    /\ UNCHANGED <<session, pushed, socket, traffic>>

\* The command ends by itself, or could not be started and has said so.
CommandEnds ==
    /\ exec.state = "running" /\ box = "running"
    /\ handler.try \in present \/ exec.made = 1
    /\ exec' = [exec EXCEPT !.state = "ended"]
    /\ UNCHANGED <<session, pushed, socket, traffic>>

BoxMoves ==
    [none |-> {}, created |-> {"running", "none"}, running |-> {"paused", "exited", "none"},
     paused |-> {"running", "exited", "none"}, exited |-> {"running", "none"}]

\* Somebody starts, stops, pauses, resumes or deletes the container.
BoxChanges ==
    /\ box' \in BoxMoves[box]
    /\ exec' = IF box' \in {"none", "exited"} /\ exec.state = "running"
               THEN [exec EXCEPT !.state = "ended"] ELSE exec
    /\ UNCHANGED <<image, handler, ctx, attached, answer, pushed, socket, traffic>>

\* The tab is closed, or the network is gone.
ClientLeaves ==
    /\ socket = "open"
    /\ socket' = "client"
    /\ UNCHANGED <<session, exec, pushed, traffic>>

\* middleware.Timeout (cmd/main.go:160): 60 seconds after the request began.
ContextExpires ==
    /\ ctx
    /\ ctx' = FALSE
    /\ UNCHANGED <<box, image, handler, attached, answer, exec, pushed, socket, traffic>>

-----------------------------------------------------------------------------
HandlerStep ==
    \/ List \/ ListFails \/ Restart \/ ExecCreate \/ ExecCreateFails
    \/ ExecAttach \/ ExecAttachFails \/ PeekOutput \/ PeekError \/ PeekSilence
    \/ HandlerReturns

OutputStep == ReadOutput \/ ReadOutputFails \/ WriteOutput \/ ReportOutput

InputStep == ReadFrameFails \/ WriteInput \/ Resize \/ ReportInput

Next ==
    \/ HandlerStep \/ OutputStep \/ InputStep \/ ReadFrame
    \/ Produce \/ CommandEnds \/ BoxChanges \/ ClientLeaves \/ ContextExpires

Spec == Init /\ [][Next]_vars

\* Goroutines run; a Docker call returns; a client that is connected reads what
\* it is sent, and a command what it is typed.
FairSpec == Spec /\ WF_vars(HandlerStep) /\ WF_vars(OutputStep) /\ WF_vars(InputStep)

-----------------------------------------------------------------------------
(* Safety *)

\* What was read of the attached command is what the client has received, what
\* the goroutine has in hand and what was pushed back, in this order, without a
\* gap or a repetition, although the first chunk is read twice.
OutputInOrder ==
    LET inHand == IF out.pc = "write" THEN <<out.chunk>> ELSE <<>>
    IN  /\ out.pc \in {"read", "write"} =>
              got \o inHand \o pushed = [k \in 1..exec.read |-> k]
        /\ out.pc \in {"report", "done"} => got = [k \in 1..Len(got) |-> k]

-----------------------------------------------------------------------------
(* Liveness, under FairSpec *)

Over == handler.pc = "done" /\ out.pc \in {"off", "done"} /\ inp.pc \in {"off", "done"}

\* PROTOCOL.md:32 "Data flows bidirectionally until either side closes": once
\* the client has left or the command has ended, the handler returns and both
\* goroutines end, whatever call each of them was in.
EndsWithEitherSide ==
    socket = "client" \/ (handler.pc = "serving" /\ exec.state = "ended") ~> Over

-----------------------------------------------------------------------------
(* What the comments and the protocol say, and the code does not do *)

\* manager.go:350 "OCI errors come through the attach stream, not as attach
\* errors. Read the first chunk to detect this.": the peek tells whether the
\* command is there.
PeekTellsMissing ==
    [][handler.pc = "peek" /\ handler'.pc # "peek" =>
          (handler'.pc = "serving" <=> handler.try \in present)]_vars

\* PROTOCOL.md:17 "stdin | raw binary/text | Forwarded directly to container
\* stdin": while the command runs, no frame of input is dropped.
InputForwarded ==
    inp.pc = "read" /\ attached /\ exec.state = "running" /\ handler.try \in present =>
        typed.written = typed.sent

\* PROTOCOL.md:18 a resize frame "triggers PTY resize": while the command runs
\* and the client is there.
ResizeTriggered ==
    [][inp.pc = "resize" /\ inp'.pc = "read" /\ socket = "open"
          /\ exec.state = "running" /\ handler.try \in present =>
          exec'.resized = exec.resized + 1]_vars
=============================================================================
