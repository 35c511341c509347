--------------------------- MODULE TerminalProofs ---------------------------
(***************************************************************************)
(* The output of a terminal arrives in order, and the counts of its frames *)
(* stay within each other, for any numbers of chunks and frames.           *)
(***************************************************************************)
EXTENDS Terminal, SequenceTheorems, TLAPS

USE TerminalAssumption

\* The first n chunks of a command, in order.
UpTo(n) == [k \in 1..n |-> k]

\* Before the goroutines start nothing has been read for good.
NotServed ==
    /\ out.pc = "off" => pushed = <<>> /\ got = <<>> /\ exec.read = 0
    /\ out.pc = "off" <=> inp.pc = "off"
    /\ handler.pc \in {"list", "restart", "create", "attach", "peek"} => out.pc = "off"

\* The peeked chunk comes first and is in one place only: pushed back, in hand,
\* or with the client.
Order ==
    \/ out.pc = "off"
    \/ out.pc = "read" /\ pushed = <<1>> /\ got = <<>> /\ exec.read = 1
    \/ out.pc = "read" /\ pushed = <<>> /\ got = UpTo(exec.read)
    \/ /\ out.pc = "write" /\ pushed = <<>> /\ exec.read > 0
       /\ out.chunk = exec.read /\ got = UpTo(exec.read - 1)
    \/ out.pc \in {"report", "done"} /\ \E n \in 0..exec.read : got = UpTo(n)

\* A frame is input or a resize, and is dealt with once.
Pending(place) == IF inp.pc = place THEN 1 ELSE 0

FrameCount ==
    /\ typed.written + Pending("stdin") <= typed.sent
    /\ typed.sent + exec.resized + Pending("resize") <= frames

IInv == TypeOK /\ NotServed /\ Order /\ FrameCount

-----------------------------------------------------------------------------
(* The fields of the records *)

HandlerPCs == {"list", "restart", "create", "attach", "peek", "serving", "done"}

\* What the types say of the fields the proof speaks of,
LEMMA Fields ==
  ASSUME TypeOK
  PROVE  /\ handler.pc \in HandlerPCs /\ handler.try \in 1..3
         /\ exec.read \in 0..MaxOut /\ exec.made \in 0..MaxOut /\ exec.resized \in 0..MaxIn
         /\ exec.read <= exec.made
         /\ typed.sent \in 0..MaxIn /\ typed.written \in 0..MaxIn /\ frames \in 0..MaxIn
  BY DEF TypeOK, HandlerRecord, HandlerPCs, Tries, ExecRecord

\* and that no chunk, and the first alone, are chunks.
LEMMA NoChunks == <<>> \in Chunks /\ Len(<<>>) = 0 /\ <<1>> \in Chunks /\ Len(<<1>>) = 1
  BY DEF Chunks

-----------------------------------------------------------------------------
(* Chunks in order *)

\* The first n chunks are n chunks, and the next one appended makes n + 1.
LEMMA UpToSeq ==
  ASSUME NEW n \in 0..MaxOut
  PROVE  /\ UpTo(n) \in Chunks /\ Len(UpTo(n)) = n
         /\ UpTo(0) = <<>>
         /\ n > 0 => Append(UpTo(n - 1), n) = UpTo(n)
<1>1. UpTo(n) \in Chunks /\ Len(UpTo(n)) = n /\ UpTo(0) = <<>>
  BY DEF UpTo, Chunks
<1>2. ASSUME n > 0 PROVE Append(UpTo(n - 1), n) = UpTo(n)
  <2>1. UpTo(n - 1) \in Chunks /\ Len(UpTo(n - 1)) = n - 1
    BY <1>2 DEF UpTo, Chunks
  <2>2. QED
    BY <1>2, <2>1, AppendProperties DEF UpTo, Chunks
<1>3. QED
  BY <1>1, <1>2

-----------------------------------------------------------------------------
(* The invariant is inductive *)

\* At the beginning nothing is attached, read or typed.
THEOREM InitInv == Init => IInv
<1> SUFFICES ASSUME Init PROVE IInv
  OBVIOUS
<1>1. <<>> \in Chunks /\ Len(<<>>) = 0
  BY NoChunks
<1>2. TypeOK
  <2>1. /\ pushed \in Chunks /\ Len(pushed) <= 1
        /\ got \in Chunks /\ Len(got) <= MaxOut
    BY <1>1 DEF Init
  <2>2. exec \in ExecRecord /\ exec.read <= exec.made
    BY DEF Init, NoExec, ExecRecord
  <2>3. 0 \in 0..MaxOut /\ 0 \in 0..MaxIn /\ 1 \in Tries /\ 0 \in 0..2
    BY DEF Tries
  <2>4. QED
    BY <2>1, <2>2, <2>3 DEF Init, TypeOK, ContainerState, HandlerRecord, OutRecord, InpRecord
<1>3. QED
  BY <1>2 DEF Init, IInv, NotServed, Order, FrameCount, Pending, NoExec

\* What the handler changes when it moves on, returns or tries the next command.
LEMMA HandlerMoves ==
  ASSUME TypeOK, NEW from \in HandlerPCs,
         \/ \E to \in HandlerPCs : Goto(from, to) /\ UNCHANGED <<ctx, socket, answer, attached>>
         \/ \E to \in HandlerPCs : Goto(from, to) /\ attached' = TRUE /\ UNCHANGED <<ctx, socket, answer>>
         \/ Return(from) /\ answer' \in {answer, "notFound", "failed"}
         \/ TryNext(from)
  PROVE  /\ handler' \in HandlerRecord
         /\ handler.pc = from
         /\ attached' \in BOOLEAN /\ ctx' \in BOOLEAN
         /\ socket' \in {"open", "client", "server"}
         /\ answer' \in {"none", "notFound", "failed"}
<1> USE DEF HandlerRecord
<1>1. handler \in HandlerRecord /\ attached \in BOOLEAN /\ ctx \in BOOLEAN
      /\ socket \in {"open", "client", "server"} /\ answer \in {"none", "notFound", "failed"}
  BY DEF TypeOK
<1>2. CASE Return(from) /\ answer' \in {answer, "notFound", "failed"}
  BY <1>1, <1>2 DEF Return, Goto, HandlerPCs
<1>3. CASE \E to \in HandlerPCs : Goto(from, to) /\ UNCHANGED <<ctx, socket, answer>>
           /\ attached' \in BOOLEAN
  BY <1>1, <1>3 DEF Goto, HandlerPCs
<1>4. CASE TryNext(from)
  <2>1. CASE handler.try < 3 /\ handler.pc = from /\ attached' = FALSE
             /\ handler' = [pc |-> "create", try |-> handler.try + 1]
             /\ UNCHANGED <<ctx, socket, answer>>
    <3>1. handler.try + 1 \in Tries
      BY <1>1, <2>1 DEF Tries
    <3>2. QED
      BY <1>1, <2>1, <3>1 DEF HandlerPCs
  <2>2. CASE Return(from) /\ answer' \in {answer, "failed"}
    BY <1>2, <2>2
  <2>3. QED
    BY <1>4, <2>1, <2>2 DEF TryNext
<1>5. QED
  BY <1>1, <1>2, <1>3, <1>4

\* The handler works on a command nobody reads yet.
LEMMA EarlyStep ==
  ASSUME IInv, UNCHANGED <<image, pushed, traffic>>,
         \/ List \/ ListFails \/ Restart \/ ExecCreate \/ ExecCreateFails
         \/ ExecAttach \/ ExecAttachFails \/ PeekError
  PROVE  IInv'
<1>1. PICK from \in {"list", "restart", "create", "attach", "peek"} :
         \/ \E to \in HandlerPCs : Goto(from, to) /\ UNCHANGED <<ctx, socket, answer, attached>>
         \/ \E to \in HandlerPCs : Goto(from, to) /\ attached' = TRUE /\ UNCHANGED <<ctx, socket, answer>>
         \/ Return(from) /\ answer' \in {answer, "notFound", "failed"}
         \/ TryNext(from)
  BY DEF List, ListFails, Restart, ExecCreate, ExecCreateFails, ExecAttach, ExecAttachFails,
     PeekError, HandlerPCs
<1>2. /\ handler' \in HandlerRecord /\ handler.pc = from
      /\ attached' \in BOOLEAN /\ ctx' \in BOOLEAN
      /\ socket' \in {"open", "client", "server"}
      /\ answer' \in {"none", "notFound", "failed"}
  BY <1>1, HandlerMoves DEF HandlerPCs, IInv
<1>3. out.pc = "off" /\ inp.pc = "off" /\ exec.read = 0 /\ pushed = <<>> /\ got = <<>>
  BY <1>2 DEF IInv, NotServed
<1>4. exec' \in ExecRecord /\ exec'.read = 0 /\ exec'.read <= exec'.made
      /\ exec'.resized <= exec.resized
  <2>1. exec \in ExecRecord /\ exec.resized \in 0..MaxIn /\ exec.read <= exec.made
    BY Fields DEF IInv, TypeOK
  <2>2. /\ NoExec \in ExecRecord /\ NoExec.read = 0 /\ NoExec.made = 0 /\ NoExec.resized = 0
    BY DEF NoExec, ExecRecord
  <2>3. exec' \in {exec, [exec EXCEPT !.state = "running"], NoExec,
                   [NoExec EXCEPT !.state = "created"]}
    BY DEF List, ListFails, Restart, ExecCreate, ExecCreateFails, ExecAttach,
       ExecAttachFails, PeekError
  <2>4. CASE exec' \in {exec, [exec EXCEPT !.state = "running"]}
    BY <1>3, <2>1, <2>4 DEF ExecRecord
  <2>5. CASE exec' \in {NoExec, [NoExec EXCEPT !.state = "created"]}
    BY <2>1, <2>2, <2>5 DEF ExecRecord
  <2>6. QED
    BY <2>3, <2>4, <2>5
<1>5. box' \in ContainerState
  <2>1. box' \in {box, "running"}
    BY DEF List, ListFails, Restart, ExecCreate, ExecCreateFails, ExecAttach,
       ExecAttachFails, PeekError
  <2>2. QED
    BY <2>1 DEF IInv, TypeOK, ContainerState
<1>6. TypeOK'
  BY <1>2, <1>4, <1>5 DEF IInv, TypeOK, traffic, image
<1>7. FrameCount'
  <2>1. typed.sent \in Nat /\ frames \in Nat /\ exec.resized \in Nat /\ exec'.resized \in Nat
    BY <1>4, Fields DEF IInv, ExecRecord
  <2>2. QED
    BY <1>4, <2>1 DEF IInv, FrameCount, Pending, traffic
<1>8. QED
  BY <1>3, <1>4, <1>6, <1>7 DEF IInv, NotServed, Order, traffic

\* The command is served, with its first chunk pushed back or not read.
LEMMA ServeStep ==
  ASSUME IInv, PeekOutput \/ PeekSilence
  PROVE  IInv'
<1>1. handler.pc = "peek" /\ Goto("peek", "serving") /\ Serve
  BY DEF PeekOutput, PeekSilence, Serve, Goto
<1>2. out.pc = "off" /\ inp.pc = "off" /\ exec.read = 0 /\ pushed = <<>> /\ got = <<>>
  BY <1>1 DEF IInv, NotServed
<1>3. handler' \in HandlerRecord /\ handler'.pc = "serving"
  BY <1>1 DEF Goto, IInv, TypeOK, HandlerRecord
<1>4. /\ out'.pc = "read" /\ inp'.pc = "read" /\ out' \in OutRecord /\ inp' \in InpRecord
  BY <1>1 DEF Serve, IInv, TypeOK, OutRecord, InpRecord
<1>5. /\ exec' \in ExecRecord /\ exec'.read <= exec'.made /\ exec'.resized = exec.resized
      /\ \/ exec'.read = 1 /\ pushed' = <<1>>
         \/ exec'.read = 0 /\ pushed' = <<>>
  <2>1. exec \in ExecRecord /\ exec.made \in 0..MaxOut
    BY Fields DEF IInv, TypeOK
  <2>2. CASE PeekOutput
    <3>1. exec' = [exec EXCEPT !.read = 1] /\ pushed' = <<1>> /\ 1 <= exec.made
      BY <1>2, <2>1, <2>2 DEF PeekOutput
    <3>2. QED
      BY <2>1, <3>1 DEF ExecRecord
  <2>3. CASE PeekSilence
    BY <1>2, <2>1, <2>3 DEF PeekSilence
  <2>4. QED
    BY <2>2, <2>3
<1>6. UNCHANGED <<box, image, ctx, attached, errCh, socket, got, answer, frames, typed>>
  BY DEF PeekOutput, PeekSilence
<1>7. TypeOK'
  <2>1. pushed' \in Chunks /\ Len(pushed') <= 1
    <3>1. 0 <= 1 /\ 1 <= 1
      OBVIOUS
    <3>2. CASE pushed' = <<1>>
      BY <3>1, <3>2, NoChunks, Zenon
    <3>3. CASE pushed' = <<>>
      BY <3>1, <3>3, NoChunks, Zenon
    <3>4. QED
      BY <1>5, <3>2, <3>3
  <2>2. QED
    BY <1>3, <1>4, <1>5, <1>6, <2>1 DEF IInv, TypeOK, image
<1>8. Order'
  BY <1>2, <1>4, <1>5, <1>6, UpToSeq DEF Order
<1>9. FrameCount'
  BY <1>2, <1>4, <1>5, <1>6 DEF IInv, FrameCount, Pending
<1>10. QED
  BY <1>3, <1>4, <1>7, <1>8, <1>9 DEF IInv, NotServed

\* The handler returns; the goroutines go on.
LEMMA ReturnStep ==
  ASSUME IInv, HandlerReturns
  PROVE  IInv'
<1>1. Return("serving") /\ UNCHANGED answer
  BY DEF HandlerReturns
<1>2. /\ handler' \in HandlerRecord /\ handler.pc = "serving"
      /\ attached' \in BOOLEAN /\ ctx' \in BOOLEAN
      /\ socket' \in {"open", "client", "server"}
  BY <1>1, HandlerMoves DEF HandlerPCs, IInv
<1>3. handler'.pc = "done"
  BY <1>1 DEF Return, Goto, IInv, TypeOK, HandlerRecord
<1>4. errCh' \in 0..2
  BY DEF HandlerReturns, IInv, TypeOK
<1>5. TypeOK'
  BY <1>2, <1>4 DEF HandlerReturns, IInv, TypeOK, image
<1>6. QED
  BY <1>3, <1>5 DEF HandlerReturns, IInv, NotServed, Order, FrameCount, Pending

\* A chunk is read: the one that was pushed back, or the next of the connection.
LEMMA ReadOutputStep ==
  ASSUME IInv, ReadOutput
  PROVE  IInv'
<1>1. /\ out' \in OutRecord /\ out'.pc = "write" /\ pushed' = <<>>
      /\ exec' \in ExecRecord /\ exec'.read <= exec'.made /\ exec'.resized = exec.resized
      /\ exec'.read > 0 /\ out'.chunk = exec'.read /\ got = UpTo(exec'.read - 1)
  <2>1. /\ exec \in ExecRecord /\ exec.read \in 0..MaxOut /\ exec.made \in 0..MaxOut
        /\ exec.read <= exec.made /\ out.pc = "read"
    BY Fields DEF ReadOutput, IInv, TypeOK
  <2>2. CASE pushed # <<>>
    <3>1. pushed = <<1>> /\ got = <<>> /\ exec.read = 1
      BY <2>1, <2>2 DEF IInv, Order
    <3>2. Head(<<1>>) = 1 /\ Tail(<<1>>) = <<>>
      OBVIOUS
    <3>3. got = UpTo(0)
      BY <3>1, UpToSeq
    <3>4. exec' = exec /\ out' = [pc |-> "write", chunk |-> 1] /\ pushed' = <<>>
      BY <2>2, <3>1, <3>2 DEF ReadOutput
    <3>5. QED
      BY <2>1, <3>1, <3>3, <3>4 DEF OutRecord
  <2>3. CASE pushed = <<>>
    <3>1. got = UpTo(exec.read) /\ exec.read < exec.made
      BY <2>1, <2>3 DEF ReadOutput, IInv, Order
    <3>2. /\ exec.read + 1 \in 0..MaxOut /\ exec.read + 1 - 1 = exec.read
          /\ exec.read + 1 <= exec.made /\ exec.read + 1 > 0
      BY <2>1, <3>1
    <3>3. /\ exec' = [exec EXCEPT !.read = exec.read + 1] /\ UNCHANGED pushed
          /\ out' = [pc |-> "write", chunk |-> exec.read + 1]
      BY <2>3 DEF ReadOutput
    <3>4. /\ exec' \in ExecRecord /\ exec'.read = exec.read + 1 /\ exec'.made = exec.made
          /\ exec'.resized = exec.resized
      BY <2>1, <3>2, <3>3 DEF ExecRecord
    <3>5. out' \in OutRecord /\ out'.pc = "write" /\ out'.chunk = exec.read + 1
      BY <3>2, <3>3 DEF OutRecord
    <3>6. exec'.read > 0 /\ exec'.read <= exec'.made /\ got = UpTo(exec'.read - 1)
      <4>1. exec'.read - 1 = exec.read /\ exec'.read > 0 /\ exec'.read <= exec'.made
        BY <2>1, <3>2, <3>4
      <4>2. QED
        BY <3>1, <4>1, Zenon
    <3>7. QED
      BY <2>3, <3>3, <3>4, <3>5, <3>6
  <2>4. QED
    BY <2>2, <2>3
<1>2. out.pc = "read" /\ inp' = inp /\ inp.pc # "off" /\ handler' = handler
  BY DEF ReadOutput, session, IInv, NotServed
<1>3. TypeOK'
  BY <1>1, NoChunks DEF ReadOutput, session, image, IInv, TypeOK
<1>4. QED
  BY <1>1, <1>2, <1>3 DEF ReadOutput, session, IInv, NotServed, Order, FrameCount, Pending

\* A chunk comes to the client, in its turn, or the client is not there.
LEMMA WriteOutputStep ==
  ASSUME IInv, WriteOutput
  PROVE  IInv'
<1>1. /\ out.pc = "write" /\ pushed = <<>> /\ inp.pc # "off" /\ out \in OutRecord
      /\ exec.read \in 0..MaxOut /\ exec.read > 0 /\ out.chunk = exec.read
      /\ got = UpTo(exec.read - 1)
  BY Fields DEF WriteOutput, IInv, TypeOK, NotServed, Order
<1>2. /\ out' \in OutRecord
      /\ \/ out'.pc = "read" /\ got' = UpTo(exec.read)
         \/ out'.pc = "report" /\ got' = UpTo(exec.read - 1)
  BY <1>1, UpToSeq DEF WriteOutput, OutRecord
<1>3. exec.read - 1 \in 0..exec.read /\ exec.read - 1 \in 0..MaxOut
  BY <1>1
<1>4. /\ UpTo(exec.read) \in Chunks /\ Len(UpTo(exec.read)) = exec.read
      /\ UpTo(exec.read - 1) \in Chunks /\ Len(UpTo(exec.read - 1)) = exec.read - 1
  BY <1>1, <1>3, UpToSeq
<1>5. got' \in Chunks /\ Len(got') <= MaxOut
  BY <1>1, <1>2, <1>3, <1>4
<1>6. TypeOK'
  BY <1>2, <1>5 DEF WriteOutput, session, image, IInv, TypeOK
<1>7. QED
  BY <1>1, <1>2, <1>3, <1>6 DEF WriteOutput, session, IInv, NotServed, Order, FrameCount, Pending

\* The output goroutine comes to its end.
LEMMA OutputEndsStep ==
  ASSUME IInv, ReadOutputFails \/ ReportOutput
  PROVE  IInv'
<1>1. /\ out.pc \in {"read", "report"} /\ inp.pc # "off" /\ out'.pc \in {"report", "done"}
      /\ out' \in OutRecord /\ errCh' \in 0..2
      /\ UNCHANGED <<session, exec, pushed, inp, socket, got, frames, typed>>
  BY DEF ReadOutputFails, ReportOutput, ErrChTakes, IInv, TypeOK, NotServed, OutRecord
<1>2. \E n \in 0..exec.read : got = UpTo(n)
  <2>1. exec.read \in 0..exec.read
    BY Fields DEF IInv
  <2>2. out.pc = "read" => pushed = <<>>
    BY DEF ReadOutputFails, ReportOutput
  <2>3. out.pc = "read" => got = UpTo(exec.read)
    BY <2>2 DEF IInv, Order
  <2>4. out.pc = "report" => \E n \in 0..exec.read : got = UpTo(n)
    BY DEF IInv, Order
  <2>5. QED
    BY <1>1, <2>1, <2>3, <2>4
<1>3. TypeOK'
  BY <1>1 DEF session, image, IInv, TypeOK
<1>4. QED
  BY <1>1, <1>2, <1>3 DEF session, IInv, NotServed, Order, FrameCount, Pending

\* The input goroutine and its frames.
LEMMA InputStepInv ==
  ASSUME IInv, InputStep \/ ReadFrame
  PROVE  IInv'
<1>1. inp.pc \notin {"off", "done"} /\ inp' \in InpRecord /\ inp'.pc # "off"
  BY DEF InputStep, ReadFrame, ReadFrameFails, WriteInput, Resize, ReportInput, IInv, TypeOK, InpRecord
<1>2. /\ UNCHANGED <<session, pushed, out, socket, got>> /\ errCh' \in 0..2
  BY DEF InputStep, ReadFrame, ReadFrameFails, WriteInput, Resize, ReportInput, ErrChTakes, IInv, TypeOK
<1>3. /\ frames \in 0..MaxIn /\ typed.sent \in 0..MaxIn /\ typed.written \in 0..MaxIn
      /\ exec.resized \in 0..MaxIn /\ exec \in ExecRecord /\ exec.read <= exec.made
      /\ typed \in [sent : 0..MaxIn, written : 0..MaxIn]
  BY Fields DEF IInv, TypeOK
<1>4. /\ frames' \in 0..MaxIn
      /\ typed' \in [sent : 0..MaxIn, written : 0..MaxIn]
      /\ exec' \in ExecRecord /\ exec'.read = exec.read /\ exec'.made = exec.made
      /\ FrameCount'
  <2>0. FrameCount
    BY DEF IInv
  <2>1. CASE ReadFrame
    <3>1. /\ inp.pc = "read" /\ frames' = frames + 1 /\ frames < MaxIn /\ exec' = exec
      BY <2>1 DEF ReadFrame
    <3>2. /\ typed.written <= typed.sent /\ typed.sent + exec.resized <= frames
      BY <1>3, <2>0, <3>1 DEF FrameCount, Pending
    <3>3. \/ inp'.pc = "resize" /\ typed' = typed
          \/ inp'.pc = "stdin" /\ typed' = [typed EXCEPT !.sent = typed.sent + 1]
          \/ inp'.pc = "read" /\ typed' = [typed EXCEPT !.sent = typed.sent + 1]
      BY <2>1, <3>1 DEF ReadFrame
    <3>4. typed.sent + 1 \in 0..MaxIn
      BY <1>3, <3>1, <3>2
    <3>5. /\ typed' \in [sent : 0..MaxIn, written : 0..MaxIn]
          /\ typed'.written = typed.written
          /\ \/ inp'.pc = "resize" /\ typed'.sent = typed.sent
             \/ inp'.pc \in {"stdin", "read"} /\ typed'.sent = typed.sent + 1
      BY <1>3, <3>3, <3>4
    <3>6. FrameCount'
      BY <1>3, <3>1, <3>2, <3>5 DEF FrameCount, Pending
    <3>7. QED
      BY <1>3, <3>1, <3>5, <3>6
  <2>2. CASE WriteInput
    <3>1. /\ inp.pc = "stdin" /\ inp'.pc = "read" /\ UNCHANGED <<exec, frames>>
          /\ typed' \in {typed, [typed EXCEPT !.written = typed.written + 1]}
      BY <1>3, <2>2 DEF WriteInput
    <3>2. typed.written + 1 <= typed.sent /\ typed.sent + exec.resized <= frames
      BY <1>3, <2>0, <3>1 DEF FrameCount, Pending
    <3>3. typed.written + 1 \in 0..MaxIn
      BY <1>3, <3>2
    <3>4. /\ typed' \in [sent : 0..MaxIn, written : 0..MaxIn] /\ typed'.sent = typed.sent
          /\ typed'.written \in {typed.written, typed.written + 1}
      BY <1>3, <3>1, <3>3
    <3>5. FrameCount'
      BY <1>3, <3>1, <3>2, <3>4 DEF FrameCount, Pending
    <3>6. QED
      BY <1>3, <3>1, <3>4, <3>5
  <2>3. CASE Resize
    <3>1. /\ inp.pc = "resize" /\ inp'.pc = "read" /\ UNCHANGED <<typed, frames>>
          /\ exec' \in {exec, [exec EXCEPT !.resized = exec.resized + 1]}
      BY <1>3, <2>3 DEF Resize, ExecRecord
    <3>2. typed.written <= typed.sent /\ typed.sent + exec.resized + 1 <= frames
      BY <1>3, <2>0, <3>1 DEF FrameCount, Pending
    <3>3. exec.resized + 1 \in 0..MaxIn
      BY <1>3, <3>2
    <3>4. /\ exec' \in ExecRecord /\ exec'.read = exec.read /\ exec'.made = exec.made
          /\ exec'.resized \in {exec.resized, exec.resized + 1}
      BY <1>3, <3>1, <3>3 DEF ExecRecord
    <3>5. FrameCount'
      BY <1>3, <3>1, <3>2, <3>4 DEF FrameCount, Pending
    <3>6. QED
      BY <1>3, <3>1, <3>4, <3>5
  <2>4. CASE ReadFrameFails \/ ReportInput
    <3>1. inp.pc \in {"read", "report"} /\ inp'.pc \in {"report", "done"}
          /\ UNCHANGED <<exec, frames, typed>>
      BY <2>4 DEF ReadFrameFails, ReportInput
    <3>2. QED
      BY <1>3, <2>0, <3>1 DEF FrameCount, Pending
  <2>5. QED
    BY <2>1, <2>2, <2>3, <2>4 DEF InputStep
<1>5. TypeOK'
  BY <1>1, <1>2, <1>3, <1>4 DEF session, image, IInv, TypeOK
<1>6. QED
  BY <1>1, <1>2, <1>4, <1>5 DEF session, IInv, NotServed, Order

\* The command, the container, the client and the clock.
LEMMA EnvironmentStep ==
  ASSUME IInv, Produce \/ CommandEnds \/ BoxChanges \/ ClientLeaves \/ ContextExpires
  PROVE  IInv'
<1>1. /\ exec' \in ExecRecord /\ exec'.read = exec.read /\ exec'.resized = exec.resized
      /\ exec'.read <= exec'.made
  <2>1. /\ exec \in ExecRecord /\ exec.read \in 0..MaxOut /\ exec.made \in 0..MaxOut
        /\ exec.read <= exec.made
    BY Fields DEF IInv, TypeOK
  <2>2. CASE Produce
    <3>1. exec' = [exec EXCEPT !.made = exec.made + 1] /\ exec.made < MaxOut
      BY <2>1, <2>2 DEF Produce
    <3>2. exec.made + 1 \in 0..MaxOut /\ exec.read <= exec.made + 1
      BY <2>1, <3>1
    <3>3. QED
      BY <2>1, <3>1, <3>2 DEF ExecRecord
  <2>3. CASE exec' \in {exec, [exec EXCEPT !.state = "ended"]}
    BY <2>1, <2>3 DEF ExecRecord
  <2>4. QED
    BY <2>2, <2>3 DEF CommandEnds, BoxChanges, ClientLeaves, ContextExpires
<1>2. box' \in ContainerState
  <2>1. CASE BoxChanges
    <3>1. \A b \in ContainerState : BoxMoves[b] \subseteq ContainerState
      BY DEF BoxMoves, ContainerState
    <3>2. QED
      BY <2>1, <3>1 DEF BoxChanges, IInv, TypeOK
  <2>2. CASE ~BoxChanges
    BY <2>2 DEF Produce, CommandEnds, ClientLeaves, ContextExpires, session, IInv, TypeOK
  <2>3. QED
    BY <2>1, <2>2
<1>3. /\ UNCHANGED <<image, handler, attached, answer, pushed, traffic>>
      /\ ctx' \in BOOLEAN /\ socket' \in {"open", "client", "server"}
  BY DEF Produce, CommandEnds, BoxChanges, ClientLeaves, ContextExpires, session, IInv, TypeOK
<1>4. TypeOK'
  BY <1>1, <1>2, <1>3 DEF image, traffic, IInv, TypeOK
<1>5. QED
  BY <1>1, <1>3, <1>4 DEF traffic, IInv, NotServed, Order, FrameCount, Pending

\* Every step keeps the invariant.
LEMMA InvStep ==
  ASSUME IInv, [Next]_vars
  PROVE  IInv'
<1>1. CASE UNCHANGED vars
  BY <1>1 DEF vars, IInv, TypeOK, NotServed, Order, FrameCount, Pending
<1>2. CASE HandlerStep
  <2>1. CASE PeekOutput \/ PeekSilence
    BY <2>1, ServeStep
  <2>2. CASE HandlerReturns
    BY <2>2, ReturnStep
  <2>3. CASE \/ List \/ ListFails \/ Restart \/ ExecCreate \/ ExecCreateFails
             \/ ExecAttach \/ ExecAttachFails \/ PeekError
    <3>1. UNCHANGED <<image, pushed, traffic>>
      BY <2>3 DEF List, ListFails, Restart, ExecCreate, ExecCreateFails, ExecAttach,
         ExecAttachFails, PeekError
    <3>2. QED
      BY <2>3, <3>1, EarlyStep
  <2>4. QED
    BY <1>2, <2>1, <2>2, <2>3 DEF HandlerStep
<1>3. CASE OutputStep
  BY <1>3, ReadOutputStep, WriteOutputStep, OutputEndsStep DEF OutputStep
<1>4. QED
  BY <1>1, <1>2, <1>3, InputStepInv, EnvironmentStep DEF Next

\* The invariant holds of every state of a terminal.
THEOREM Invariance == Spec => []IInv
<1>1. IInv /\ [Next]_vars => IInv'
  BY InvStep
<1>2. QED
  BY <1>1, InitInv, PTL DEF Spec

-----------------------------------------------------------------------------
(* What follows from it *)

\* The client's output, the frames and the goroutines' places are well formed.
THEOREM TypeCorrect == Spec => []TypeOK
<1>1. IInv => TypeOK
  BY DEF IInv
<1>2. QED
  BY <1>1, Invariance, PTL

\* Where the chunks are in order, they are so for the client.
LEMMA OrderGives ==
  ASSUME IInv
  PROVE  OutputInOrder
<1>1. exec.read \in 0..MaxOut /\ <<>> = UpTo(0)
  BY Fields, UpToSeq DEF IInv
<1>2. CASE out.pc = "read" /\ pushed = <<1>> /\ got = <<>> /\ exec.read = 1
  <2>1. UpTo(1) = <<1>> /\ <<>> \o <<>> \o <<1>> = <<1>>
    BY DEF UpTo
  <2>2. QED
    BY <1>2, <2>1 DEF OutputInOrder, UpTo
<1>3. CASE out.pc = "read" /\ pushed = <<>> /\ got = UpTo(exec.read)
  <2>1. got \in Chunks
    BY <1>1, <1>3, UpToSeq
  <2>2. got \o <<>> \o <<>> = got
    BY <2>1
  <2>3. QED
    BY <1>3, <2>2 DEF OutputInOrder, UpTo
<1>4. CASE /\ out.pc = "write" /\ pushed = <<>> /\ exec.read > 0
           /\ out.chunk = exec.read /\ got = UpTo(exec.read - 1)
  <2>1. got \in Chunks /\ exec.read \in 1..MaxOut
    BY <1>1, <1>4, UpToSeq
  <2>2. got \o <<exec.read>> = Append(got, exec.read)
    BY <2>1, AppendIsConcat
  <2>3. got \o <<exec.read>> = UpTo(exec.read)
    BY <1>1, <1>4, <2>2, UpToSeq
  <2>4. UpTo(exec.read) \in Chunks
    BY <1>1, UpToSeq
  <2>5. UpTo(exec.read) \o <<>> = UpTo(exec.read)
    BY <2>4 DEF Chunks
  <2>6. QED
    BY <1>4, <2>3, <2>5 DEF OutputInOrder, UpTo
<1>5. CASE out.pc \in {"report", "done"} /\ \E n \in 0..exec.read : got = UpTo(n)
  <2>1. PICK n \in 0..exec.read : got = UpTo(n)
    BY <1>5
  <2>2. n \in 0..MaxOut
    BY <1>1, <2>1
  <2>3. Len(got) = n
    BY <2>1, <2>2, UpToSeq
  <2>4. QED
    BY <1>5, <2>1, <2>3 DEF OutputInOrder, UpTo
<1>6. CASE out.pc = "off"
  BY <1>6 DEF OutputInOrder
<1>7. QED
  BY <1>2, <1>3, <1>4, <1>5, <1>6 DEF IInv, Order

\* The client gets the output of the command in order, without a gap or a
\* repetition, although AttachTerminal reads the first chunk twice.
THEOREM InOrder == Spec => []OutputInOrder
<1>1. IInv => OutputInOrder
  BY OrderGives
<1>2. QED
  BY <1>1, Invariance, PTL
=============================================================================
