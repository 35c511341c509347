-------------------------- MODULE PiWebProxyProofs --------------------------
(***************************************************************************)
(* The safety invariants of PiWebProxy for any sets of sessions, ports and *)
(* goroutines.  The proof makes no use of the mutex: it may be unlocked by *)
(* anybody, as in the code.  What keeps the registry sound is that a       *)
(* listener in the hands of a request that has opened it is known to no    *)
(* other request, and that a request closes only what it found registered  *)
(* for its own session.                                                    *)
(***************************************************************************)
EXTENDS PiWebProxy, TLAPS

USE PiWebAssumption

\* StartPiWeb before its look at the registry, with a proxy it found there, on
\* its way to a new listener, and with that listener; and GetPiWebStatus.
Early == {"lock", "locked"}
OldPCs == {"health", "close"}
Late == {"unlock", "findPort", "probed", "launch", "waitReady", "listen"}
NewPCs == {"lockAgain", "registering"}
PortPCs == {"findPort", "probed", "launch", "waitReady", "listen"}
StatusPCs == {"statusLock", "statusLocked", "statusHealth"}

RequestInv ==
    \A t \in Threads :
        /\ pc(t) # "idle" => req[t].sess \in Sessions
        /\ req[t].old # NoSock <=> pc(t) \in OldPCs
        /\ req[t].new # NoSock <=> pc(t) \in NewPCs
        /\ pc(t) \in PortPCs => req[t].port # NoPort

OneSession ==
    \A r, s \in Sessions : registry[r] = registry[s] /\ registry[r] # NoSock => r = s

\* A listener is registered for the session it was opened for.
OwnSession ==
    \A s \in Sessions :
        registry[s] # NoSock /\ Open(registry[s]) => sock[registry[s]].sess = s

\* A new listener is open, and nobody else has it.
NewInv ==
    \A t \in Threads : pc(t) \in NewPCs =>
        /\ Open(req[t].new) /\ sock[req[t].new].sess = req[t].sess
        /\ \A s \in Sessions : registry[s] # req[t].new
        /\ \A u \in Threads : req[u].old # req[t].new
        /\ \A u \in Threads \ {t} : req[u].new # req[t].new

\* What a request has found in the registry was, and is, its own session's.
OldInv ==
    \A t \in Threads : pc(t) \in OldPCs =>
        /\ Open(req[t].old) => sock[req[t].old].sess = req[t].sess
        /\ \A s \in Sessions : registry[s] = req[t].old => s = req[t].sess

OverlapNoticed ==
    \A t \in Threads : \A u \in Threads \ {t} :
        pc(t) \in StartPCs /\ pc(u) \in StartPCs /\ req[t].sess = req[u].sess
            => req[t].sess \in overlapped

\* Whatever a request is about to overwrite in the registry or to delete from it
\* unclosed, and whatever it has found there and is gone and open, came from an
\* overlapping request, or there is a shutdown.
OverwriteNeedsOverlap ==
    \A t \in Threads : ~ShutDown /\ req[t].sess \notin overlapped =>
        /\ pc(t) \in Late \cup NewPCs => registry[req[t].sess] = NoSock
        /\ pc(t) \in OldPCs /\ registry[req[t].sess] # req[t].old
               => registry[req[t].sess] = NoSock /\ ~Open(req[t].old)
        /\ pc(t) = "delete" /\ registry[req[t].sess] # NoSock => ~Open(registry[req[t].sess])

IInv ==
    /\ TypeOK /\ RequestInv /\ OneSession /\ NewInv /\ OldInv
    /\ OverlapNoticed /\ OverwriteNeedsOverlap
    /\ RegisteredIsOpen /\ OwnSession /\ LeakNeedsOverlap

-----------------------------------------------------------------------------
(* What a step does to the requests *)

\* Request t is at "to" now, for s, with port p and listeners o and n; the others stay.
Moves(t, to, s, p, o, n) ==
    /\ req' \in [Threads -> RequestRecord]
    /\ \A u \in Threads \ {t} : req'[u] = req[u]
    /\ req'[t].pc = to /\ req'[t].sess = s /\ req'[t].port = p
    /\ req'[t].old = o /\ req'[t].new = n

\* What an assignment to req[t] does to its fields and to the other requests: any,
LEMMA ChangeMoves ==
  ASSUME TypeOK, NEW t \in Threads, NEW r \in RequestRecord, req' = [req EXCEPT ![t] = r]
  PROVE  Moves(t, r.pc, r.sess, r.port, r.old, r.new)
  BY DEF TypeOK, Moves

\* a request that goes on,
LEMMA GotoMoves ==
  ASSUME TypeOK, NEW t \in Threads, NEW from, NEW to \in PCs, Goto(t, from, to)
  PROVE  Moves(t, to, req[t].sess, req[t].port, req[t].old, req[t].new)
<1>1. [req[t] EXCEPT !.pc = to] \in RequestRecord
  BY DEF TypeOK, RequestRecord
<1>2. req' = [req EXCEPT ![t] = [req[t] EXCEPT !.pc = to]]
  BY DEF Goto
<1> QED
  BY <1>1, <1>2 DEF TypeOK, RequestRecord, Moves

\* one that is answered,
LEMMA FinishMoves ==
  ASSUME TypeOK, NEW t \in Threads, NEW from, Finish(t, from)
  PROVE  Moves(t, "idle", NoSession, NoPort, NoSock, NoSock)
<1>1. NoRequest \in RequestRecord
  BY DEF RequestRecord, NoRequest, PCs
<1> QED
  BY <1>1 DEF TypeOK, Finish, NoRequest, Moves

\* one that arrives,
LEMMA BeginMoves ==
  ASSUME TypeOK, NEW t \in Threads, NEW s \in Sessions, NEW to \in PCs,
         req' = [req EXCEPT ![t].pc = to, ![t].sess = s]
  PROVE  Moves(t, to, s, req[t].port, req[t].old, req[t].new)
<1> DEFINE r == [req[t] EXCEPT !.pc = to, !.sess = s]
<1>1. r \in RequestRecord /\ req' = [req EXCEPT ![t] = r]
  BY DEF TypeOK, RequestRecord
<1>2. /\ r.pc = to /\ r.sess = s /\ r.port = req[t].port
      /\ r.old = req[t].old /\ r.new = req[t].new
  BY DEF TypeOK, RequestRecord
<1> HIDE DEF r
<1> QED
  BY <1>1, <1>2 DEF TypeOK, Moves

\* one that notes the registered listener,
LEMMA OldMoves ==
  ASSUME TypeOK, NEW t \in Threads, NEW k \in Socks \cup {NoSock}, NEW to \in PCs,
         req' = [req EXCEPT ![t].pc = to, ![t].old = k]
  PROVE  Moves(t, to, req[t].sess, req[t].port, k, req[t].new)
<1> DEFINE r == [req[t] EXCEPT !.pc = to, !.old = k]
<1>1. r \in RequestRecord /\ req' = [req EXCEPT ![t] = r]
  BY DEF TypeOK, RequestRecord
<1>2. /\ r.pc = to /\ r.sess = req[t].sess /\ r.port = req[t].port
      /\ r.old = k /\ r.new = req[t].new
  BY DEF TypeOK, RequestRecord
<1> HIDE DEF r
<1> QED
  BY <1>1, <1>2 DEF TypeOK, Moves

\* and one that notes a port.
LEMMA PortMoves ==
  ASSUME TypeOK, NEW t \in Threads, NEW p \in Ports, NEW to \in PCs,
         req' = [req EXCEPT ![t].pc = to, ![t].port = p]
  PROVE  Moves(t, to, req[t].sess, p, req[t].old, req[t].new)
<1> DEFINE r == [req[t] EXCEPT !.pc = to, !.port = p]
<1>1. r \in RequestRecord /\ req' = [req EXCEPT ![t] = r]
  BY DEF TypeOK, RequestRecord
<1>2. /\ r.pc = to /\ r.sess = req[t].sess /\ r.port = p
      /\ r.old = req[t].old /\ r.new = req[t].new
  BY DEF TypeOK, RequestRecord
<1> HIDE DEF r
<1> QED
  BY <1>1, <1>2 DEF TypeOK, Moves

\* The first port of the range is one,
LEMMA FirstIsPort == FirstPort \in Ports
  BY DEF Ports

\* and the one after a port that is not the last.
LEMMA NextMoves ==
  ASSUME TypeOK, RequestInv, NEW t \in Threads, NextPort(t)
  PROVE  \E p \in Ports : Moves(t, "findPort", req[t].sess, p, req[t].old, req[t].new)
<1> DEFINE p == req[t].port + 1
<1>1. /\ pc(t) = "findPort" /\ req[t] \in RequestRecord /\ req[t].port < LastPort
      /\ req' = [req EXCEPT ![t].port = req[t].port + 1]
  BY DEF TypeOK, NextPort
<1>2. req[t].port \in Ports
  BY <1>1 DEF RequestInv, PortPCs, RequestRecord
<1>3. p \in Ports
  BY <1>1, <1>2 DEF Ports
<1>4. req' = [req EXCEPT ![t].pc = "findPort", ![t].port = p]
  BY <1>1 DEF TypeOK, RequestRecord, pc
<1> HIDE DEF p
<1>5. Moves(t, "findPort", req[t].sess, p, req[t].old, req[t].new)
  BY <1>3, <1>4, PortMoves DEF PCs, StartPCs
<1> QED
  BY <1>3, <1>5

\* Listen takes a listener that is closed and that nobody refers to.
LEMMA ListenMoves ==
  ASSUME TypeOK, NEW t \in Threads, Listen(t)
  PROVE  \E k \in Unused :
            /\ Moves(t, "lockAgain", req[t].sess, req[t].port, req[t].old, k)
            /\ sock' = [sock EXCEPT ![k] =
                            [port |-> req[t].port, sess |-> req[t].sess, serving |-> TRUE]]
<1> DEFINE new == CHOOSE k \in Unused : TRUE
<1>1. new \in Unused
  BY DEF Listen
<1>2. /\ sock' = [sock EXCEPT ![new] =
                      [port |-> req[t].port, sess |-> req[t].sess, serving |-> TRUE]]
      /\ req' = [req EXCEPT ![t].pc = "lockAgain", ![t].new = new]
  BY DEF Listen
<1> HIDE DEF new
<1> DEFINE r == [req[t] EXCEPT !.pc = "lockAgain", !.new = new]
<1>3. r \in RequestRecord /\ req' = [req EXCEPT ![t] = r]
  BY <1>1, <1>2 DEF TypeOK, RequestRecord, Unused, PCs, StartPCs
<1>4. /\ r.pc = "lockAgain" /\ r.sess = req[t].sess /\ r.port = req[t].port
      /\ r.old = req[t].old /\ r.new = new
  BY DEF TypeOK, RequestRecord
<1> HIDE DEF r
<1>5. Moves(t, "lockAgain", req[t].sess, req[t].port, req[t].old, new)
  BY <1>3, <1>4 DEF TypeOK, Moves
<1> QED
  BY <1>1, <1>2, <1>5

-----------------------------------------------------------------------------
(* Types *)

\* Nothing is registered, open or under way at the start, which is well typed.
THEOREM InitType == Init => TypeOK
<1>1. NoRequest \in RequestRecord /\ Closed \in SockRecord /\ NoStop \in StopRecord
  BY DEF NoRequest, RequestRecord, PCs, Closed, SockRecord, NoStop, StopRecord
<1> QED
  BY <1>1 DEF Init, TypeOK

\* A process that ends leaves nothing that is not typed,
LEMMA GoneType == ASSUME TypeOK, ProcessGone, server' \in {"up", "fatal"} PROVE TypeOK'
<1>1. NoRequest \in RequestRecord /\ Closed \in SockRecord /\ NoStop \in StopRecord
  BY DEF NoRequest, RequestRecord, PCs, Closed, SockRecord, NoStop, StopRecord
<1> QED
  BY <1>1 DEF TypeOK, ProcessGone

\* nor does the second unlock of the mutex.
LEMMA FatalType ==
  ASSUME TypeOK, NEW t \in Threads, NEW from \in PCs, Fatal(t, from) PROVE TypeOK'
  BY GoneType DEF Fatal, FatalError

\* A request that goes on or ends, and nothing else.
LEMMA MoveType ==
  ASSUME TypeOK, NEW t \in Threads, NEW to \in PCs, NEW from,
         Goto(t, from, to) \/ Finish(t, from),
         UNCHANGED <<sock, server, stop, overlapped>>,
         registry' \in [Sessions -> Socks \cup {NoSock}], mutex' \in BOOLEAN
  PROVE  TypeOK'
  BY GotoMoves, FinishMoves DEF TypeOK, Moves

\* The steps of StartPiWeb keep the types.
LEMMA StartStepType ==
  ASSUME TypeOK, RequestInv, NEW t \in Threads, StartStep(t) PROVE TypeOK'
<1> USE DEF PCs, StartPCs
<1>1. CASE StartLock(t)
  BY <1>1, MoveType DEF StartLock, TypeOK
<1>2. CASE FoundProxy(t)
  <2>1. registry[req[t].sess] \in Socks \cup {NoSock}
    BY <1>2 DEF FoundProxy, TypeOK, RequestInv
  <2>2. Moves(t, "health", req[t].sess, req[t].port, registry[req[t].sess], req[t].new)
    BY <1>2, <2>1, OldMoves DEF FoundProxy
  <2> QED
    BY <1>2, <2>2 DEF FoundProxy, Unlock, TypeOK, Moves
<1>3. CASE FoundProxyFatal(t) \/ StartUnlockFatal(t) \/ RegisterFatal(t)
  BY <1>3, FatalType DEF FoundProxyFatal, StartUnlockFatal, RegisterFatal
<1>4. CASE FoundNone(t)
  BY <1>4, MoveType DEF FoundNone, TypeOK
<1>5. CASE Healthy(t) \/ LaunchFails(t) \/ NotReady(t) \/ ListenFails(t) \/ NoPortFree(t)
  BY <1>5, MoveType DEF Healthy, LaunchFails, NotReady, ListenFails, NoPortFree, TypeOK
<1>6. CASE Unhealthy(t)
  BY <1>6, MoveType DEF Unhealthy, TypeOK
<1>7. CASE CloseOld(t)
  <2>1. Moves(t, "delete", req[t].sess, req[t].port, NoSock, req[t].new)
    BY <1>7, OldMoves DEF CloseOld
  <2> QED
    BY <1>7, <2>1 DEF CloseOld, Moves, TypeOK, SockRecord, Closed
<1>8. CASE DeleteOld(t)
  <2>1. Moves(t, "unlock", req[t].sess, req[t].port, req[t].old, req[t].new)
    BY <1>8, GotoMoves DEF DeleteOld
  <2>2. stop' \in StopRecord
    BY <1>8 DEF DeleteOld, TypeOK, StopRecord
  <2> QED
    BY <1>8, <2>1, <2>2 DEF DeleteOld, TypeOK, Moves
<1>9. CASE StartUnlock(t)
  <2>1. Moves(t, "findPort", req[t].sess, FirstPort, req[t].old, req[t].new)
    BY <1>9, FirstIsPort, PortMoves DEF StartUnlock
  <2> QED
    BY <1>9, <2>1 DEF StartUnlock, Unlock, TypeOK, Moves
<1>10. CASE TryPort(t) \/ CloseProbe(t)
  BY <1>10, MoveType DEF TryPort, CloseProbe, TypeOK
<1>11. CASE NextPort(t)
  <2>1. \E p \in Ports : Moves(t, "findPort", req[t].sess, p, req[t].old, req[t].new)
    BY <1>11, NextMoves
  <2> QED
    BY <1>11, <2>1 DEF NextPort, TypeOK, Moves
<1>12. CASE Launch(t)
  BY <1>12, MoveType DEF Launch, TypeOK
<1>13. CASE Ready(t)
  BY <1>13, MoveType DEF Ready, TypeOK
<1>14. CASE Listen(t)
  <2>1. PICK k \in Unused :
            /\ Moves(t, "lockAgain", req[t].sess, req[t].port, req[t].old, k)
            /\ sock' = [sock EXCEPT ![k] =
                            [port |-> req[t].port, sess |-> req[t].sess, serving |-> TRUE]]
    BY <1>14, ListenMoves
  <2>2. [port |-> req[t].port, sess |-> req[t].sess, serving |-> TRUE] \in SockRecord
    BY DEF TypeOK, RequestRecord, SockRecord
  <2>3. sock' \in [Socks -> SockRecord]
    BY <2>1, <2>2 DEF TypeOK
  <2>4. UNCHANGED <<registry, mutex, server, stop, overlapped>>
    BY <1>14 DEF Listen
  <2> QED
    BY <2>1, <2>3, <2>4 DEF TypeOK, Moves
<1>15. CASE RegisterLock(t)
  BY <1>15, MoveType DEF RegisterLock, TypeOK
<1>16. CASE Register(t)
  BY <1>16, MoveType DEF Register, Unlock, TypeOK, RequestRecord
<1> QED
  BY <1>1, <1>2, <1>3, <1>4, <1>5, <1>6, <1>7, <1>8, <1>9, <1>10, <1>11, <1>12, <1>13,
     <1>14, <1>15, <1>16 DEF StartStep

\* So do the steps of the shutdown.
LEMMA StopStepType ==
  ASSUME TypeOK, StopStep PROVE TypeOK'
<1>1. CASE StopLock
  BY <1>1 DEF StopLock, TypeOK, StopRecord
<1>2. ASSUME NEW s \in Sessions, StopClose(s) PROVE TypeOK'
  BY <1>2 DEF StopClose, TypeOK, StopRecord, SockRecord, Closed
<1>3. CASE StopDelete
  BY <1>3 DEF StopDelete, TypeOK, StopRecord
<1>4. CASE StopUnlock
  BY <1>4 DEF StopUnlock, Unlock, TypeOK, StopRecord
<1>5. CASE StopUnlockFatal
  BY <1>5, GoneType DEF StopUnlockFatal, FatalError
<1> QED
  BY <1>1, <1>2, <1>3, <1>4, <1>5 DEF StopStep

\* Every step keeps the types.
THEOREM NextType == TypeOK /\ RequestInv /\ [Next]_vars => TypeOK'
<1> SUFFICES ASSUME TypeOK, RequestInv, [Next]_vars PROVE TypeOK'
  OBVIOUS
<1> USE DEF PCs, StartPCs
<1>1. ASSUME NEW t \in Threads, NEW s \in Sessions, StartBegin(t, s) PROVE TypeOK'
  <2>1. Moves(t, "lock", s, req[t].port, req[t].old, req[t].new)
    BY <1>1, BeginMoves DEF StartBegin
  <2> QED
    BY <1>1, <2>1 DEF StartBegin, TypeOK, Moves
<1>2. ASSUME NEW t \in Threads, NEW s \in Sessions, StatusBegin(t, s) PROVE TypeOK'
  <2>1. Moves(t, "statusLock", s, req[t].port, req[t].old, req[t].new)
    BY <1>2, BeginMoves DEF StatusBegin
  <2> QED
    BY <1>2, <2>1 DEF StatusBegin, TypeOK, Moves
<1>3. ASSUME NEW t \in Threads, StartStep(t) PROVE TypeOK'
  BY <1>3, StartStepType
<1>4. ASSUME NEW t \in Threads, StatusStep(t) PROVE TypeOK'
  <2>1. CASE StatusLock(t)
    BY <2>1, MoveType DEF StatusLock, TypeOK
  <2>2. CASE StatusUnlock(t) \/ StatusFound(t) \/ StatusHealth(t)
    BY <2>2, MoveType DEF StatusUnlock, StatusFound, StatusHealth, Unlock, TypeOK
  <2>3. CASE StatusUnlockFatal(t)
    BY <2>3, FatalType DEF StatusUnlockFatal
  <2> QED
    BY <1>4, <2>1, <2>2, <2>3 DEF StatusStep
<1>5. CASE StopStep
  BY <1>5, StopStepType
<1>6. CASE StopBegin
  BY <1>6 DEF StopBegin, TypeOK, StopRecord
<1>7. ASSUME NEW k \in Socks, AcceptFails(k) PROVE TypeOK'
  BY <1>7 DEF AcceptFails, TypeOK, SockRecord
<1>8. CASE MapRaceFatal \/ Exit
  BY <1>8, GoneType DEF MapRaceFatal, FatalError, Exit
<1>9. CASE UNCHANGED vars
  BY <1>9 DEF vars, TypeOK
<1> QED
  BY <1>1, <1>2, <1>3, <1>4, <1>5, <1>6, <1>7, <1>8, <1>9 DEF Next

-----------------------------------------------------------------------------
(* The invariant *)

\* The invariant holds at the start.
THEOREM InitIInv == Init => IInv
<1> SUFFICES ASSUME Init PROVE IInv
  OBVIOUS
<1>1. TypeOK
  BY InitType
<1>2. /\ registry = [s \in Sessions |-> NoSock]
      /\ \A k \in Socks : sock[k].port = NoPort
      /\ \A t \in Threads : pc(t) = "idle" /\ req[t].old = NoSock /\ req[t].new = NoSock
      /\ stop.pc = "off"
  BY DEF Init, Closed, NoRequest, NoStop, pc
<1> QED
  BY <1>1, <1>2 DEF IInv, RequestInv, OneSession, NewInv, OldInv, OverlapNoticed,
     OverwriteNeedsOverlap, RegisteredIsOpen, OwnSession, LeakNeedsOverlap,
     Open, Early, OldPCs, Late, NewPCs, PortPCs, StartPCs, ShutDown

\* A request goes on without touching a listener or the registry.
LEMMA GoOn ==
  ASSUME IInv, TypeOK', NEW t \in Threads, NEW to, NEW p,
         Moves(t, to, req[t].sess, p, req[t].old, req[t].new),
         UNCHANGED <<registry, sock, stop, overlapped>>,
         to \in PortPCs => p # NoPort,
         \/ pc(t) \in Early /\ to \in Early
         \/ pc(t) \in Early /\ to \in Late /\ registry[req[t].sess] = NoSock
         \/ pc(t) \in OldPCs /\ to \in OldPCs
         \/ pc(t) \in Late /\ to \in Late
         \/ pc(t) \in NewPCs /\ to \in NewPCs
         \/ {pc(t), to} \subseteq StatusPCs
  PROVE  IInv'
<1> USE DEF StatusPCs
<1>p1. RequestInv'
  BY DEF IInv, Moves, pc, Open, ShutDown, Early, Late, OldPCs, NewPCs, PortPCs, StartPCs, RequestInv
<1>p2. OneSession'
  BY DEF IInv, Moves, pc, Open, ShutDown, Early, Late, OldPCs, NewPCs, PortPCs, StartPCs, OneSession
<1>p3. NewInv'
  BY DEF IInv, Moves, pc, Open, ShutDown, Early, Late, OldPCs, NewPCs, PortPCs, StartPCs, NewInv, RequestInv
<1>p4. OldInv'
  BY DEF IInv, Moves, pc, Open, ShutDown, Early, Late, OldPCs, NewPCs, PortPCs, StartPCs, OldInv, RequestInv, NewInv
<1>p5. OverlapNoticed'
  BY DEF IInv, Moves, pc, Open, ShutDown, Early, Late, OldPCs, NewPCs, PortPCs, StartPCs, OverlapNoticed, RequestInv
<1>p6. OverwriteNeedsOverlap'
  BY DEF IInv, Moves, pc, Open, ShutDown, Early, Late, OldPCs, NewPCs, PortPCs, StartPCs, OverwriteNeedsOverlap, RequestInv, OverlapNoticed
<1>p7. RegisteredIsOpen'
  BY DEF IInv, Moves, pc, Open, ShutDown, Early, Late, OldPCs, NewPCs, PortPCs, StartPCs, RegisteredIsOpen
<1>p8. OwnSession'
  BY DEF IInv, Moves, pc, Open, ShutDown, Early, Late, OldPCs, NewPCs, PortPCs, StartPCs, OwnSession
<1>p9. LeakNeedsOverlap'
  BY DEF IInv, Moves, pc, Open, ShutDown, Early, Late, OldPCs, NewPCs, PortPCs, StartPCs, LeakNeedsOverlap, Referenced, RequestInv, OldInv, OverwriteNeedsOverlap
<1> QED
  BY <1>p1, <1>p2, <1>p3, <1>p4, <1>p5, <1>p6, <1>p7, <1>p8, <1>p9 DEF IInv

\* A request ends that has no new listener: what it had found stays registered,
\* or was taken off the registry by another one.
LEMMA EndStep ==
  ASSUME IInv, TypeOK', NEW t \in Threads, Moves(t, "idle", NoSession, NoPort, NoSock, NoSock),
         pc(t) \notin NewPCs \cup {"delete"}, UNCHANGED <<registry, sock, stop, overlapped>>
  PROVE  IInv'
<1>p1. RequestInv'
  BY DEF IInv, Moves, pc, Open, ShutDown, Early, Late, OldPCs, NewPCs, PortPCs, StartPCs, RequestInv
<1>p2. OneSession'
  BY DEF IInv, Moves, pc, Open, ShutDown, Early, Late, OldPCs, NewPCs, PortPCs, StartPCs, OneSession, NewInv, RequestInv
<1>p3. NewInv'
  BY DEF IInv, Moves, pc, Open, ShutDown, Early, Late, OldPCs, NewPCs, PortPCs, StartPCs, NewInv, RequestInv
<1>p4. OldInv'
  BY DEF IInv, Moves, pc, Open, ShutDown, Early, Late, OldPCs, NewPCs, PortPCs, StartPCs, OldInv, RequestInv, NewInv, OwnSession, OneSession
<1>p5. OverlapNoticed'
  BY DEF IInv, Moves, pc, Open, ShutDown, Early, Late, OldPCs, NewPCs, PortPCs, StartPCs, OverlapNoticed, RequestInv
<1>p6. OverwriteNeedsOverlap'
  BY DEF IInv, Moves, pc, Open, ShutDown, Early, Late, OldPCs, NewPCs, PortPCs, StartPCs, OverwriteNeedsOverlap, RequestInv, OverlapNoticed, NewInv
<1>p7. RegisteredIsOpen'
  BY DEF IInv, Moves, pc, Open, ShutDown, Early, Late, OldPCs, NewPCs, PortPCs, StartPCs, RegisteredIsOpen, RequestInv, OldInv, NewInv
<1>p8. OwnSession'
  BY DEF IInv, Moves, pc, Open, ShutDown, Early, Late, OldPCs, NewPCs, PortPCs, StartPCs, OwnSession, NewInv, RequestInv
<1>p9. LeakNeedsOverlap'
  BY DEF IInv, Moves, pc, Open, ShutDown, Early, Late, OldPCs, NewPCs, PortPCs, StartPCs, LeakNeedsOverlap, Referenced, RequestInv, OldInv, NewInv, OverwriteNeedsOverlap, OwnSession
<1> QED
  BY <1>p1, <1>p2, <1>p3, <1>p4, <1>p5, <1>p6, <1>p7, <1>p8, <1>p9 DEF IInv

\* A start begins, and is noticed if there is another one of its session.
LEMMA StartBeginStep ==
  ASSUME IInv, TypeOK', NEW t \in Threads, NEW s \in Sessions, StartBegin(t, s)
  PROVE  IInv'
<1>1. /\ Moves(t, "lock", s, req[t].port, req[t].old, req[t].new) /\ pc(t) = "idle"
      /\ UNCHANGED <<registry, sock, stop>>
  BY BeginMoves DEF StartBegin, IInv, PCs, StartPCs
<1>2. /\ overlapped \subseteq overlapped'
      /\ \A u \in Threads : pc(u) \in StartPCs /\ req[u].sess = s => s \in overlapped'
  BY DEF StartBegin
<1>p1. RequestInv'
  BY <1>1, <1>2 DEF IInv, Moves, pc, Open, ShutDown, Early, Late, OldPCs, NewPCs, PortPCs, StartPCs, RequestInv
<1>p2. OneSession'
  BY <1>1, <1>2 DEF IInv, Moves, pc, Open, ShutDown, Early, Late, OldPCs, NewPCs, PortPCs, StartPCs, OneSession, NewInv, RequestInv
<1>p3. NewInv'
  BY <1>1, <1>2 DEF IInv, Moves, pc, Open, ShutDown, Early, Late, OldPCs, NewPCs, PortPCs, StartPCs, NewInv, RequestInv
<1>p4. OldInv'
  BY <1>1, <1>2 DEF IInv, Moves, pc, Open, ShutDown, Early, Late, OldPCs, NewPCs, PortPCs, StartPCs, OldInv, RequestInv, NewInv, OwnSession, OneSession
<1>p5. OverlapNoticed'
  BY <1>1, <1>2 DEF IInv, Moves, pc, Open, ShutDown, Early, Late, OldPCs, NewPCs, PortPCs, StartPCs, OverlapNoticed, RequestInv
<1>p6. OverwriteNeedsOverlap'
  BY <1>1, <1>2 DEF IInv, Moves, pc, Open, ShutDown, Early, Late, OldPCs, NewPCs, PortPCs, StartPCs, OverwriteNeedsOverlap, RequestInv, OverlapNoticed, NewInv
<1>p7. RegisteredIsOpen'
  BY <1>1, <1>2 DEF IInv, Moves, pc, Open, ShutDown, Early, Late, OldPCs, NewPCs, PortPCs, StartPCs, RegisteredIsOpen, RequestInv, OldInv, NewInv
<1>p8. OwnSession'
  BY <1>1, <1>2 DEF IInv, Moves, pc, Open, ShutDown, Early, Late, OldPCs, NewPCs, PortPCs, StartPCs, OwnSession, NewInv, RequestInv
<1>p9. LeakNeedsOverlap'
  BY <1>1, <1>2 DEF IInv, Moves, pc, Open, ShutDown, Early, Late, OldPCs, NewPCs, PortPCs, StartPCs, LeakNeedsOverlap, Referenced, RequestInv, OldInv, NewInv, OverwriteNeedsOverlap, OwnSession
<1> QED
  BY <1>p1, <1>p2, <1>p3, <1>p4, <1>p5, <1>p6, <1>p7, <1>p8, <1>p9 DEF IInv

\* A status request begins.
LEMMA StatusBeginStep ==
  ASSUME IInv, TypeOK', NEW t \in Threads, NEW s \in Sessions, StatusBegin(t, s)
  PROVE  IInv'
<1>1. /\ Moves(t, "statusLock", s, req[t].port, req[t].old, req[t].new) /\ pc(t) = "idle"
      /\ UNCHANGED <<registry, sock, stop, overlapped>>
  BY BeginMoves DEF StatusBegin, IInv, PCs
<1>p1. RequestInv'
  BY <1>1 DEF IInv, Moves, pc, Open, ShutDown, Early, Late, OldPCs, NewPCs, PortPCs, StartPCs, RequestInv
<1>p2. OneSession'
  BY <1>1 DEF IInv, Moves, pc, Open, ShutDown, Early, Late, OldPCs, NewPCs, PortPCs, StartPCs, OneSession, NewInv, RequestInv
<1>p3. NewInv'
  BY <1>1 DEF IInv, Moves, pc, Open, ShutDown, Early, Late, OldPCs, NewPCs, PortPCs, StartPCs, NewInv, RequestInv
<1>p4. OldInv'
  BY <1>1 DEF IInv, Moves, pc, Open, ShutDown, Early, Late, OldPCs, NewPCs, PortPCs, StartPCs, OldInv, RequestInv, NewInv, OwnSession, OneSession
<1>p5. OverlapNoticed'
  BY <1>1 DEF IInv, Moves, pc, Open, ShutDown, Early, Late, OldPCs, NewPCs, PortPCs, StartPCs, OverlapNoticed, RequestInv
<1>p6. OverwriteNeedsOverlap'
  BY <1>1 DEF IInv, Moves, pc, Open, ShutDown, Early, Late, OldPCs, NewPCs, PortPCs, StartPCs, OverwriteNeedsOverlap, RequestInv, OverlapNoticed, NewInv
<1>p7. RegisteredIsOpen'
  BY <1>1 DEF IInv, Moves, pc, Open, ShutDown, Early, Late, OldPCs, NewPCs, PortPCs, StartPCs, RegisteredIsOpen, RequestInv, OldInv, NewInv
<1>p8. OwnSession'
  BY <1>1 DEF IInv, Moves, pc, Open, ShutDown, Early, Late, OldPCs, NewPCs, PortPCs, StartPCs, OwnSession, NewInv, RequestInv
<1>p9. LeakNeedsOverlap'
  BY <1>1 DEF IInv, Moves, pc, Open, ShutDown, Early, Late, OldPCs, NewPCs, PortPCs, StartPCs, LeakNeedsOverlap, Referenced, RequestInv, OldInv, NewInv, OverwriteNeedsOverlap, OwnSession
<1> QED
  BY <1>p1, <1>p2, <1>p3, <1>p4, <1>p5, <1>p6, <1>p7, <1>p8, <1>p9 DEF IInv

\* A start finds a proxy of its session.
LEMMA FoundProxyStep ==
  ASSUME IInv, TypeOK', NEW t \in Threads, FoundProxy(t)
  PROVE  IInv'
<1> DEFINE old == registry[req[t].sess]
<1>1. /\ pc(t) = "locked" /\ req[t].sess \in Sessions
      /\ old # NoSock /\ old \in Socks /\ UNCHANGED <<registry, sock, stop, overlapped>>
  BY DEF FoundProxy, IInv, TypeOK, RequestInv
<1>2. Moves(t, "health", req[t].sess, req[t].port, old, req[t].new)
  BY <1>1, OldMoves DEF FoundProxy, IInv, PCs, StartPCs
<1>p1. RequestInv'
  BY <1>1, <1>2 DEF IInv, Moves, pc, Open, ShutDown, Early, Late, OldPCs, NewPCs, PortPCs, StartPCs, RequestInv
<1>p2. OneSession'
  BY <1>1, <1>2 DEF IInv, Moves, pc, Open, ShutDown, Early, Late, OldPCs, NewPCs, PortPCs, StartPCs, OneSession, NewInv, RequestInv
<1>p3. NewInv'
  BY <1>1, <1>2 DEF IInv, Moves, pc, Open, ShutDown, Early, Late, OldPCs, NewPCs, PortPCs, StartPCs, NewInv, RequestInv
<1>p4. OldInv'
  BY <1>1, <1>2 DEF IInv, Moves, pc, Open, ShutDown, Early, Late, OldPCs, NewPCs, PortPCs, StartPCs, OldInv, RequestInv, NewInv, OwnSession, OneSession
<1>p5. OverlapNoticed'
  BY <1>1, <1>2 DEF IInv, Moves, pc, Open, ShutDown, Early, Late, OldPCs, NewPCs, PortPCs, StartPCs, OverlapNoticed, RequestInv
<1>p6. OverwriteNeedsOverlap'
  <2>1. ASSUME NEW u \in Threads \ {t}
        PROVE  req'[u] = req[u]
    BY <1>2 DEF Moves
  <2>2. req'[t].pc = "health" /\ req'[t].sess = req[t].sess /\ req'[t].old = registry[req[t].sess]
    BY <1>2 DEF Moves
  <2> QED
    BY <1>1, <2>1, <2>2 DEF IInv, pc, Open, ShutDown, Late, OldPCs, NewPCs, OverwriteNeedsOverlap
<1>p7. RegisteredIsOpen'
  BY <1>1, <1>2 DEF IInv, Moves, pc, Open, ShutDown, Early, Late, OldPCs, NewPCs, PortPCs, StartPCs, RegisteredIsOpen, RequestInv, OldInv, NewInv
<1>p8. OwnSession'
  BY <1>1, <1>2 DEF IInv, Moves, pc, Open, ShutDown, Early, Late, OldPCs, NewPCs, PortPCs, StartPCs, OwnSession, NewInv, RequestInv
<1>p9. LeakNeedsOverlap'
  BY <1>1, <1>2 DEF IInv, Moves, pc, Open, ShutDown, Early, Late, OldPCs, NewPCs, PortPCs, StartPCs, LeakNeedsOverlap, Referenced, RequestInv, OldInv, NewInv, OverwriteNeedsOverlap, OwnSession
<1> QED
  BY <1>p1, <1>p2, <1>p3, <1>p4, <1>p5, <1>p6, <1>p7, <1>p8, <1>p9 DEF IInv

\* The listener of a dead pi-web is closed: nobody has it as a new one.
LEMMA CloseOldStep ==
  ASSUME IInv, TypeOK', NEW t \in Threads, CloseOld(t)
  PROVE  IInv'
<1>1. /\ pc(t) = "close" /\ req[t].sess \in Sessions
      /\ sock' = [sock EXCEPT ![req[t].old] = Closed]
      /\ UNCHANGED <<registry, stop, overlapped>>
  BY DEF CloseOld, IInv, RequestInv
<1>2. Moves(t, "delete", req[t].sess, req[t].port, NoSock, req[t].new)
  BY OldMoves DEF CloseOld, IInv, PCs, StartPCs
<1>3. \A k \in Socks : sock'[k] = IF k = req[t].old THEN Closed ELSE sock[k]
  BY <1>1 DEF IInv, TypeOK
<1>4. \A u \in Threads : /\ req[u].old \in Socks \cup {NoSock}
                         /\ req[u].new \in Socks \cup {NoSock}
  BY DEF IInv, TypeOK, RequestRecord
<1>5. \A s \in Sessions : registry[s] \in Socks \cup {NoSock}
  BY DEF IInv, TypeOK
<1>p1. RequestInv'
  BY <1>1, <1>2, <1>3, <1>4, <1>5 DEF IInv, Moves, pc, Open, ShutDown, Early, Late, OldPCs, NewPCs, PortPCs, StartPCs, Closed, RequestInv
<1>p2. OneSession'
  BY <1>1, <1>2, <1>3, <1>4, <1>5 DEF IInv, Moves, pc, Open, ShutDown, Early, Late, OldPCs, NewPCs, PortPCs, StartPCs, Closed, OneSession, NewInv, RequestInv
<1>p3. NewInv'
  BY <1>1, <1>2, <1>3, <1>4, <1>5 DEF IInv, Moves, pc, Open, ShutDown, Early, Late, OldPCs, NewPCs, PortPCs, StartPCs, Closed, NewInv, RequestInv
<1>p4. OldInv'
  BY <1>1, <1>2, <1>3, <1>4, <1>5 DEF IInv, Moves, pc, Open, ShutDown, Early, Late, OldPCs, NewPCs, PortPCs, StartPCs, Closed, OldInv, RequestInv, NewInv, OwnSession, OneSession
<1>p5. OverlapNoticed'
  BY <1>1, <1>2, <1>3, <1>4, <1>5 DEF IInv, Moves, pc, Open, ShutDown, Early, Late, OldPCs, NewPCs, PortPCs, StartPCs, Closed, OverlapNoticed, RequestInv
<1>p6. OverwriteNeedsOverlap'
  BY <1>1, <1>2, <1>3, <1>4, <1>5 DEF IInv, Moves, pc, Open, ShutDown, Early, Late, OldPCs, NewPCs, PortPCs, StartPCs, Closed, OverwriteNeedsOverlap, RequestInv, OverlapNoticed, NewInv
<1>p7. RegisteredIsOpen'
  BY <1>1, <1>2, <1>3, <1>4, <1>5 DEF IInv, Moves, pc, Open, ShutDown, Early, Late, OldPCs, NewPCs, PortPCs, StartPCs, Closed, RegisteredIsOpen, RequestInv, OldInv, NewInv
<1>p8. OwnSession'
  BY <1>1, <1>2, <1>3, <1>4, <1>5 DEF IInv, Moves, pc, Open, ShutDown, Early, Late, OldPCs, NewPCs, PortPCs, StartPCs, Closed, OwnSession, NewInv, RequestInv
<1>p9. LeakNeedsOverlap'
  BY <1>1, <1>2, <1>3, <1>4, <1>5 DEF IInv, Moves, pc, Open, ShutDown, Early, Late, OldPCs, NewPCs, PortPCs, StartPCs, Closed, LeakNeedsOverlap, Referenced, RequestInv, OldInv, NewInv, OverwriteNeedsOverlap, OwnSession
<1> QED
  BY <1>p1, <1>p2, <1>p3, <1>p4, <1>p5, <1>p6, <1>p7, <1>p8, <1>p9 DEF IInv

\* Its entry is deleted, or one that an overlapping start has made.
LEMMA DeleteOldStep ==
  ASSUME IInv, TypeOK', NEW t \in Threads, DeleteOld(t)
  PROVE  IInv'
<1>1. /\ pc(t) = "delete" /\ req[t].sess \in Sessions /\ UNCHANGED <<sock, overlapped>>
      /\ \A s \in Sessions : registry'[s] = IF s = req[t].sess THEN NoSock ELSE registry[s]
      /\ stop'.pc = stop.pc /\ stop'.sess = stop.sess
  BY DEF DeleteOld, Goto, IInv, RequestInv, TypeOK, StopRecord
<1>2. Moves(t, "unlock", req[t].sess, req[t].port, req[t].old, req[t].new)
  BY GotoMoves DEF DeleteOld, IInv, PCs, StartPCs
<1>p1. RequestInv'
  BY <1>1, <1>2 DEF IInv, Moves, pc, Open, ShutDown, Early, Late, OldPCs, NewPCs, PortPCs, StartPCs, RequestInv
<1>p2. OneSession'
  BY <1>1, <1>2 DEF IInv, Moves, pc, Open, ShutDown, Early, Late, OldPCs, NewPCs, PortPCs, StartPCs, OneSession, NewInv, RequestInv
<1>p3. NewInv'
  BY <1>1, <1>2 DEF IInv, Moves, pc, Open, ShutDown, Early, Late, OldPCs, NewPCs, PortPCs, StartPCs, NewInv, RequestInv
<1>p4. OldInv'
  BY <1>1, <1>2 DEF IInv, Moves, pc, Open, ShutDown, Early, Late, OldPCs, NewPCs, PortPCs, StartPCs, OldInv, RequestInv, NewInv, OwnSession, OneSession
<1>p5. OverlapNoticed'
  BY <1>1, <1>2 DEF IInv, Moves, pc, Open, ShutDown, Early, Late, OldPCs, NewPCs, PortPCs, StartPCs, OverlapNoticed, RequestInv
<1>p6. OverwriteNeedsOverlap'
  BY <1>1, <1>2 DEF IInv, Moves, pc, Open, ShutDown, Early, Late, OldPCs, NewPCs, PortPCs, StartPCs, OverwriteNeedsOverlap, RequestInv, OverlapNoticed, NewInv
<1>p7. RegisteredIsOpen'
  BY <1>1, <1>2 DEF IInv, Moves, pc, Open, ShutDown, Early, Late, OldPCs, NewPCs, PortPCs, StartPCs, RegisteredIsOpen, RequestInv, OldInv, NewInv
<1>p8. OwnSession'
  BY <1>1, <1>2 DEF IInv, Moves, pc, Open, ShutDown, Early, Late, OldPCs, NewPCs, PortPCs, StartPCs, OwnSession, NewInv, RequestInv
<1>p9. LeakNeedsOverlap'
  BY <1>1, <1>2 DEF IInv, Moves, pc, Open, ShutDown, Early, Late, OldPCs, NewPCs, PortPCs, StartPCs, LeakNeedsOverlap, Referenced, RequestInv, OldInv, NewInv, OverwriteNeedsOverlap, OwnSession
<1> QED
  BY <1>p1, <1>p2, <1>p3, <1>p4, <1>p5, <1>p6, <1>p7, <1>p8, <1>p9 DEF IInv

\* A listener is opened that nobody refers to.
LEMMA ListenStep ==
  ASSUME IInv, TypeOK', NEW t \in Threads, Listen(t)
  PROVE  IInv'
<1>1. PICK k \in Unused :
          /\ Moves(t, "lockAgain", req[t].sess, req[t].port, req[t].old, k)
          /\ sock' = [sock EXCEPT ![k] =
                          [port |-> req[t].port, sess |-> req[t].sess, serving |-> TRUE]]
  BY ListenMoves DEF IInv
<1>2. /\ k \in Socks /\ ~Open(k) /\ ~Referenced(k) /\ k # NoSock
  BY DEF Unused
<1>3. /\ pc(t) = "listen" /\ req[t].sess \in Sessions /\ req[t].port # NoPort
      /\ UNCHANGED <<registry, stop, overlapped>>
  BY DEF Listen, IInv, RequestInv, PortPCs
<1>4. /\ sock'[k].port # NoPort /\ sock'[k].sess = req[t].sess
      /\ \A l \in Socks \ {k} : sock'[l] = sock[l]
  BY <1>1, <1>2, <1>3 DEF IInv, TypeOK
<1>5. \A u \in Threads : /\ req[u].old \in Socks \cup {NoSock}
                         /\ req[u].new \in Socks \cup {NoSock}
                         /\ k \notin {req[u].old, req[u].new}
  BY <1>2 DEF IInv, TypeOK, RequestRecord, Referenced
<1>6. \A s \in Sessions : registry[s] \in Socks \cup {NoSock} /\ registry[s] # k
  BY <1>2 DEF IInv, TypeOK, Referenced
<1>p1. RequestInv'
  BY <1>1, <1>2, <1>3, <1>4, <1>5, <1>6 DEF IInv, Moves, pc, Open, ShutDown, Early, Late, OldPCs, NewPCs, PortPCs, StartPCs, RequestInv
<1>p2. OneSession'
  BY <1>1, <1>2, <1>3, <1>4, <1>5, <1>6 DEF IInv, Moves, pc, Open, ShutDown, Early, Late, OldPCs, NewPCs, PortPCs, StartPCs, OneSession, NewInv, RequestInv
<1>p3. NewInv'
  BY <1>1, <1>2, <1>3, <1>4, <1>5, <1>6 DEF IInv, Moves, pc, Open, ShutDown, Early, Late, OldPCs, NewPCs, PortPCs, StartPCs, NewInv, RequestInv
<1>p4. OldInv'
  BY <1>1, <1>2, <1>3, <1>4, <1>5, <1>6 DEF IInv, Moves, pc, Open, ShutDown, Early, Late, OldPCs, NewPCs, PortPCs, StartPCs, OldInv, RequestInv, NewInv, OwnSession, OneSession
<1>p5. OverlapNoticed'
  BY <1>1, <1>2, <1>3, <1>4, <1>5, <1>6 DEF IInv, Moves, pc, Open, ShutDown, Early, Late, OldPCs, NewPCs, PortPCs, StartPCs, OverlapNoticed, RequestInv
<1>p6. OverwriteNeedsOverlap'
  BY <1>1, <1>2, <1>3, <1>4, <1>5, <1>6 DEF IInv, Moves, pc, Open, ShutDown, Early, Late, OldPCs, NewPCs, PortPCs, StartPCs, OverwriteNeedsOverlap, RequestInv, OverlapNoticed, NewInv
<1>p7. RegisteredIsOpen'
  BY <1>1, <1>2, <1>3, <1>4, <1>5, <1>6 DEF IInv, Moves, pc, Open, ShutDown, Early, Late, OldPCs, NewPCs, PortPCs, StartPCs, RegisteredIsOpen, RequestInv, OldInv, NewInv
<1>p8. OwnSession'
  BY <1>1, <1>2, <1>3, <1>4, <1>5, <1>6 DEF IInv, Moves, pc, Open, ShutDown, Early, Late, OldPCs, NewPCs, PortPCs, StartPCs, OwnSession, NewInv, RequestInv
<1>p9. LeakNeedsOverlap'
  BY <1>1, <1>2, <1>3, <1>4, <1>5, <1>6 DEF IInv, Moves, pc, Open, ShutDown, Early, Late, OldPCs, NewPCs, PortPCs, StartPCs, LeakNeedsOverlap, Referenced, RequestInv, OldInv, NewInv, OverwriteNeedsOverlap, OwnSession
<1> QED
  BY <1>p1, <1>p2, <1>p3, <1>p4, <1>p5, <1>p6, <1>p7, <1>p8, <1>p9 DEF IInv

\* A new listener is registered, over whatever an overlapping start has left.
LEMMA RegisterStep ==
  ASSUME IInv, TypeOK', NEW t \in Threads, Register(t)
  PROVE  IInv'
<1>1. /\ pc(t) = "registering" /\ req[t].sess \in Sessions /\ UNCHANGED <<sock, stop, overlapped>>
      /\ \A s \in Sessions : registry'[s] = IF s = req[t].sess THEN req[t].new ELSE registry[s]
  BY DEF Register, Finish, IInv, RequestInv, TypeOK
<1>2. Moves(t, "idle", NoSession, NoPort, NoSock, NoSock)
  BY FinishMoves DEF Register, IInv
<1>p1. RequestInv'
  BY <1>1, <1>2 DEF IInv, Moves, pc, Open, ShutDown, Early, Late, OldPCs, NewPCs, PortPCs, StartPCs, RequestInv
<1>p2. OneSession'
  BY <1>1, <1>2 DEF IInv, Moves, pc, Open, ShutDown, Early, Late, OldPCs, NewPCs, PortPCs, StartPCs, OneSession, NewInv, RequestInv
<1>p3. NewInv'
  BY <1>1, <1>2 DEF IInv, Moves, pc, Open, ShutDown, Early, Late, OldPCs, NewPCs, PortPCs, StartPCs, NewInv, RequestInv
<1>p4. OldInv'
  BY <1>1, <1>2 DEF IInv, Moves, pc, Open, ShutDown, Early, Late, OldPCs, NewPCs, PortPCs, StartPCs, OldInv, RequestInv, NewInv, OwnSession, OneSession
<1>p5. OverlapNoticed'
  BY <1>1, <1>2 DEF IInv, Moves, pc, Open, ShutDown, Early, Late, OldPCs, NewPCs, PortPCs, StartPCs, OverlapNoticed, RequestInv
<1>p6. OverwriteNeedsOverlap'
  BY <1>1, <1>2 DEF IInv, Moves, pc, Open, ShutDown, Early, Late, OldPCs, NewPCs, PortPCs, StartPCs, OverwriteNeedsOverlap, RequestInv, OverlapNoticed, NewInv
<1>p7. RegisteredIsOpen'
  BY <1>1, <1>2 DEF IInv, Moves, pc, Open, ShutDown, Early, Late, OldPCs, NewPCs, PortPCs, StartPCs, RegisteredIsOpen, RequestInv, OldInv, NewInv
<1>p8. OwnSession'
  BY <1>1, <1>2 DEF IInv, Moves, pc, Open, ShutDown, Early, Late, OldPCs, NewPCs, PortPCs, StartPCs, OwnSession, NewInv, RequestInv
<1>p9. LeakNeedsOverlap'
  BY <1>1, <1>2 DEF IInv, Moves, pc, Open, ShutDown, Early, Late, OldPCs, NewPCs, PortPCs, StartPCs, LeakNeedsOverlap, Referenced, RequestInv, OldInv, NewInv, OverwriteNeedsOverlap, OwnSession
<1> QED
  BY <1>p1, <1>p2, <1>p3, <1>p4, <1>p5, <1>p6, <1>p7, <1>p8, <1>p9 DEF IInv

\* The shutdown closes a registered listener: nobody has it as a new one.
LEMMA StopCloseStep ==
  ASSUME IInv, TypeOK', NEW x \in Sessions, StopClose(x)
  PROVE  IInv'
<1>1. /\ stop.pc = "loop" /\ stop'.pc = "delete" /\ stop'.sess = x
      /\ registry[x] # NoSock /\ UNCHANGED <<registry, req, overlapped>>
  BY DEF StopClose
<1>2. \A k \in Socks : sock'[k] = IF k = registry[x] THEN Closed ELSE sock[k]
  BY DEF StopClose, IInv, TypeOK
<1>3. \A u \in Threads : /\ req[u].old \in Socks \cup {NoSock}
                         /\ req[u].new \in Socks \cup {NoSock}
  BY DEF IInv, TypeOK, RequestRecord
<1>4. \A s \in Sessions : registry[s] \in Socks \cup {NoSock}
  BY DEF IInv, TypeOK
<1>p1. RequestInv'
  BY <1>1, <1>2, <1>3, <1>4 DEF IInv, Moves, pc, Open, ShutDown, Early, Late, OldPCs, NewPCs, PortPCs, StartPCs, Closed, RequestInv
<1>p2. OneSession'
  BY <1>1, <1>2, <1>3, <1>4 DEF IInv, Moves, pc, Open, ShutDown, Early, Late, OldPCs, NewPCs, PortPCs, StartPCs, Closed, OneSession, NewInv, RequestInv
<1>p3. NewInv'
  BY <1>1, <1>2, <1>3, <1>4 DEF IInv, Moves, pc, Open, ShutDown, Early, Late, OldPCs, NewPCs, PortPCs, StartPCs, Closed, NewInv, RequestInv
<1>p4. OldInv'
  BY <1>1, <1>2, <1>3, <1>4 DEF IInv, Moves, pc, Open, ShutDown, Early, Late, OldPCs, NewPCs, PortPCs, StartPCs, Closed, OldInv, RequestInv, NewInv, OwnSession, OneSession
<1>p5. OverlapNoticed'
  BY <1>1, <1>2, <1>3, <1>4 DEF IInv, Moves, pc, Open, ShutDown, Early, Late, OldPCs, NewPCs, PortPCs, StartPCs, Closed, OverlapNoticed, RequestInv
<1>p6. OverwriteNeedsOverlap'
  BY <1>1, <1>2, <1>3, <1>4 DEF IInv, Moves, pc, Open, ShutDown, Early, Late, OldPCs, NewPCs, PortPCs, StartPCs, Closed, OverwriteNeedsOverlap, RequestInv, OverlapNoticed, NewInv
<1>p7. RegisteredIsOpen'
  BY <1>1, <1>2, <1>3, <1>4 DEF IInv, Moves, pc, Open, ShutDown, Early, Late, OldPCs, NewPCs, PortPCs, StartPCs, Closed, RegisteredIsOpen, RequestInv, OldInv, NewInv, OneSession
<1>p8. OwnSession'
  BY <1>1, <1>2, <1>3, <1>4 DEF IInv, Moves, pc, Open, ShutDown, Early, Late, OldPCs, NewPCs, PortPCs, StartPCs, Closed, OwnSession, NewInv, RequestInv
<1>p9. LeakNeedsOverlap'
  BY <1>1, <1>2, <1>3, <1>4 DEF IInv, Moves, pc, Open, ShutDown, Early, Late, OldPCs, NewPCs, PortPCs, StartPCs, Closed, LeakNeedsOverlap, Referenced, RequestInv, OldInv, NewInv, OverwriteNeedsOverlap, OwnSession
<1> QED
  BY <1>p1, <1>p2, <1>p3, <1>p4, <1>p5, <1>p6, <1>p7, <1>p8, <1>p9 DEF IInv

\* The shutdown deletes what the key has by then.
LEMMA StopDeleteStep ==
  ASSUME IInv, TypeOK', StopDelete
  PROVE  IInv'
<1>1. /\ stop.pc = "delete" /\ stop'.pc = "loop" /\ UNCHANGED <<sock, req, overlapped>>
      /\ \A s \in Sessions : registry'[s] = IF s = stop.sess THEN NoSock ELSE registry[s]
  BY DEF StopDelete, IInv, TypeOK, StopRecord
<1>p1. RequestInv'
  BY <1>1 DEF IInv, Moves, pc, Open, ShutDown, Early, Late, OldPCs, NewPCs, PortPCs, StartPCs, Closed, RequestInv
<1>p2. OneSession'
  BY <1>1 DEF IInv, Moves, pc, Open, ShutDown, Early, Late, OldPCs, NewPCs, PortPCs, StartPCs, Closed, OneSession, NewInv, RequestInv
<1>p3. NewInv'
  BY <1>1 DEF IInv, Moves, pc, Open, ShutDown, Early, Late, OldPCs, NewPCs, PortPCs, StartPCs, Closed, NewInv, RequestInv
<1>p4. OldInv'
  BY <1>1 DEF IInv, Moves, pc, Open, ShutDown, Early, Late, OldPCs, NewPCs, PortPCs, StartPCs, Closed, OldInv, RequestInv, NewInv, OwnSession, OneSession
<1>p5. OverlapNoticed'
  BY <1>1 DEF IInv, Moves, pc, Open, ShutDown, Early, Late, OldPCs, NewPCs, PortPCs, StartPCs, Closed, OverlapNoticed, RequestInv
<1>p6. OverwriteNeedsOverlap'
  BY <1>1 DEF IInv, Moves, pc, Open, ShutDown, Early, Late, OldPCs, NewPCs, PortPCs, StartPCs, Closed, OverwriteNeedsOverlap, RequestInv, OverlapNoticed, NewInv
<1>p7. RegisteredIsOpen'
  BY <1>1 DEF IInv, Moves, pc, Open, ShutDown, Early, Late, OldPCs, NewPCs, PortPCs, StartPCs, Closed, RegisteredIsOpen, RequestInv, OldInv, NewInv
<1>p8. OwnSession'
  BY <1>1 DEF IInv, Moves, pc, Open, ShutDown, Early, Late, OldPCs, NewPCs, PortPCs, StartPCs, Closed, OwnSession, NewInv, RequestInv
<1>p9. LeakNeedsOverlap'
  BY <1>1 DEF IInv, Moves, pc, Open, ShutDown, Early, Late, OldPCs, NewPCs, PortPCs, StartPCs, Closed, LeakNeedsOverlap, Referenced, RequestInv, OldInv, NewInv, OverwriteNeedsOverlap, OwnSession
<1> QED
  BY <1>p1, <1>p2, <1>p3, <1>p4, <1>p5, <1>p6, <1>p7, <1>p8, <1>p9 DEF IInv

\* An accept loop ends, and its listener stays open.
LEMMA AcceptStep ==
  ASSUME IInv, TypeOK', NEW k \in Socks, AcceptFails(k)
  PROVE  IInv'
<1>1. /\ UNCHANGED <<registry, req, stop, overlapped>>
      /\ \A l \in Socks : sock'[l].port = sock[l].port /\ sock'[l].sess = sock[l].sess
  BY DEF AcceptFails, IInv, TypeOK, SockRecord
<1>2. \A u \in Threads : /\ req[u].old \in Socks \cup {NoSock}
                         /\ req[u].new \in Socks \cup {NoSock}
  BY DEF IInv, TypeOK, RequestRecord
<1>3. \A s \in Sessions : registry[s] \in Socks \cup {NoSock}
  BY DEF IInv, TypeOK
<1>p1. RequestInv'
  BY <1>1, <1>2, <1>3 DEF IInv, Moves, pc, Open, ShutDown, Early, Late, OldPCs, NewPCs, PortPCs, StartPCs, Closed, RequestInv
<1>p2. OneSession'
  BY <1>1, <1>2, <1>3 DEF IInv, Moves, pc, Open, ShutDown, Early, Late, OldPCs, NewPCs, PortPCs, StartPCs, Closed, OneSession, NewInv, RequestInv
<1>p3. NewInv'
  BY <1>1, <1>2, <1>3 DEF IInv, Moves, pc, Open, ShutDown, Early, Late, OldPCs, NewPCs, PortPCs, StartPCs, Closed, NewInv, RequestInv
<1>p4. OldInv'
  BY <1>1, <1>2, <1>3 DEF IInv, Moves, pc, Open, ShutDown, Early, Late, OldPCs, NewPCs, PortPCs, StartPCs, Closed, OldInv, RequestInv, NewInv, OwnSession, OneSession
<1>p5. OverlapNoticed'
  BY <1>1, <1>2, <1>3 DEF IInv, Moves, pc, Open, ShutDown, Early, Late, OldPCs, NewPCs, PortPCs, StartPCs, Closed, OverlapNoticed, RequestInv
<1>p6. OverwriteNeedsOverlap'
  BY <1>1, <1>2, <1>3 DEF IInv, Moves, pc, Open, ShutDown, Early, Late, OldPCs, NewPCs, PortPCs, StartPCs, Closed, OverwriteNeedsOverlap, RequestInv, OverlapNoticed, NewInv
<1>p7. RegisteredIsOpen'
  BY <1>1, <1>2, <1>3 DEF IInv, Moves, pc, Open, ShutDown, Early, Late, OldPCs, NewPCs, PortPCs, StartPCs, Closed, RegisteredIsOpen, RequestInv, OldInv, NewInv
<1>p8. OwnSession'
  BY <1>1, <1>2, <1>3 DEF IInv, Moves, pc, Open, ShutDown, Early, Late, OldPCs, NewPCs, PortPCs, StartPCs, Closed, OwnSession, NewInv, RequestInv
<1>p9. LeakNeedsOverlap'
  BY <1>1, <1>2, <1>3 DEF IInv, Moves, pc, Open, ShutDown, Early, Late, OldPCs, NewPCs, PortPCs, StartPCs, Closed, LeakNeedsOverlap, Referenced, RequestInv, OldInv, NewInv, OverwriteNeedsOverlap, OwnSession
<1> QED
  BY <1>p1, <1>p2, <1>p3, <1>p4, <1>p5, <1>p6, <1>p7, <1>p8, <1>p9 DEF IInv

\* Nothing is left of a process that has ended.
LEMMA GoneStep ==
  ASSUME IInv, TypeOK', ProcessGone
  PROVE  IInv'
<1>1. /\ \A s \in Sessions : registry'[s] = NoSock
      /\ \A k \in Socks : sock'[k].port = NoPort
      /\ \A t \in Threads : req'[t].pc = "idle" /\ req'[t].old = NoSock /\ req'[t].new = NoSock
      /\ stop'.pc = "off"
  BY DEF ProcessGone, Closed, NoRequest, NoStop
<1>p1. RequestInv'
  BY <1>1 DEF IInv, Moves, pc, Open, ShutDown, Early, Late, OldPCs, NewPCs, PortPCs, StartPCs, RequestInv
<1>p2. OneSession'
  BY <1>1 DEF IInv, Moves, pc, Open, ShutDown, Early, Late, OldPCs, NewPCs, PortPCs, StartPCs, OneSession, NewInv, RequestInv
<1>p3. NewInv'
  BY <1>1 DEF IInv, Moves, pc, Open, ShutDown, Early, Late, OldPCs, NewPCs, PortPCs, StartPCs, NewInv, RequestInv
<1>p4. OldInv'
  BY <1>1 DEF IInv, Moves, pc, Open, ShutDown, Early, Late, OldPCs, NewPCs, PortPCs, StartPCs, OldInv, RequestInv, NewInv, OwnSession, OneSession
<1>p5. OverlapNoticed'
  BY <1>1 DEF IInv, Moves, pc, Open, ShutDown, Early, Late, OldPCs, NewPCs, PortPCs, StartPCs, OverlapNoticed, RequestInv
<1>p6. OverwriteNeedsOverlap'
  BY <1>1 DEF IInv, Moves, pc, Open, ShutDown, Early, Late, OldPCs, NewPCs, PortPCs, StartPCs, OverwriteNeedsOverlap, RequestInv, OverlapNoticed, NewInv
<1>p7. RegisteredIsOpen'
  BY <1>1 DEF IInv, Moves, pc, Open, ShutDown, Early, Late, OldPCs, NewPCs, PortPCs, StartPCs, RegisteredIsOpen, RequestInv, OldInv, NewInv
<1>p8. OwnSession'
  BY <1>1 DEF IInv, Moves, pc, Open, ShutDown, Early, Late, OldPCs, NewPCs, PortPCs, StartPCs, OwnSession, NewInv, RequestInv
<1>p9. LeakNeedsOverlap'
  BY <1>1 DEF IInv, Moves, pc, Open, ShutDown, Early, Late, OldPCs, NewPCs, PortPCs, StartPCs, LeakNeedsOverlap, Referenced, RequestInv, OldInv, NewInv, OverwriteNeedsOverlap, OwnSession
<1> QED
  BY <1>p1, <1>p2, <1>p3, <1>p4, <1>p5, <1>p6, <1>p7, <1>p8, <1>p9 DEF IInv

\* A step that changes neither registry, listeners nor requests keeps it, if the
\* shutdown goes nowhere but on from where it has deleted nothing,
LEMMA QuietStep ==
  ASSUME IInv, TypeOK', UNCHANGED <<registry, sock, req, overlapped>>,
         stop' = stop \/ (stop.pc # "delete" /\ (ShutDown => ShutDown'))
  PROVE  IInv'
  BY DEF IInv, RequestInv, OneSession, NewInv, OldInv, OverlapNoticed, OverwriteNeedsOverlap,
         RegisteredIsOpen, OwnSession, LeakNeedsOverlap, Referenced, Open, ShutDown, pc

\* and so do the steps of StartPiWeb
LEMMA StartStepIInv ==
  ASSUME IInv, TypeOK', NEW t \in Threads, StartStep(t)
  PROVE  IInv'
<1> USE DEF PCs, StartPCs
<1>0. TypeOK
  BY DEF IInv
<1>1. CASE StartLock(t)
  <2>1. Moves(t, "locked", req[t].sess, req[t].port, req[t].old, req[t].new) /\ pc(t) = "lock"
    BY <1>0, <1>1, GotoMoves DEF StartLock, Goto
  <2>2. pc(t) \in Early /\ "locked" \in Early /\ "locked" \notin PortPCs
    BY <2>1 DEF Early, PortPCs
  <2> QED
    BY <1>1, <2>1, <2>2, GoOn DEF StartLock
<1>2. CASE FoundProxy(t)
  BY <1>2, FoundProxyStep
<1>3. CASE FoundProxyFatal(t) \/ StartUnlockFatal(t) \/ RegisterFatal(t)
  BY <1>3, GoneStep DEF FoundProxyFatal, StartUnlockFatal, RegisterFatal, Fatal, FatalError
<1>4. CASE FoundNone(t)
  <2>1. Moves(t, "unlock", req[t].sess, req[t].port, req[t].old, req[t].new) /\ pc(t) = "locked"
    BY <1>0, <1>4, GotoMoves DEF FoundNone, Goto
  <2>2. pc(t) \in Early /\ "unlock" \in Late /\ "unlock" \notin PortPCs
    BY <2>1 DEF Early, Late, PortPCs
  <2> QED
    BY <1>4, <2>1, <2>2, GoOn DEF FoundNone
<1>5. CASE Healthy(t) \/ LaunchFails(t) \/ NotReady(t) \/ ListenFails(t) \/ NoPortFree(t)
  <2>1. /\ Moves(t, "idle", NoSession, NoPort, NoSock, NoSock)
        /\ pc(t) \in {"health", "launch", "waitReady", "listen", "findPort"}
    BY <1>0, <1>5, FinishMoves
       DEF Healthy, LaunchFails, NotReady, ListenFails, NoPortFree, Finish
  <2>2. pc(t) \notin NewPCs \cup {"delete"}
    BY <2>1 DEF NewPCs
  <2> QED
    BY <1>5, <2>1, <2>2, EndStep DEF Healthy, LaunchFails, NotReady, ListenFails, NoPortFree
<1>6. CASE Unhealthy(t)
  <2>1. Moves(t, "close", req[t].sess, req[t].port, req[t].old, req[t].new) /\ pc(t) = "health"
    BY <1>0, <1>6, GotoMoves DEF Unhealthy, Goto
  <2>2. pc(t) \in OldPCs /\ "close" \in OldPCs /\ "close" \notin PortPCs
    BY <2>1 DEF OldPCs, PortPCs
  <2> QED
    BY <1>6, <2>1, <2>2, GoOn DEF Unhealthy
<1>7. CASE CloseOld(t)
  BY <1>7, CloseOldStep
<1>8. CASE DeleteOld(t)
  BY <1>8, DeleteOldStep
<1>9. CASE StartUnlock(t)
  <2>1. Moves(t, "findPort", req[t].sess, FirstPort, req[t].old, req[t].new)
    BY <1>0, <1>9, FirstIsPort, PortMoves DEF StartUnlock
  <2>2. pc(t) \in Late /\ "findPort" \in Late /\ FirstPort # NoPort
    BY <1>9, FirstIsPort DEF StartUnlock, Late
  <2>3. UNCHANGED <<registry, sock, stop, overlapped>>
    BY <1>9 DEF StartUnlock
  <2> QED
    BY <2>1, <2>2, <2>3, GoOn
<1>10. CASE TryPort(t) \/ CloseProbe(t) \/ NextPort(t)
  <2>1. CASE TryPort(t)
    <3>1. Moves(t, "probed", req[t].sess, req[t].port, req[t].old, req[t].new) /\ pc(t) = "findPort"
      BY <1>0, <2>1, GotoMoves DEF TryPort, Goto
    <3>2. pc(t) \in Late /\ "probed" \in Late /\ req[t].port # NoPort
      BY <3>1 DEF Late, IInv, RequestInv, PortPCs
    <3> QED
      BY <2>1, <3>1, <3>2, GoOn DEF TryPort
  <2>2. CASE CloseProbe(t)
    <3>1. Moves(t, "launch", req[t].sess, req[t].port, req[t].old, req[t].new) /\ pc(t) = "probed"
      BY <1>0, <2>2, GotoMoves DEF CloseProbe, Goto
    <3>2. pc(t) \in Late /\ "launch" \in Late /\ req[t].port # NoPort
      BY <3>1 DEF Late, IInv, RequestInv, PortPCs
    <3> QED
      BY <2>2, <3>1, <3>2, GoOn DEF CloseProbe
  <2>3. CASE NextPort(t)
    <3>1. PICK p \in Ports : Moves(t, "findPort", req[t].sess, p, req[t].old, req[t].new)
      BY <1>0, <2>3, NextMoves DEF IInv
    <3>2. pc(t) \in Late /\ "findPort" \in Late /\ p # NoPort
      BY <2>3 DEF NextPort, Late
    <3>3. UNCHANGED <<registry, sock, stop, overlapped>>
      BY <2>3 DEF NextPort
    <3> QED
      BY <3>1, <3>2, <3>3, GoOn
  <2> QED
    BY <1>10, <2>1, <2>2, <2>3
<1>11. CASE Launch(t)
  <2>1. Moves(t, "waitReady", req[t].sess, req[t].port, req[t].old, req[t].new) /\ pc(t) = "launch"
    BY <1>0, <1>11, GotoMoves DEF Launch, Goto
  <2>2. pc(t) \in Late /\ "waitReady" \in Late /\ req[t].port # NoPort
    BY <2>1 DEF Late, IInv, RequestInv, PortPCs
  <2> QED
    BY <1>11, <2>1, <2>2, GoOn DEF Launch
<1>12. CASE Ready(t)
  <2>1. Moves(t, "listen", req[t].sess, req[t].port, req[t].old, req[t].new)
    BY <1>0, <1>12, GotoMoves DEF Ready
  <2>2. pc(t) \in Late /\ "listen" \in Late /\ req[t].port # NoPort
    BY <1>12 DEF Ready, Goto, Late, IInv, RequestInv, PortPCs
  <2>3. UNCHANGED <<registry, sock, stop, overlapped>>
    BY <1>12 DEF Ready
  <2> QED
    BY <2>1, <2>2, <2>3, GoOn
<1>13. CASE Listen(t)
  BY <1>13, ListenStep
<1>14. CASE RegisterLock(t)
  <2>1. Moves(t, "registering", req[t].sess, req[t].port, req[t].old, req[t].new) /\ pc(t) = "lockAgain"
    BY <1>0, <1>14, GotoMoves DEF RegisterLock, Goto
  <2>2. pc(t) \in NewPCs /\ "registering" \in NewPCs /\ "registering" \notin PortPCs
    BY <2>1 DEF NewPCs, PortPCs
  <2> QED
    BY <1>14, <2>1, <2>2, GoOn DEF RegisterLock
<1>15. CASE Register(t)
  BY <1>15, RegisterStep
<1> QED
  BY <1>1, <1>2, <1>3, <1>4, <1>5, <1>6, <1>7, <1>8, <1>9, <1>10, <1>11, <1>12, <1>13,
     <1>14, <1>15 DEF StartStep

\* and of GetPiWebStatus.
LEMMA StatusStepIInv ==
  ASSUME IInv, TypeOK', NEW t \in Threads, StatusStep(t)
  PROVE  IInv'
<1> USE DEF PCs, StartPCs
<1>0. TypeOK
  BY DEF IInv
<1>1. CASE StatusLock(t)
  <2>1. Moves(t, "statusLocked", req[t].sess, req[t].port, req[t].old, req[t].new) /\ pc(t) = "statusLock"
    BY <1>0, <1>1, GotoMoves DEF StatusLock, Goto
  <2>2. {pc(t), "statusLocked"} \subseteq StatusPCs /\ "statusLocked" \notin PortPCs
    BY <2>1 DEF StatusPCs, PortPCs
  <2> QED
    BY <1>1, <2>1, <2>2, GoOn DEF StatusLock
<1>2. CASE StatusUnlock(t) \/ StatusHealth(t)
  <2>1. /\ Moves(t, "idle", NoSession, NoPort, NoSock, NoSock)
        /\ pc(t) \in {"statusLocked", "statusHealth"}
    BY <1>0, <1>2, FinishMoves DEF StatusUnlock, StatusHealth, Finish
  <2>2. pc(t) \notin NewPCs \cup {"delete"}
    BY <2>1 DEF NewPCs
  <2> QED
    BY <1>2, <2>1, <2>2, EndStep DEF StatusUnlock, StatusHealth
<1>3. CASE StatusFound(t)
  <2>1. /\ Moves(t, "statusHealth", req[t].sess, req[t].port, req[t].old, req[t].new)
        /\ pc(t) = "statusLocked"
    BY <1>0, <1>3, GotoMoves DEF StatusFound, Goto
  <2>2. {pc(t), "statusHealth"} \subseteq StatusPCs /\ "statusHealth" \notin PortPCs
    BY <2>1 DEF StatusPCs, PortPCs
  <2> QED
    BY <1>3, <2>1, <2>2, GoOn DEF StatusFound
<1>4. CASE StatusUnlockFatal(t)
  BY <1>4, GoneStep DEF StatusUnlockFatal, Fatal, FatalError
<1> QED
  BY <1>1, <1>2, <1>3, <1>4 DEF StatusStep

\* and of the shutdown.
LEMMA StopStepIInv ==
  ASSUME IInv, TypeOK', StopStep
  PROVE  IInv'
<1>1. CASE StopLock
  BY <1>1, QuietStep DEF StopLock, ShutDown, IInv, TypeOK, StopRecord
<1>2. ASSUME NEW s \in Sessions, StopClose(s) PROVE IInv'
  BY <1>2, StopCloseStep
<1>3. CASE StopDelete
  BY <1>3, StopDeleteStep
<1>4. CASE StopUnlock
  BY <1>4, QuietStep DEF StopUnlock, StopLooped, ShutDown, IInv, TypeOK, StopRecord
<1>5. CASE StopUnlockFatal
  BY <1>5, GoneStep DEF StopUnlockFatal, FatalError
<1> QED
  BY <1>1, <1>2, <1>3, <1>4, <1>5 DEF StopStep

\* Every step keeps the invariant.
THEOREM NextIInv == IInv /\ [Next]_vars => IInv'
<1> SUFFICES ASSUME IInv, [Next]_vars PROVE IInv'
  OBVIOUS
<1>0. TypeOK'
  BY NextType DEF IInv
<1>1. ASSUME NEW t \in Threads, NEW s \in Sessions, StartBegin(t, s) \/ StatusBegin(t, s)
      PROVE  IInv'
  BY <1>0, <1>1, StartBeginStep, StatusBeginStep
<1>2. ASSUME NEW t \in Threads, StartStep(t) \/ StatusStep(t) PROVE IInv'
  BY <1>0, <1>2, StartStepIInv, StatusStepIInv
<1>3. CASE StopStep
  BY <1>0, <1>3, StopStepIInv
<1>4. CASE StopBegin
  BY <1>0, <1>4, QuietStep DEF StopBegin, ShutDown
<1>5. ASSUME NEW k \in Socks, AcceptFails(k) PROVE IInv'
  BY <1>0, <1>5, AcceptStep
<1>6. CASE MapRaceFatal \/ Exit
  BY <1>0, <1>6, GoneStep DEF MapRaceFatal, FatalError, Exit
<1>7. CASE UNCHANGED vars
  BY <1>0, <1>7, QuietStep DEF vars
<1> QED
  BY <1>1, <1>2, <1>3, <1>4, <1>5, <1>6, <1>7 DEF Next

-----------------------------------------------------------------------------
(* What no step but two changes *)

\* A listener keeps its port and its session until it is closed, and a request
\* its session until it ends.
Kept ==
    /\ \A k \in Socks : \/ sock'[k].port = NoPort
                        \/ sock'[k].port = sock[k].port /\ sock'[k].sess = sock[k].sess
    /\ \A t \in Threads : req'[t].pc \in StartPCs =>
          req[t].pc \in StartPCs /\ req'[t].sess = req[t].sess

\* The process that ends keeps nothing,
LEMMA GoneKept == ProcessGone => Kept
  BY DEF ProcessGone, Kept, Closed, NoRequest, StartPCs

\* a request that ends keeps the listeners and the other requests,
LEMMA EndKept ==
  ASSUME TypeOK, NEW t \in Threads, Moves(t, "idle", NoSession, NoPort, NoSock, NoSock),
         UNCHANGED sock
  PROVE  Kept
  BY DEF Moves, Kept, StartPCs

\* and so does every step of a request but its arrival and the opening of a listener,
LEMMA StartKept ==
  ASSUME IInv, NEW t \in Threads, StartStep(t), ~Listen(t)
  PROVE  Kept
<1>0. TypeOK
  BY DEF IInv
<1>1. CASE FoundProxyFatal(t) \/ StartUnlockFatal(t) \/ RegisterFatal(t)
  BY <1>1, GoneKept DEF FoundProxyFatal, StartUnlockFatal, RegisterFatal, Fatal, FatalError
<1>2. CASE \/ Healthy(t) \/ LaunchFails(t) \/ NotReady(t) \/ ListenFails(t) \/ NoPortFree(t)
           \/ Register(t)
  BY <1>0, <1>2, FinishMoves, EndKept
     DEF Healthy, LaunchFails, NotReady, ListenFails, NoPortFree, Register
<1>3. CASE \/ StartLock(t) \/ FoundProxy(t) \/ FoundNone(t) \/ Unhealthy(t) \/ CloseOld(t)
           \/ DeleteOld(t) \/ StartUnlock(t) \/ TryPort(t) \/ CloseProbe(t) \/ NextPort(t)
           \/ Launch(t) \/ Ready(t) \/ RegisterLock(t)
  <2>1. /\ req[t].pc \in StartPCs
        /\ req'[t].sess = req[t].sess
        /\ \A u \in Threads \ {t} : req'[u] = req[u]
    BY <1>0, <1>3 DEF TypeOK, RequestRecord, StartPCs, pc, Goto, StartLock, FoundProxy, FoundNone,
       Unhealthy, CloseOld, DeleteOld, StartUnlock, TryPort, CloseProbe, NextPort, Launch,
       Ready, RegisterLock
  <2>2. \A k \in Socks : sock'[k] = sock[k] \/ sock'[k] = Closed
    BY <1>0, <1>3 DEF TypeOK, StartLock, FoundProxy, FoundNone, Unhealthy, CloseOld, DeleteOld,
       StartUnlock, TryPort, CloseProbe, NextPort, Launch, Ready, RegisterLock
  <2> QED
    BY <2>1, <2>2 DEF Kept, Closed
<1> QED
  BY <1>1, <1>2, <1>3 DEF StartStep

\* and every other step of the process.
LEMMA RestKept ==
  ASSUME IInv, \/ \E t \in Threads : StatusStep(t)
               \/ StopBegin \/ StopStep \/ MapRaceFatal
               \/ \E k \in Socks : AcceptFails(k)
  PROVE  Kept
<1>0. TypeOK
  BY DEF IInv
<1>1. ASSUME NEW t \in Threads, StatusStep(t)
      PROVE  Kept
  <2>1. CASE StatusUnlockFatal(t)
    BY <2>1, GoneKept DEF StatusUnlockFatal, Fatal, FatalError
  <2>2. CASE StatusUnlock(t) \/ StatusHealth(t)
    BY <1>0, <2>2, FinishMoves, EndKept DEF StatusUnlock, StatusHealth
  <2>3. CASE StatusLock(t) \/ StatusFound(t)
    <3>1. /\ UNCHANGED sock /\ \A u \in Threads \ {t} : req'[u] = req[u]
          /\ req'[t].pc \in {"statusLocked", "statusHealth"}
      BY <1>0, <2>3 DEF StatusLock, StatusFound, Goto, TypeOK, RequestRecord
    <3> QED
      BY <3>1 DEF Kept, StartPCs
  <2> QED
    BY <1>1, <2>1, <2>2, <2>3 DEF StatusStep
<1>2. CASE StopBegin \/ StopLock \/ StopDelete \/ StopUnlock
  BY <1>2 DEF StopBegin, StopLock, StopDelete, StopUnlock, Kept
<1>3. ASSUME NEW s \in Sessions, StopClose(s) PROVE Kept
  BY <1>0, <1>3 DEF StopClose, TypeOK, Kept, Closed
<1>4. CASE StopUnlockFatal \/ MapRaceFatal
  BY <1>4, GoneKept DEF StopUnlockFatal, MapRaceFatal, FatalError
<1>5. ASSUME NEW k \in Socks, AcceptFails(k) PROVE Kept
  BY <1>0, <1>5 DEF AcceptFails, TypeOK, SockRecord, Kept
<1> QED
  BY <1>1, <1>2, <1>3, <1>4, <1>5 DEF StopStep

\* The listener that is opened is the request's, and was no open one.
LEMMA ListenOpens ==
  ASSUME IInv, NEW t \in Threads, Listen(t)
  PROVE  /\ pc(t) \in StartPCs /\ req[t].sess \in Sessions
         /\ req'[t].pc \in StartPCs /\ req'[t].sess = req[t].sess /\ req'[t].new \in Socks
         /\ sock'[req'[t].new].sess = req[t].sess
         /\ \A u \in Threads \ {t} : req'[u] = req[u]
         /\ \A k \in Socks \ {req'[t].new} : sock'[k] = sock[k]
<1> DEFINE new == CHOOSE k \in Unused : TRUE
<1>1. new \in Socks
  BY DEF Listen, Unused
<1>2. /\ sock' = [sock EXCEPT ![new] =
               [port |-> req[t].port, sess |-> req[t].sess, serving |-> TRUE]]
      /\ req' = [req EXCEPT ![t].pc = "lockAgain", ![t].new = new]
  BY DEF Listen
<1> HIDE DEF new
<1>3. sock \in [Socks -> SockRecord] /\ req \in [Threads -> RequestRecord]
  BY DEF IInv, TypeOK
<1>4. /\ req'[t].pc = "lockAgain" /\ req'[t].sess = req[t].sess /\ req'[t].new = new
      /\ \A u \in Threads \ {t} : req'[u] = req[u]
  BY <1>2, <1>3 DEF RequestRecord
<1>5. /\ sock'[new].sess = req[t].sess
      /\ \A k \in Socks \ {new} : sock'[k] = sock[k]
  BY <1>1, <1>2, <1>3
<1>6. pc(t) = "listen" /\ req[t].sess \in Sessions
  BY DEF Listen, IInv, RequestInv
<1> QED
  BY <1>1, <1>4, <1>5, <1>6 DEF StartPCs

-----------------------------------------------------------------------------
(* The theorems *)

\* IInv is invariant.
THEOREM Invariance == Spec => []IInv
  BY InitIInv, NextIInv, PTL DEF Spec

\* The registry, the listeners and the requests are well formed, for any number
\* of sessions, ports and requests.
THEOREM TypeCorrect == Spec => []TypeOK
<1>1. IInv => TypeOK
  BY DEF IInv
<1> QED
  BY <1>1, Invariance, PTL

\* A registered proxy is open, but for the moment in which it is taken down,
\* whoever else starts, restarts or shuts down proxies meanwhile, and although
\* the mutex may be unlocked by anybody.
THEOREM Registered == Spec => []RegisteredIsOpen
<1>1. IInv => RegisteredIsOpen
  BY DEF IInv
<1> QED
  BY <1>1, Invariance, PTL

\* A listener that is lost, with its port, was opened for a session of which two
\* starts have overlapped, or there is a shutdown.
THEOREM Leak == Spec => []LeakNeedsOverlap
<1>1. IInv => LeakNeedsOverlap
  BY DEF IInv
<1> QED
  BY <1>1, Invariance, PTL
=============================================================================
