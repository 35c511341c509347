----------------------------- MODULE PiWebProxy -----------------------------
(***************************************************************************)
(* The pi-web.dev proxies of the agent-runner                              *)
(* (agent-runner/internal/docker/piweb.go): concurrent StartPiWeb and      *)
(* GetPiWebStatus requests over a registry of TCP listeners, the mutex of  *)
(* the registry, and the ten host ports the listeners share.               *)
(*                                                                         *)
(* piWebProxyRegistryMu is a Go mutex: it has no owner, so any goroutine's *)
(* Unlock frees it, and Unlock of a free mutex is a fatal error that no    *)
(* Recoverer catches.  The whole agent-runner dies, and with it every      *)
(* listener; Docker's restart policy starts it again.                      *)
(*                                                                         *)
(* Environment, as the code uses it: whether a container runs when it is   *)
(* listed, and what an exec in it answers and when, may be anything at any *)
(* time.  StopPiWeb has no caller.                                         *)
(***************************************************************************)
EXTENDS Naturals

CONSTANTS
    Sessions,   \* session ids
    FirstPort, LastPort, \* of the range of host ports: 44000 and 44009
    Socks,      \* identities of net.Listener objects: one per port and one per
                \* thread is enough for an unused one whenever a port is free
    Threads,    \* handler goroutines
    NoSession, NoSock, NoPort

Ports == FirstPort..LastPort

ASSUME PiWebAssumption ==
    /\ FirstPort \in Nat /\ LastPort \in Nat /\ FirstPort <= LastPort
    /\ NoSession \notin Sessions
    /\ NoSock \notin Socks
    /\ NoPort \notin Ports

VARIABLES
    registry,   \* [Sessions -> listener]: piWebProxyRegistry
    mutex,      \* piWebProxyRegistryMu is locked
    sock,       \* [Socks -> SockRecord]: a listener's port, whose proxy it is, and
                \* whether its accept loop runs
    req,        \* [Threads -> RequestRecord]
    server,     \* the agent-runner process: "up", or "fatal" until it is restarted
    stop,       \* StopRecord: the shutdown goroutine in StopAllPiWebProxies
    overlapped  \* history: sessions for which two StartPiWeb calls of this
                \* process have overlapped

vars == <<registry, mutex, sock, req, server, stop, overlapped>>

\* "locked", "statusLocked" and "registering" are the critical sections.
StartPCs == {"lock", "locked", "health", "close", "delete", "unlock", "findPort",
             "probed", "launch", "waitReady", "listen", "lockAgain", "registering"}

PCs == StartPCs \cup {"idle", "statusLock", "statusLocked", "statusHealth"}

\* old is the proxy found in the registry, new the listener opened for the next.
RequestRecord ==
    [pc : PCs, sess : Sessions \cup {NoSession}, port : Ports \cup {NoPort},
     old : Socks \cup {NoSock}, new : Socks \cup {NoSock}]

SockRecord ==
    [port : Ports \cup {NoPort}, sess : Sessions \cup {NoSession}, serving : BOOLEAN]

\* left are the entries the range loop has still to produce, sess the one whose
\* listener it has closed and which it deletes next.
StopRecord ==
    [pc : {"off", "lock", "loop", "delete", "done"}, sess : Sessions \cup {NoSession},
     left : SUBSET Sessions]

TypeOK ==
    /\ registry \in [Sessions -> Socks \cup {NoSock}]
    /\ mutex \in BOOLEAN
    /\ sock \in [Socks -> SockRecord]
    /\ req \in [Threads -> RequestRecord]
    /\ server \in {"up", "fatal"}
    /\ stop \in StopRecord
    /\ overlapped \subseteq Sessions

NoRequest == [pc |-> "idle", sess |-> NoSession, port |-> NoPort,
              old |-> NoSock, new |-> NoSock]

Closed == [port |-> NoPort, sess |-> NoSession, serving |-> FALSE]

NoStop == [pc |-> "off", sess |-> NoSession, left |-> {}]

Init ==
    /\ registry = [s \in Sessions |-> NoSock]
    /\ mutex = FALSE
    /\ sock = [k \in Socks |-> Closed]
    /\ req = [t \in Threads |-> NoRequest]
    /\ server = "up"
    /\ stop = NoStop
    /\ overlapped = {}

pc(t) == req[t].pc

Goto(t, from, to) == pc(t) = from /\ req' = [req EXCEPT ![t].pc = to]

Finish(t, from) == pc(t) = from /\ req' = [req EXCEPT ![t] = NoRequest]

Open(k) == sock[k].port # NoPort

\* What is left of the process when it ends: nothing.
ProcessGone ==
    /\ registry' = [s \in Sessions |-> NoSock]
    /\ mutex' = FALSE
    /\ sock' = [k \in Socks |-> Closed]
    /\ req' = [t \in Threads |-> NoRequest]
    /\ stop' = NoStop
    /\ overlapped' = {}

FatalError == server' = "fatal" /\ ProcessGone

\* "fatal error: sync: unlock of unlocked mutex"
Fatal(t, from) == pc(t) = from /\ ~mutex /\ FatalError

Unlock == mutex /\ mutex' = FALSE

-----------------------------------------------------------------------------
(* StartPiWeb *)

\* The container is listed, runs and has an address.  Whatever else stops the
\* request here changes nothing.
StartBegin(t, s) ==
    /\ server = "up"
    /\ pc(t) = "idle"
    /\ req' = [req EXCEPT ![t].pc = "lock", ![t].sess = s]
    /\ overlapped' = overlapped \cup
          {x \in {s} : \E u \in Threads : req[u].sess = x /\ pc(u) \in StartPCs}
    /\ UNCHANGED <<registry, mutex, sock, server, stop>>

StartLock(t) ==
    /\ ~mutex
    /\ Goto(t, "lock", "locked")
    /\ mutex' = TRUE
    /\ UNCHANGED <<registry, sock, server, stop, overlapped>>

\* Mutant: the branch keeps the mutex during the health check.
FoundProxyKeepsLock(t) ==
    LET s == req[t].sess IN
    /\ pc(t) = "locked"
    /\ registry[s] # NoSock
    /\ req' = [req EXCEPT ![t].pc = "health", ![t].old = registry[s]]
    /\ UNCHANGED <<registry, mutex, sock, server, stop, overlapped>>

\* A proxy is registered: the mutex is unlocked before the health check.
FoundProxy(t) ==
    LET s == req[t].sess IN
    /\ pc(t) = "locked"
    /\ registry[s] # NoSock
    /\ Unlock
    /\ req' = [req EXCEPT ![t].pc = "health", ![t].old = registry[s]]
    /\ UNCHANGED <<registry, sock, server, stop, overlapped>>

FoundNone(t) ==
    /\ Goto(t, "locked", "unlock")
    /\ registry[req[t].sess] = NoSock
    /\ UNCHANGED <<registry, mutex, sock, server, stop, overlapped>>

\* "pi-web.dev is already running"
Healthy(t) ==
    /\ Finish(t, "health")
    /\ UNCHANGED <<registry, mutex, sock, server, stop, overlapped>>

\* pi-web is down, or the exec that asks it failed.
Unhealthy(t) ==
    /\ Goto(t, "health", "close")
    /\ UNCHANGED <<registry, mutex, sock, server, stop, overlapped>>

\* Mutant: the old listener is dropped without being closed.
DropOld(t) ==
    /\ pc(t) = "close"
    /\ req' = [req EXCEPT ![t].pc = "delete", ![t].old = NoSock]
    /\ UNCHANGED <<registry, mutex, sock, server, stop, overlapped>>

\* existing.listener.Close() and delete(), both without the mutex.
CloseOld(t) ==
    /\ pc(t) = "close"
    /\ req' = [req EXCEPT ![t].pc = "delete", ![t].old = NoSock]
    /\ sock' = [sock EXCEPT ![req[t].old] = Closed]
    /\ UNCHANGED <<registry, mutex, server, stop, overlapped>>

\* Mutant: the closed proxy stays in the registry.
KeepOld(t) ==
    /\ Goto(t, "delete", "unlock")
    /\ UNCHANGED <<registry, mutex, sock, server, stop, overlapped>>

DeleteOld(t) ==
    /\ Goto(t, "delete", "unlock")
    /\ registry' = [registry EXCEPT ![req[t].sess] = NoSock]
    /\ stop' = [stop EXCEPT !.left = @ \ {req[t].sess}]
    /\ UNCHANGED <<mutex, sock, server, overlapped>>

\* The Unlock that both branches reach, and the start of the search for a port.
StartUnlock(t) ==
    /\ pc(t) = "unlock"
    /\ req' = [req EXCEPT ![t].pc = "findPort", ![t].port = FirstPort]
    /\ Unlock
    /\ UNCHANGED <<registry, sock, server, stop, overlapped>>

StartUnlockFatal(t) == Fatal(t, "unlock")

\* The ports somebody listens on: a proxy, or a request that only tries one.
Bound == {sock[k].port : k \in {x \in Socks : Open(x)}}
            \cup {req[t].port : t \in {x \in Threads : pc(x) = "probed"}}

\* A port that can be bound is bound ...
TryPort(t) ==
    /\ Goto(t, "findPort", "probed")
    /\ req[t].port \notin Bound
    /\ UNCHANGED <<registry, mutex, sock, server, stop, overlapped>>

\* ... and given up again.
CloseProbe(t) ==
    /\ Goto(t, "probed", "launch")
    /\ UNCHANGED <<registry, mutex, sock, server, stop, overlapped>>

\* Mutant: the loop tries one port past the end of the range.
NextPortPastEnd(t) ==
    /\ pc(t) = "findPort"
    /\ req[t].port \in Bound
    /\ req' = [req EXCEPT ![t].port = @ + 1]
    /\ UNCHANGED <<registry, mutex, sock, server, stop, overlapped>>

NextPort(t) ==
    /\ pc(t) = "findPort"
    /\ req[t].port \in Bound /\ req[t].port < LastPort
    /\ req' = [req EXCEPT ![t].port = @ + 1]
    /\ UNCHANGED <<registry, mutex, sock, server, stop, overlapped>>

NoPortFree(t) ==
    /\ req[t].port \in Bound /\ req[t].port = LastPort
    /\ Finish(t, "findPort")
    /\ UNCHANGED <<registry, mutex, sock, server, stop, overlapped>>

\* The exec that starts pi-web has answered, or its stream has ended ...
Launch(t) ==
    /\ Goto(t, "launch", "waitReady")
    /\ UNCHANGED <<registry, mutex, sock, server, stop, overlapped>>

\* ... or fails, or finds an image with too old a Node.
LaunchFails(t) ==
    /\ Finish(t, "launch")
    /\ UNCHANGED <<registry, mutex, sock, server, stop, overlapped>>

Ready(t) ==
    /\ Goto(t, "waitReady", "listen")
    /\ UNCHANGED <<registry, mutex, sock, server, stop, overlapped>>

\* After thirty tries the request ends with a URL and without a listener.
NotReady(t) ==
    /\ Finish(t, "waitReady")
    /\ UNCHANGED <<registry, mutex, sock, server, stop, overlapped>>

Referenced(k) ==
    \/ \E s \in Sessions : registry[s] = k
    \/ \E t \in Threads : k \in {req[t].old, req[t].new}

Unused == {k \in Socks : ~Open(k) /\ ~Referenced(k)}

\* A new listener object and its accept loop: which of the unused identities it
\* gets is immaterial.
Listen(t) ==
    /\ pc(t) = "listen"
    /\ req[t].port \notin Bound
    /\ Unused # {}
    /\ LET new == CHOOSE k \in Unused : TRUE
       IN  /\ sock' = [sock EXCEPT ![new] =
                    [port |-> req[t].port, sess |-> req[t].sess, serving |-> TRUE]]
           /\ req' = [req EXCEPT ![t].pc = "lockAgain", ![t].new = new]
    /\ UNCHANGED <<registry, mutex, server, stop, overlapped>>

\* Somebody has taken the port since it was probed.
ListenFails(t) ==
    /\ Finish(t, "listen")
    /\ req[t].port \in Bound
    /\ UNCHANGED <<registry, mutex, sock, server, stop, overlapped>>

RegisterLock(t) ==
    /\ ~mutex
    /\ Goto(t, "lockAgain", "registering")
    /\ mutex' = TRUE
    /\ UNCHANGED <<registry, sock, server, stop, overlapped>>

\* Whatever is registered for the session by now is overwritten.
Register(t) ==
    /\ Finish(t, "registering")
    /\ Unlock
    /\ registry' = [registry EXCEPT ![req[t].sess] = req[t].new]
    /\ UNCHANGED <<sock, server, stop, overlapped>>

RegisterFatal(t) == Fatal(t, "registering")

FoundProxyFatal(t) == Fatal(t, "locked") /\ registry[req[t].sess] # NoSock

-----------------------------------------------------------------------------
(* GetPiWebStatus *)

StatusBegin(t, s) ==
    /\ server = "up"
    /\ pc(t) = "idle"
    /\ req' = [req EXCEPT ![t].pc = "statusLock", ![t].sess = s]
    /\ UNCHANGED <<registry, mutex, sock, server, stop, overlapped>>

StatusLock(t) ==
    /\ ~mutex
    /\ Goto(t, "statusLock", "statusLocked")
    /\ mutex' = TRUE
    /\ UNCHANGED <<registry, sock, server, stop, overlapped>>

\* No proxy, or the container did not run when it was listed.
StatusUnlock(t) ==
    /\ Finish(t, "statusLocked")
    /\ Unlock
    /\ UNCHANGED <<registry, sock, server, stop, overlapped>>

\* Mutant: a deferred Unlock, so that the health check is made under the mutex.
StatusKeepsLock(t) ==
    /\ Goto(t, "statusLocked", "statusHealth")
    /\ registry[req[t].sess] # NoSock
    /\ UNCHANGED <<registry, mutex, sock, server, stop, overlapped>>

\* The container ran when it was listed, and is asked whether pi-web answers.
StatusFound(t) ==
    /\ Goto(t, "statusLocked", "statusHealth")
    /\ registry[req[t].sess] # NoSock
    /\ Unlock
    /\ UNCHANGED <<registry, sock, server, stop, overlapped>>

StatusUnlockFatal(t) == Fatal(t, "statusLocked")

\* Whether pi-web answers decides only what is said.
StatusHealth(t) ==
    /\ Finish(t, "statusHealth")
    /\ UNCHANGED <<registry, mutex, sock, server, stop, overlapped>>

-----------------------------------------------------------------------------
(* The accept loops *)

\* Accept fails: the loop returns, and the listener and its entry stay.
AcceptFails(k) ==
    /\ sock[k].serving
    /\ sock' = [sock EXCEPT ![k].serving = FALSE]
    /\ UNCHANGED <<registry, mutex, req, server, stop, overlapped>>

-----------------------------------------------------------------------------
(* The shutdown goroutine *)

\* SIGINT or SIGTERM
StopBegin ==
    /\ server = "up" /\ stop.pc = "off"
    /\ stop' = [stop EXCEPT !.pc = "lock"]
    /\ UNCHANGED <<registry, mutex, sock, req, server, overlapped>>

StopLock ==
    /\ stop.pc = "lock"
    /\ ~mutex /\ mutex' = TRUE
    /\ stop' = [stop EXCEPT !.pc = "loop", !.left = {s \in Sessions : registry[s] # NoSock}]
    /\ UNCHANGED <<registry, sock, req, server, overlapped>>

\* The next entry of the range loop, one added meanwhile perhaps: its listener is
\* closed ...
StopClose(s) ==
    /\ stop.pc = "loop" /\ registry[s] # NoSock
    /\ sock' = [sock EXCEPT ![registry[s]] = Closed]
    /\ stop' = [pc |-> "delete", sess |-> s, left |-> stop.left \ {s}]
    /\ UNCHANGED <<registry, mutex, req, server, overlapped>>

\* ... and whatever the key has by now is deleted.
StopDelete ==
    /\ stop.pc = "delete"
    /\ registry' = [registry EXCEPT ![stop.sess] = NoSock]
    /\ stop' = [stop EXCEPT !.pc = "loop", !.sess = NoSession]
    /\ UNCHANGED <<mutex, sock, req, server, overlapped>>

StopLooped == stop.pc = "loop" /\ stop.left = {}

\* The deferred Unlock.
StopUnlock ==
    /\ StopLooped /\ Unlock
    /\ stop' = [stop EXCEPT !.pc = "done"]
    /\ UNCHANGED <<registry, sock, req, server, overlapped>>

StopUnlockFatal == StopLooped /\ ~mutex /\ FatalError

StopStep ==
    \/ StopLock \/ StopDelete \/ StopUnlock \/ StopUnlockFatal
    \/ \E s \in Sessions : StopClose(s)

-----------------------------------------------------------------------------
(* The process *)

Writers == {t \in Threads : pc(t) \in {"delete", "registering"}}

Readers == {t \in Threads : pc(t) \in {"locked", "statusLocked"}}

\* A write of the map meets another access to it: the runtime may notice and end
\* the process, "fatal error: concurrent map ...".
MapRaceFatal ==
    /\ \/ \E t \in Writers : (Writers \cup Readers) \ {t} # {}
       \/ stop.pc = "loop" /\ Writers # {}
       \/ stop.pc = "delete" /\ Writers \cup Readers # {}
    /\ FatalError

\* The process exits at the end of a shutdown, or crashes, and is started again.
Exit == server' = "up" /\ ProcessGone

-----------------------------------------------------------------------------
StartStep(t) ==
    \/ StartLock(t) \/ FoundProxy(t) \/ FoundProxyFatal(t) \/ FoundNone(t)
    \/ Healthy(t) \/ Unhealthy(t) \/ CloseOld(t) \/ DeleteOld(t)
    \/ StartUnlock(t) \/ StartUnlockFatal(t)
    \/ TryPort(t) \/ CloseProbe(t) \/ NextPort(t) \/ NoPortFree(t)
    \/ Launch(t) \/ LaunchFails(t) \/ Ready(t) \/ NotReady(t)
    \/ Listen(t) \/ ListenFails(t) \/ RegisterLock(t) \/ Register(t) \/ RegisterFatal(t)

StatusStep(t) ==
    \/ StatusLock(t) \/ StatusUnlock(t) \/ StatusFound(t) \/ StatusUnlockFatal(t)
    \/ StatusHealth(t)

Next ==
    \/ \E t \in Threads : \/ \E s \in Sessions : StartBegin(t, s) \/ StatusBegin(t, s)
                          \/ StartStep(t) \/ StatusStep(t)
    \/ \E k \in Socks : AcceptFails(k)
    \/ StopBegin \/ StopStep \/ MapRaceFatal \/ Exit

Spec == Init /\ [][Next]_vars

-----------------------------------------------------------------------------
(* Safety *)

\* The listener of a registered proxy is open, except for the moment in which
\* a request that found pi-web dead, or the shutdown, has closed it and not yet
\* taken it off the registry.
RegisteredIsOpen ==
    \A s \in Sessions : registry[s] # NoSock =>
        \/ Open(registry[s])
        \/ \E t \in Threads : pc(t) = "delete" /\ req[t].sess = s
        \/ stop.pc = "delete" /\ stop.sess = s

\* The shutdown has the registry, or has had it.
ShutDown == stop.pc \notin {"off", "lock"}

\* A listener that is open and in nobody's hands, and so keeps its port until
\* the process ends, goes back to two overlapping starts of one session, or to
\* a start that goes on while the shutdown stops the proxies.
LeakNeedsOverlap ==
    \A k \in Socks : Open(k) /\ ~Referenced(k) =>
        sock[k].sess \in overlapped \/ ShutDown

-----------------------------------------------------------------------------
(* Liveness *)

\* The request reads the output of an exec (piweb.go:221, :356).
Reading(t) == pc(t) \in {"health", "launch", "waitReady", "statusHealth"}

\* Goroutines run, and sync.Mutex hands itself to a goroutine that has waited
\* for long (its starvation mode); a range over a map ends.  The reads have no
\* deadline: nothing is assumed of them, for the container may be paused.
Fairness ==
    /\ \A t \in Threads : /\ WF_vars(~Reading(t) /\ (StartStep(t) \/ StatusStep(t)))
                          /\ SF_vars(StartLock(t) \/ RegisterLock(t) \/ StatusLock(t))
    /\ WF_vars(StopStep)
    /\ SF_vars(StopLock \/ StopUnlock \/ StopUnlockFatal)

FairSpec == Spec /\ Fairness

\* A thread's requests end, with an answer or with the process, unless it hangs
\* at an exec for good: none waits for the mutex for good, not even while
\* another hangs.
EveryRequestEnds ==
    \A t \in Threads : []<>(pc(t) = "idle") \/ <>[]Reading(t)

\* A signal gets the proxies stopped, or the process ends before that, whatever
\* the requests do meanwhile.
ProxiesGetStopped == stop.pc # "off" ~> stop.pc \in {"done", "off"}

-----------------------------------------------------------------------------
(* What the code means to do, and does not *)

\* piweb.go:159 "pi-web died but proxy exists - stop proxy, restart below": the
\* request that finds this goes on; it does not end the process.
RestartGoesOn == server = "up"

\* piweb.go:156 "pi-web.dev is already running": at the port of the answer
\* somebody listens.
AlreadyRunningIsOpen == [][\A t \in Threads : Healthy(t) => Open(req[t].old)]_vars

\* piweb.go:251 "not yet ready - try again in a moment": the URL of the answer is
\* not that of another session's proxy.
NotReadyNamesNoOther ==
    [][\A t \in Threads, k \in Socks :
          NotReady(t) /\ sock[k].port = req[t].port => sock[k].sess = req[t].sess]_vars

\* piweb.go:33 "holds active pi-web.dev TCP proxies": an open listener of the
\* registry is accepted from (piweb.go:311).
RegisteredIsActive ==
    \A s \in Sessions : registry[s] # NoSock =>
        (Open(registry[s]) => sock[registry[s]].serving)
=============================================================================
