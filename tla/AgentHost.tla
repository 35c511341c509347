----------------------------- MODULE AgentHost -----------------------------
(***************************************************************************)
(* The agent-runner as one process (cmd/main.go): the session handlers of  *)
(* AgentSessions and the pi-web proxies of PiWebProxy over the same        *)
(* containers, the shutdown that stops the proxies and then removes the    *)
(* containers, and the addresses of the containers, which a proxy is given *)
(* once and dials ever after.                                              *)
(*                                                                         *)
(* Environment: Docker gives a container that is started some address that *)
(* no running or paused container of the network has.                      *)
(***************************************************************************)
EXTENDS Naturals

CONSTANTS
    Sessions, NoSession,
    Names, NameOf,              \* container names, as in AgentSessions
    Handlers,                   \* the goroutines of session handlers
    Routes,                     \* the session operations clients ask for: a bound
    FirstPort, LastPort, NoPort, Socks, NoSock, \* as in PiWebProxy
    WebHandlers,                \* the goroutines of pi-web requests
    Addresses,                  \* addresses in the agents' network
    NoAddress

ASSUME HostAssumption ==
    /\ NameOf \in [Sessions -> Names]
    /\ FirstPort \in Nat /\ LastPort \in Nat /\ FirstPort <= LastPort
    /\ NoSession \notin Sessions /\ NoSock \notin Socks
    /\ NoPort \notin FirstPort..LastPort
    /\ NoAddress \notin Addresses
    /\ WebHandlers \cap Socks = {}

VARIABLES
    \* AgentSessions
    issued, known, row, docker, workspace, sreq, cleanup, hurt,
    \* PiWebProxy
    registry, mutex, sock, wreq, server, stop, overlapped,
    \* Both together
    address,    \* [Sessions -> Addresses \cup {NoAddress}]: of the container
    seen,       \* [WebHandlers -> Addresses \cup {NoAddress}]: containerIP
    target,     \* [Socks -> Addresses \cup {NoAddress}]: targetAddr of the proxy
    outlived    \* history: requests and listeners whose session's container has
                \* ended since its address was read for them

sessionVars == <<issued, known, row, docker, workspace, sreq, cleanup, hurt>>
webVars == <<registry, mutex, sock, wreq, server, stop, overlapped>>
hostVars == <<address, seen, target, outlived>>
vars == <<sessionVars, webVars, hostVars>>

S == INSTANCE AgentSessions WITH Threads <- Handlers, req <- sreq

W == INSTANCE PiWebProxy WITH Threads <- WebHandlers, req <- wreq

TypeOK ==
    /\ address \in [Sessions -> Addresses \cup {NoAddress}]
    /\ seen \in [WebHandlers -> Addresses \cup {NoAddress}]
    /\ target \in [Socks -> Addresses \cup {NoAddress}]
    /\ outlived \subseteq WebHandlers \cup Socks

\* The agent-runner starts on a host without sessions.
Init ==
    /\ S!Init /\ W!Init
    /\ address = [s \in Sessions |-> NoAddress]
    /\ seen = [t \in WebHandlers |-> NoAddress]
    /\ target = [k \in Socks |-> NoAddress]
    /\ outlived = {}

-----------------------------------------------------------------------------
(* Containers change under the proxies, and nobody tells them *)

Alive == {"running", "paused"}

Born == {s \in Sessions : docker[s] \notin Alive /\ docker'[s] \in Alive}

Ended == {s \in Sessions : docker[s] \in Alive /\ docker'[s] \notin Alive}

Free == {a \in Addresses : \A s \in Sessions : address[s] # a}

\* A container has an address from its start to its end, and some address,
\* the same or another one, after its next start.
Readdress ==
    \E a \in IF Born = {} THEN {NoAddress} ELSE Free :
        address' = [s \in Sessions |->
            IF s \in Born THEN a ELSE IF docker'[s] \in Alive THEN address[s] ELSE NoAddress]

ContainersMove ==
    /\ Readdress
    /\ outlived' = outlived \cup {t \in WebHandlers : seen[t] # NoAddress /\ wreq[t].sess \in Ended}
                            \cup {k \in Socks : sock[k].sess \in Ended}
    /\ UNCHANGED <<webVars, seen, target>>

SessionStep ==
    /\ server = "up"
    /\ \/ \E t \in Handlers : S!Handler(t) /\ sreq'[t].op \in Routes \cup {"none"}
       \/ stop.pc = "done" /\ S!CleanupList
       \/ \E s \in Sessions : S!CleanupRemove(s)
    /\ ContainersMove

\* The daemon does not need the agent-runner.
ContainerDies == (\E s \in Sessions : S!ContainerDies(s)) /\ ContainersMove

-----------------------------------------------------------------------------
(* Requests, proxies and the shutdown *)

\* What is noted of a request goes with it, and of a listener when it is closed.
Forget ==
    /\ seen' = [t \in WebHandlers |-> IF wreq'[t].pc = "idle" THEN NoAddress ELSE seen[t]]
    /\ target' = [k \in Socks |-> IF sock'[k].port = NoPort THEN NoAddress ELSE target[k]]
    /\ outlived' = outlived \ ({t \in WebHandlers : wreq'[t].pc = "idle"}
                                 \cup {k \in Socks : sock'[k].port = NoPort})
    /\ UNCHANGED address

\* Mutant: the containers are listed without the session's label.
WebRequestUnlabelled(t) ==
    /\ UNCHANGED <<sessionVars, address, target, outlived>>
    /\ \E s, o \in Sessions :
          \/ /\ W!StartBegin(t, s)
             /\ docker[o] = "running"
             /\ seen' = [seen EXCEPT ![t] = address[o]]
          \/ W!StatusBegin(t, s) /\ UNCHANGED seen

\* A request finds a running container and its address.
WebRequest(t) ==
    /\ UNCHANGED <<sessionVars, address, target, outlived>>
    /\ \E s \in Sessions :
          \/ /\ W!StartBegin(t, s)
             /\ docker[s] = "running"
             /\ seen' = [seen EXCEPT ![t] = address[s]]
          \/ W!StatusBegin(t, s) /\ UNCHANGED seen

\* The address is given to the listener that is opened at its end.
WebListen(t) ==
    /\ W!Listen(t)
    /\ target' = [target EXCEPT ![wreq'[t].new] = seen[t]]
    /\ outlived' = outlived \cup {k \in {wreq'[t].new} : t \in outlived}
    /\ UNCHANGED <<sessionVars, address, seen>>

\* Any other step of a request, of the shutdown in StopAllPiWebProxies or of an
\* accept loop ...
WebStep ==
    /\ \/ \E t \in WebHandlers : /\ W!StartStep(t) \/ W!StatusStep(t)
                                 /\ wreq'[t].pc # "lockAgain"
       \/ W!StopBegin \/ W!StopStep
       \/ \E k \in Socks : W!AcceptFails(k)
    /\ server' = "up"
    /\ Forget
    /\ UNCHANGED sessionVars

\* ... and a fatal error of one, which ends the session handlers too.
WebFatal ==
    /\ \/ \E t \in WebHandlers : W!StartStep(t) \/ W!StatusStep(t)
       \/ W!StopStep \/ W!MapRaceFatal
    /\ server = "up" /\ server' = "fatal"
    /\ S!HandlersDie
    /\ Forget

\* os.Exit(0) after the clean-up, or a kill at any moment; Docker starts the
\* process again, also after a fatal error.
ProcessEnds ==
    /\ W!Exit
    /\ IF server = "up" THEN S!HandlersDie ELSE UNCHANGED sessionVars
    /\ Forget

Next ==
    \/ SessionStep \/ ContainerDies
    \/ \E t \in WebHandlers : WebRequest(t) \/ WebListen(t)
    \/ WebStep \/ WebFatal \/ ProcessEnds

Spec == Init /\ [][Next]_vars

-----------------------------------------------------------------------------
(* Safety *)

\* A proxy that forwards to the container of another session than the one it was
\* opened for has outlived its own container: the address was another's by the
\* time, never when it was read, whatever starts, stops and ends meanwhile.
ForwardsToOwnUnlessOutlived ==
    \A k \in Socks, s \in Sessions :
        W!Open(k) /\ target[k] # NoAddress /\ address[s] = target[k]
            => sock[k].sess = s \/ k \in outlived

-----------------------------------------------------------------------------
(* What a comment says, and the code does not do *)

\* piweb.go:25 "an active TCP proxy forwarding external traffic to an agent
\* container's internal pi-web.dev port": the container is that of the session.
ForwardsToOwnContainer ==
    \A k \in Socks, s \in Sessions :
        W!Open(k) /\ target[k] # NoAddress /\ address[s] = target[k] => sock[k].sess = s
=============================================================================
