-------------------------- MODULE AgentHostProofs --------------------------
(***************************************************************************)
(* The components within the agent-runner, for all sets of sessions,       *)
(* container names, ports, listeners, addresses and goroutines: each step  *)
(* of the whole is a step of AgentSessions and of PiWebProxy, or none, so  *)
(* that what is proved of either holds of the whole; and a proxy forwards  *)
(* to the container whose address it was given for as long as it lives.    *)
(*                                                                         *)
(* WP and SP are W and S with their proofs.                                *)
(***************************************************************************)
EXTENDS AgentHost, TLAPS

USE HostAssumption

WP == INSTANCE PiWebProxyProofs WITH Threads <- WebHandlers, req <- wreq

\* The theorems cited here do not speak of drifted.
SP == INSTANCE AgentSessionsProofs WITH Threads <- Handlers, req <- sreq, drifted <- {}

\* The proxies of WP are those of W,
LEMMA SameProxies ==
    /\ W!Next <=> WP!Next
    /\ \A t \in WebHandlers :
          /\ W!StartStep(t) <=> WP!StartStep(t)
          /\ W!StatusStep(t) <=> WP!StatusStep(t)
          /\ W!Listen(t) <=> WP!Listen(t)
          /\ \A s \in Sessions : W!StartBegin(t, s) <=> WP!StartBegin(t, s)
          /\ \A s \in Sessions : W!StatusBegin(t, s) <=> WP!StatusBegin(t, s)
    /\ W!StopBegin <=> WP!StopBegin
    /\ W!StopStep <=> WP!StopStep
    /\ W!MapRaceFatal <=> WP!MapRaceFatal
    /\ \A k \in Socks : W!AcceptFails(k) <=> WP!AcceptFails(k)
  BY DEF W!Ports, W!StartPCs, W!NoRequest, W!Closed, W!NoStop, W!pc, W!Goto, W!Finish,
     W!Open, W!ProcessGone, W!FatalError, W!Fatal, W!Unlock, W!StartBegin, W!StartLock,
     W!FoundProxy, W!FoundNone, W!Healthy, W!Unhealthy, W!CloseOld, W!DeleteOld,
     W!StartUnlock, W!StartUnlockFatal, W!Bound, W!TryPort, W!CloseProbe, W!NextPort,
     W!NoPortFree, W!Launch, W!LaunchFails, W!Ready, W!NotReady, W!Referenced, W!Unused,
     W!Listen, W!ListenFails, W!RegisterLock, W!Register, W!RegisterFatal,
     W!FoundProxyFatal, W!StatusBegin, W!StatusLock, W!StatusUnlock, W!StatusFound,
     W!StatusUnlockFatal, W!StatusHealth, W!AcceptFails, W!StopBegin, W!StopLock,
     W!StopClose, W!StopDelete, W!StopLooped, W!StopUnlock, W!StopUnlockFatal,
     W!StopStep, W!Writers, W!Readers, W!MapRaceFatal, W!Exit, W!StartStep,
     W!StatusStep, W!Next, WP!Ports, WP!StartPCs, WP!NoRequest, WP!Closed, WP!NoStop,
     WP!pc, WP!Goto, WP!Finish, WP!Open, WP!ProcessGone, WP!FatalError, WP!Fatal,
     WP!Unlock, WP!StartBegin, WP!StartLock, WP!FoundProxy, WP!FoundNone, WP!Healthy,
     WP!Unhealthy, WP!CloseOld, WP!DeleteOld, WP!StartUnlock, WP!StartUnlockFatal,
     WP!Bound, WP!TryPort, WP!CloseProbe, WP!NextPort, WP!NoPortFree, WP!Launch,
     WP!LaunchFails, WP!Ready, WP!NotReady, WP!Referenced, WP!Unused, WP!Listen,
     WP!ListenFails, WP!RegisterLock, WP!Register, WP!RegisterFatal, WP!FoundProxyFatal,
     WP!StatusBegin, WP!StatusLock, WP!StatusUnlock, WP!StatusFound,
     WP!StatusUnlockFatal, WP!StatusHealth, WP!AcceptFails, WP!StopBegin, WP!StopLock,
     WP!StopClose, WP!StopDelete, WP!StopLooped, WP!StopUnlock, WP!StopUnlockFatal,
     WP!StopStep, WP!Writers, WP!Readers, WP!MapRaceFatal, WP!Exit, WP!StartStep,
     WP!StatusStep, WP!Next

\* and the sessions of SP those of S.
LEMMA SameSessions == (S!Next <=> SP!Next) /\ (S!Init <=> SP!Init)
  BY DEF S!Accepts, S!After, S!CallFails, S!CallLost, S!CallOk, S!CallRefused,
     S!CleanupExit, S!CleanupList, S!CleanupRemove, S!ContainerDies, S!ControlAct,
     S!Controls, S!Crash, S!CreateBegin, S!CreateContainer, S!CreateContainerFails,
     S!CreateRemoveName, S!CreateSave, S!CreateSaveFails, S!CreateStart, S!CreateUndo,
     S!DeleteRemove, S!DeleteRow, S!Exists, S!Finish, S!Goto, S!Handler, S!HandlersDie,
     S!Hurts, S!Init, S!List, S!ListBegin, S!ListFails, S!Namesakes, S!Next, S!NoCleanup,
     S!NoRequest, S!ReconnectStart, S!RequestOps, S!StatusAfter, S!TerminalStart,
     S!UpdateStatus, SP!Accepts, SP!After, SP!CallFails, SP!CallLost, SP!CallOk,
     SP!CallRefused, SP!CleanupExit, SP!CleanupList, SP!CleanupRemove, SP!ContainerDies,
     SP!ControlAct, SP!Controls, SP!Crash, SP!CreateBegin, SP!CreateContainer,
     SP!CreateContainerFails, SP!CreateRemoveName, SP!CreateSave, SP!CreateSaveFails,
     SP!CreateStart, SP!CreateUndo, SP!DeleteRemove, SP!DeleteRow, SP!Exists, SP!Finish,
     SP!Goto, SP!Handler, SP!HandlersDie, SP!Hurts, SP!Init, SP!List, SP!ListBegin,
     SP!ListFails, SP!Namesakes, SP!Next, SP!NoCleanup, SP!NoRequest, SP!ReconnectStart,
     SP!RequestOps, SP!StatusAfter, SP!TerminalStart, SP!UpdateStatus

\* What either assumes of its constants.
LEMMA Assumptions == WP!PiWebAssumption /\ SP!SessionsAssumption
  BY HostAssumption DEF WP!PiWebAssumption, WP!Ports, SP!SessionsAssumption

-----------------------------------------------------------------------------
(* The invariant *)

\* A container that runs or is paused has an address, and no two have the same.
Addressed ==
    /\ TypeOK
    /\ \A s \in Sessions : docker[s] \in Alive <=> address[s] # NoAddress
    /\ \A r, s \in Sessions : address[r] = address[s] /\ address[r] # NoAddress => r = s

\* What has not outlived its container has its address.
Remembered ==
    /\ \A t \in WebHandlers : wreq[t].pc \in WP!StartPCs /\ t \notin outlived =>
          seen[t] # NoAddress /\ address[wreq[t].sess] = seen[t]
    /\ \A k \in Socks : sock[k].port # NoPort /\ k \notin outlived =>
          /\ sock[k].sess \in Sessions
          /\ target[k] # NoAddress /\ address[sock[k].sess] = target[k]

\* Each component keeps its own invariant besides.
HInv == SP!IInv /\ WP!IInv /\ Addressed /\ Remembered

\* The agent-runner starts with all of it.
LEMMA HInvInit == Init => HInv
<1> SUFFICES ASSUME Init PROVE HInv
  OBVIOUS
<1>1. SP!IInv
  BY Assumptions, SameSessions, SP!InitInv DEF Init
<1>2. WP!Init
  BY DEF Init, W!Init, WP!Init, W!NoRequest, W!Closed, W!NoStop, WP!NoRequest, WP!Closed, WP!NoStop
<1>3. WP!IInv
  BY <1>2, Assumptions, WP!InitIInv
<1>4. Addressed
  BY DEF Init, S!Init, Addressed, TypeOK, Alive
<1>5. Remembered
  BY <1>2 DEF WP!Init, WP!NoRequest, WP!Closed, WP!StartPCs, Remembered
<1> QED
  BY <1>1, <1>3, <1>4, <1>5 DEF HInv

-----------------------------------------------------------------------------
(* What each step of the whole is to its parts *)

\* The end of the process is an end of the session handlers, if there was
\* anything to end.
LEMMA GoneIsCrash ==
  ASSUME HInv, S!HandlersDie
  PROVE  S!Crash \/ UNCHANGED sessionVars
<1>1. CASE cleanup.on \/ \E t \in Handlers : sreq[t].pc # "idle"
  BY <1>1 DEF S!Crash
<1>2. CASE ~cleanup.on /\ \A t \in Handlers : sreq[t].pc = "idle"
  <2>1. /\ \A t \in Handlers : sreq[t] = SP!NoRequest
        /\ cleanup = SP!NoCleanup
        /\ DOMAIN sreq = Handlers /\ sreq = [t \in Handlers |-> sreq[t]]
    BY <1>2 DEF HInv, SP!IInv, SP!TypeInv, SP!Placed, SP!pc, SP!TypeOK
  <2>2. S!NoRequest = SP!NoRequest /\ S!NoCleanup = SP!NoCleanup
    BY DEF S!NoRequest, SP!NoRequest, S!NoCleanup, SP!NoCleanup
  <2>3. sreq' = sreq /\ cleanup' = cleanup
    BY <2>1, <2>2 DEF S!HandlersDie
  <2>4. {sreq[t].sess : t \in Handlers} \ {NoSession} = {}
    BY <2>1 DEF SP!NoRequest
  <2>5. QED
    BY <2>3, <2>4 DEF S!HandlersDie, sessionVars
<1>3. QED
  BY <1>1, <1>2

\* Of the session handlers, it is a step, or none.
LEMMA SessionsStep ==
  ASSUME HInv, [Next]_vars
  PROVE  S!Next \/ UNCHANGED sessionVars
<1>1. CASE SessionStep
  BY <1>1 DEF SessionStep, S!Next
<1>2. CASE ContainerDies
  BY <1>2 DEF ContainerDies, S!Next
<1>3. CASE WebStep
  BY <1>3 DEF WebStep
<1>4. CASE WebFatal \/ ProcessEnds
  BY <1>4, GoneIsCrash DEF WebFatal, ProcessEnds, S!Next
<1>5. ASSUME NEW t \in WebHandlers, WebRequest(t) \/ WebListen(t)
      PROVE  UNCHANGED sessionVars
  BY <1>5 DEF WebRequest, WebListen, sessionVars
<1>6. CASE UNCHANGED vars
  BY <1>6 DEF vars
<1> QED
  BY <1>1, <1>2, <1>3, <1>4, <1>5, <1>6 DEF Next

\* So the sessions' invariant holds on, and one container moves at most.
LEMMA SessionsKeep ==
  ASSUME HInv, [Next]_vars
  PROVE  SP!IInv' /\ SP!OneMoves
<1>1. [SP!Next]_(SP!vars)
  BY SessionsStep, SameSessions DEF sessionVars, SP!vars
<1> QED
  BY <1>1, Assumptions, SP!InvStep, SP!OneContainer DEF HInv, SP!IInv

\* Of the proxies, it is a step, or none.
LEMMA ProxiesKeep ==
  ASSUME HInv, [Next]_vars
  PROVE  WP!IInv'
<1>1. SessionStep \/ ContainerDies => UNCHANGED webVars
  BY DEF SessionStep, ContainerDies, ContainersMove
<1>2. ASSUME NEW t \in WebHandlers, WebRequest(t) \/ WebListen(t)
      PROVE  W!Next
  BY <1>2 DEF WebRequest, WebListen, W!Next, W!StartStep
<1>3. WebStep \/ WebFatal \/ ProcessEnds => W!Next
  BY DEF WebStep, WebFatal, ProcessEnds, W!Next
<1>4. W!Next \/ UNCHANGED webVars
  BY <1>1, <1>2, <1>3 DEF Next, vars
<1>5. [WP!Next]_(WP!vars)
  BY <1>4, SameProxies DEF webVars, WP!vars
<1> QED
  BY <1>5, Assumptions, WP!NextIInv DEF HInv

-----------------------------------------------------------------------------
(* Addresses *)

\* A container that starts gets an address of its own, one that ends loses it,
\* and the requests and the listeners of its session outlive it.
LEMMA MoveAddresses ==
  ASSUME HInv, ContainersMove, SP!OneMoves
  PROVE  Addressed' /\ Remembered'
<1>1. PICK a \in IF Born = {} THEN {NoAddress} ELSE Free :
        address' = [s \in Sessions |->
            IF s \in Born THEN a ELSE IF docker'[s] \in Alive THEN address[s] ELSE NoAddress]
  BY DEF ContainersMove, Readdress
<1>2. Born # {} => a \in Addresses /\ a # NoAddress /\ \A s \in Sessions : address[s] # a
  BY <1>1, HostAssumption DEF Free
<1>3. \A r, s \in Born : r = s
  BY DEF SP!OneMoves, Born
<1>4. \A s \in Sessions : address'[s] =
        IF s \in Born THEN a ELSE IF docker'[s] \in Alive THEN address[s] ELSE NoAddress
  BY <1>1
<1>5. TypeOK'
  <2>1. address' \in [Sessions -> Addresses \cup {NoAddress}]
    BY <1>1, <1>2 DEF HInv, Addressed, TypeOK
  <2>2. outlived' \subseteq WebHandlers \cup Socks /\ seen' = seen /\ target' = target
    BY DEF ContainersMove, HInv, Addressed, TypeOK
  <2> QED
    BY <2>1, <2>2 DEF HInv, Addressed, TypeOK
<1>6. \A s \in Sessions : docker'[s] \in Alive <=> address'[s] # NoAddress
  BY <1>2, <1>4 DEF HInv, Addressed, Born
<1>7. \A r, s \in Sessions : address'[r] = address'[s] /\ address'[r] # NoAddress => r = s
  BY <1>2, <1>3, <1>4 DEF HInv, Addressed
<1>8. Addressed'
  BY <1>5, <1>6, <1>7 DEF Addressed
<1>9. \A s \in Sessions : address[s] # NoAddress /\ s \notin Ended => address'[s] = address[s]
  BY <1>4 DEF HInv, Addressed, Born, Ended
<1>10. \A t \in WebHandlers : wreq[t].pc \in WP!StartPCs => wreq[t].sess \in Sessions
  BY DEF HInv, WP!IInv, WP!RequestInv, WP!pc, WP!StartPCs
<1>11. UNCHANGED <<wreq, sock, seen, target>>
  BY DEF ContainersMove, webVars
<1>12. outlived' = outlived \cup {t \in WebHandlers : seen[t] # NoAddress /\ wreq[t].sess \in Ended}
                           \cup {k \in Socks : sock[k].sess \in Ended}
  BY DEF ContainersMove
<1>13. Remembered'
  BY <1>9, <1>10, <1>11, <1>12 DEF HInv, Remembered
<1> QED
  BY <1>8, <1>13

\* A request reads the address of its session's container,
LEMMA RequestAddresses ==
  ASSUME HInv, NEW t \in WebHandlers, WebRequest(t)
  PROVE  Addressed' /\ Remembered'
<1>1. UNCHANGED <<docker, address, target, outlived>>
  BY DEF WebRequest, sessionVars
<1>2. PICK s \in Sessions :
        \/ /\ W!StartBegin(t, s) /\ docker[s] = "running"
           /\ seen' = [seen EXCEPT ![t] = address[s]]
        \/ W!StatusBegin(t, s) /\ UNCHANGED seen
  BY DEF WebRequest
<1>3. /\ UNCHANGED sock
      /\ \A u \in WebHandlers \ {t} : wreq'[u] = wreq[u]
      /\ wreq'[t].sess = s
  BY <1>2 DEF W!StartBegin, W!StatusBegin, HInv, WP!IInv, WP!TypeOK, WP!RequestRecord
<1>4. CASE W!StartBegin(t, s) /\ docker[s] = "running" /\ seen' = [seen EXCEPT ![t] = address[s]]
  <2>1. /\ address[s] # NoAddress /\ address[s] \in Addresses
        /\ \A u \in WebHandlers : seen'[u] = IF u = t THEN address[s] ELSE seen[u]
    BY <1>4 DEF HInv, Addressed, TypeOK, Alive
  <2>2. Addressed'
    BY <1>1, <1>4, <2>1 DEF HInv, Addressed, TypeOK
  <2>3. Remembered'
    BY <1>1, <1>3, <2>1 DEF HInv, Remembered
  <2> QED
    BY <2>2, <2>3
<1>5. CASE W!StatusBegin(t, s) /\ UNCHANGED seen
  <2>1. wreq'[t].pc \notin WP!StartPCs
    BY <1>5 DEF W!StatusBegin, WP!StartPCs, HInv, WP!IInv, WP!TypeOK, WP!RequestRecord
  <2>2. Addressed'
    BY <1>1, <1>5 DEF HInv, Addressed, TypeOK
  <2>3. Remembered'
    BY <1>1, <1>3, <1>5, <2>1 DEF HInv, Remembered
  <2> QED
    BY <2>2, <2>3
<1> QED
  BY <1>2, <1>4, <1>5

\* gives it to the listener it opens,
LEMMA ListenAddresses ==
  ASSUME HInv, NEW t \in WebHandlers, WebListen(t)
  PROVE  Addressed' /\ Remembered'
<1> DEFINE k == wreq'[t].new
<1>1. WP!Listen(t)
  BY SameProxies DEF WebListen
<1>2. /\ wreq[t].pc \in WP!StartPCs /\ wreq[t].sess \in Sessions
      /\ wreq'[t].pc \in WP!StartPCs /\ wreq'[t].sess = wreq[t].sess /\ k \in Socks
      /\ sock'[k].sess = wreq[t].sess
      /\ \A u \in WebHandlers \ {t} : wreq'[u] = wreq[u]
      /\ \A l \in Socks \ {k} : sock'[l] = sock[l]
  BY <1>1, Assumptions, WP!ListenOpens DEF HInv, WP!pc
<1>3. /\ target' = [target EXCEPT ![k] = seen[t]]
      /\ outlived' = outlived \cup {l \in {k} : t \in outlived}
      /\ UNCHANGED <<docker, address, seen>>
  BY DEF WebListen, sessionVars
<1> HIDE DEF k
<1>4. \A l \in Socks : target'[l] = IF l = k THEN seen[t] ELSE target[l]
  BY <1>2, <1>3 DEF HInv, Addressed, TypeOK
<1>5. Addressed'
  <2>1. target' \in [Socks -> Addresses \cup {NoAddress}] /\ outlived' \subseteq WebHandlers \cup Socks
    BY <1>2, <1>3 DEF HInv, Addressed, TypeOK
  <2> QED
    BY <1>3, <2>1 DEF HInv, Addressed, TypeOK
<1>6. /\ k \notin outlived' => t \notin outlived
      /\ \A x : x \notin outlived' => x \notin outlived
  BY <1>3
<1>7. Remembered'
  BY <1>2, <1>3, <1>4, <1>6 DEF HInv, Remembered
<1> QED
  BY <1>5, <1>7

\* and nothing else changes what either has.
LEMMA ForgetAddresses ==
  ASSUME HInv, Forget, UNCHANGED docker, WP!Kept
  PROVE  Addressed' /\ Remembered'
<1>1. /\ \A t \in WebHandlers : wreq'[t].pc # "idle" =>
            seen'[t] = seen[t] /\ (t \notin outlived' => t \notin outlived)
      /\ \A k \in Socks : sock'[k].port # NoPort =>
            target'[k] = target[k] /\ (k \notin outlived' => k \notin outlived)
      /\ UNCHANGED address
  BY HostAssumption DEF Forget
<1>2. Addressed'
  BY DEF Forget, HInv, Addressed, TypeOK
<1>3. \A t \in WebHandlers : wreq'[t].pc \in WP!StartPCs =>
        wreq[t].pc \in WP!StartPCs /\ wreq'[t].sess = wreq[t].sess /\ wreq'[t].pc # "idle"
  BY DEF WP!Kept, WP!StartPCs
<1>4. \A k \in Socks : sock'[k].port # NoPort =>
        sock[k].port = sock'[k].port /\ sock'[k].sess = sock[k].sess
  BY DEF WP!Kept
<1>5. Remembered'
  BY <1>1, <1>3, <1>4 DEF HInv, Remembered
<1> QED
  BY <1>2, <1>5

LEMMA HInvStep ==
  ASSUME HInv, [Next]_vars
  PROVE  HInv'
<1>1. ASSUME SessionStep \/ ContainerDies PROVE Addressed' /\ Remembered'
  BY <1>1, SessionsKeep, MoveAddresses DEF SessionStep, ContainerDies
<1>2. ASSUME NEW t \in WebHandlers, WebRequest(t) \/ WebListen(t)
      PROVE  Addressed' /\ Remembered'
  BY <1>2, RequestAddresses, ListenAddresses
<1>3. ASSUME WebStep PROVE Addressed' /\ Remembered'
  <2>1. Forget /\ UNCHANGED docker
    BY <1>3 DEF WebStep, sessionVars
  <2>2. ASSUME NEW t \in WebHandlers, W!StartStep(t), wreq'[t].pc # "lockAgain"
        PROVE  WP!Kept
    <3>1. ~WP!Listen(t)
      BY <2>2 DEF WP!Listen, HInv, WP!IInv, WP!TypeOK, WP!RequestRecord
    <3> QED
      BY <2>2, <3>1, SameProxies, Assumptions, WP!StartKept DEF HInv
  <2>3. ASSUME \/ \E t \in WebHandlers : W!StatusStep(t)
               \/ W!StopBegin \/ W!StopStep
               \/ \E k \in Socks : W!AcceptFails(k)
        PROVE  WP!Kept
    BY <2>3, SameProxies, Assumptions, WP!RestKept DEF HInv
  <2> QED
    BY <1>3, <2>1, <2>2, <2>3, ForgetAddresses DEF WebStep
<1>4. ASSUME WebFatal PROVE Addressed' /\ Remembered'
  <2>1. Forget /\ UNCHANGED docker
    BY <1>4 DEF WebFatal, S!HandlersDie
  <2>2. ASSUME NEW t \in WebHandlers, W!StartStep(t), server' = "fatal"
        PROVE  WP!Kept
    <3>1. ~WP!Listen(t)
      BY <1>4, <2>2 DEF WebFatal, WP!Listen
    <3> QED
      BY <2>2, <3>1, SameProxies, Assumptions, WP!StartKept DEF HInv
  <2>3. ASSUME \/ \E t \in WebHandlers : W!StatusStep(t)
               \/ W!StopStep \/ W!MapRaceFatal
        PROVE  WP!Kept
    BY <2>3, SameProxies, Assumptions, WP!RestKept DEF HInv
  <2> QED
    BY <1>4, <2>1, <2>2, <2>3, ForgetAddresses DEF WebFatal
<1>5. ASSUME ProcessEnds PROVE Addressed' /\ Remembered'
  <2>1. Forget /\ UNCHANGED docker
    BY <1>5 DEF ProcessEnds, S!HandlersDie, sessionVars
  <2>2. WP!Kept
    BY <1>5 DEF ProcessEnds, W!Exit, W!ProcessGone, W!Closed, W!NoRequest, WP!Kept, WP!StartPCs
  <2> QED
    BY <2>1, <2>2, ForgetAddresses
<1>6. ASSUME UNCHANGED vars PROVE Addressed' /\ Remembered'
  BY <1>6 DEF vars, sessionVars, webVars, hostVars, HInv, Addressed, Remembered, TypeOK
<1>7. Addressed' /\ Remembered'
  BY <1>1, <1>2, <1>3, <1>4, <1>5, <1>6 DEF Next
<1> QED
  BY <1>7, SessionsKeep, ProxiesKeep DEF HInv

\* The invariant holds of every state of the agent-runner.
THEOREM Invariance == Spec => []HInv
<1>1. HInv /\ [Next]_vars => HInv'
  BY HInvStep
<1> QED
  BY <1>1, HInvInit, PTL DEF Spec

-----------------------------------------------------------------------------
(* What the whole promises *)

\* Addresses, and what the proxies have of them, are well formed.
THEOREM TypeCorrect == Spec => []TypeOK
<1>1. HInv => TypeOK
  BY DEF HInv, Addressed
<1> QED
  BY <1>1, Invariance, PTL

\* A proxy reaches another session's container only if its own has ended since
\* the address was read for it.
THEOREM ForwardsToOwn == Spec => []ForwardsToOwnUnlessOutlived
<1>1. HInv => ForwardsToOwnUnlessOutlived
  BY DEF HInv, Addressed, Remembered, ForwardsToOwnUnlessOutlived, W!Open
<1> QED
  BY <1>1, Invariance, PTL

\* The agent-runner, proxies and shutdown and all, does with sessions, rows,
\* containers and workspaces what AgentSessions allows: the end of the process
\* from a proxy's fatal error is one of its crashes.
THEOREM ImplementsSessions == Spec => S!Spec
<1>1. Init => S!Init
  BY DEF Init
<1>2. HInv /\ [Next]_vars => [S!Next]_(S!vars)
  BY SessionsStep DEF sessionVars, S!vars
<1> QED
  BY <1>1, <1>2, Invariance, PTL DEF Spec, S!Spec

\* The workspace of a saved session is there for good, and no container is left
\* unexplained, also when a proxy's fatal error ends the session handlers.
THEOREM SessionsSafe ==
  Spec => [](S!SavedWorkspaceSurvives /\ S!NoUnexplainedLeak)
<1>1. HInv => S!SavedWorkspaceSurvives /\ S!NoUnexplainedLeak
  BY DEF HInv, SP!IInv, SP!GoneInv, SP!SavedWorkspaceSurvives,
     SP!Exists, SP!pc, SP!sess, S!SavedWorkspaceSurvives, S!NoUnexplainedLeak, S!Exists
<1> QED
  BY <1>1, Invariance, PTL

\* A session that has been deleted stays deleted, whatever step of the whole follows.
THEOREM DeletedStays == Spec => S!DeletedStaysDeleted
<1>1. HInv /\ [Next]_vars =>
        [\A s \in known : row[s] = "none" => row'[s] = "none"]_(S!vars)
  <2>1. SUFFICES ASSUME HInv, [Next]_vars, NEW s \in known, row[s] = "none"
                 PROVE  row'[s] = "none"
    OBVIOUS
  <2>2. [SP!Next]_(SP!vars)
    BY <2>1, SessionsStep, SameSessions DEF sessionVars, SP!vars
  <2>3. QED
    BY <2>1, <2>2, Assumptions, SP!DeletedStep DEF HInv
<1>2. QED
  BY <1>1, Invariance, PTL DEF Spec, S!DeletedStaysDeleted

\* What the shutdown has removed stays removed, unless a reconnect is at work.
THEOREM RemovalsHold == Spec => S!ShutdownRemovalsHold
<1>1. HInv /\ [Next]_vars =>
        [\A s \in cleanup.listed : ~S!Exists(s) /\ S!Exists(s)' =>
            \E t \in Handlers : sreq[t].op = "reconnect" /\ sreq[t].sess = s]_(S!vars)
  <2> SUFFICES ASSUME HInv, [Next]_vars, NEW s \in cleanup.listed,
                      ~S!Exists(s), S!Exists(s)'
               PROVE  \E t \in Handlers : sreq[t].op = "reconnect" /\ sreq[t].sess = s
    OBVIOUS
  <2>1. [SP!Next]_(SP!vars)
    BY SessionsStep, SameSessions DEF sessionVars, SP!vars
  <2> QED
    BY <2>1, Assumptions, SP!ListedStep DEF HInv, S!Exists, SP!Exists
<1> QED
  BY <1>1, Invariance, PTL DEF Spec, S!ShutdownRemovalsHold

\* A registered proxy is open, but for the moment in which it is taken down, and
\* a listener is lost only by overlapping starts or in a shutdown, whatever the
\* containers and the session handlers do.
THEOREM ProxiesSafe == Spec => [](W!RegisteredIsOpen /\ W!LeakNeedsOverlap)
<1>1. HInv => W!RegisteredIsOpen /\ W!LeakNeedsOverlap
  BY DEF HInv, WP!IInv, WP!RegisteredIsOpen, WP!LeakNeedsOverlap, WP!ShutDown,
     WP!Open, WP!pc, WP!Referenced, W!RegisteredIsOpen, W!ShutDown,
     W!LeakNeedsOverlap, W!Open, W!pc, W!Referenced
<1> QED
  BY <1>1, Invariance, PTL
=============================================================================
