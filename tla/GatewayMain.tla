----------------------------- MODULE GatewayMain -----------------------------
(***************************************************************************)
(* The life of the llm-gateway process (cmd/main.go): it registers its     *)
(* models, listens, loads the default model through its own HTTP API,      *)
(* serves chats, and ends at a signal.                                     *)
(*                                                                         *)
(* Loads go through the abstract ModelLoader, which the handlers implement *)
(* (GatewayLoader), and the load semaphore.  Reading the configuration has *)
(* happened when a behaviour begins.  Default is an id: the suffixes that  *)
(* Registry.Get accepts are in ModelRegistry.                              *)
(***************************************************************************)
EXTENDS ModelCatalogue

CONSTANTS
    NoModel,
    Default,    \* cfg.DefaultModel, or NoModel if it is empty
    Attempts,   \* of the auto-load: 30 in the code
    Clients,    \* others who chat with local models
    AutoLoader, \* the auto-load
    Nobody

ASSUME MainAssumption ==
    /\ NoModel \notin Ids /\ Default \in Ids \cup {NoModel}
    /\ Attempts \in Nat \ {0}
    /\ AutoLoader \notin Clients /\ Nobody \notin Clients \cup {AutoLoader}

VARIABLES
    status, active, loading, current,   \* the abstract loader
    sem,        \* who holds Server.llamaMu
    auto,       \* the auto-load and its request: [pc, tries]
    chat,       \* [Clients -> [pc, model]]
    server,     \* httpServer and the process
    signalled,  \* SIGINT or SIGTERM has come
    grace       \* the ten seconds that Shutdown is given are not over

Loader == INSTANCE ModelLoader WITH Models <- Ids

loaderVars == <<status, active, loading, current>>
vars == <<catalogueVars, loaderVars, sem, auto, chat, server, signalled, grace>>

TypeOK ==
    /\ CatalogueTypeOK
    /\ status \in [Ids -> {"unloaded", "loading", "ready", "error"}]
    /\ {active, loading, current} \subseteq Ids \cup {NoModel}
    /\ sem \in Clients \cup {AutoLoader, Nobody}
    /\ auto \in [pc : {"off", "sleep", "check", "acquire", "begin", "load", "loaded", "failed"},
                 tries : 0..Attempts]
    /\ auto.pc = "sleep" => auto.tries < Attempts
    /\ chat \in [Clients -> [pc : {"idle", "acquire", "recheck", "load", "proxy"},
                             model : Ids \cup {NoModel}]]
    /\ server \in {"booting", "starting", "serving", "closed", "exited"}
    /\ {signalled, grace} \subseteq BOOLEAN

Init ==
    /\ CatalogueInit
    /\ status = [m \in Ids |-> "unloaded"]
    /\ active = NoModel /\ loading = NoModel /\ current = NoModel
    /\ sem = Nobody
    /\ auto = [pc |-> "off", tries |-> 0]
    /\ chat = [c \in Clients |-> [pc |-> "idle", model |-> NoModel]]
    /\ server = "booting"
    /\ signalled = FALSE
    /\ grace = TRUE

-----------------------------------------------------------------------------
(* The start *)

\* Local models are filed as unloaded, remote ones as ready.
Register ==
    /\ server = "booting"
    /\ Scan \/ registerRemoteModels
    /\ status' = [id \in Ids |-> IF models'[id] = "remote" THEN "ready" ELSE "unloaded"]
    /\ UNCHANGED <<active, loading, current, sem, auto, chat, server, signalled, grace>>

\* The auto-load waits for a model that the registry knows, and the signals are
\* asked for.
Ready ==
    /\ server = "booting"
    /\ Registered
    /\ server' = "starting"
    /\ auto' = IF Default # NoModel /\ models[Default] # "none"
               THEN [auto EXCEPT !.pc = "sleep"] ELSE auto
    /\ UNCHANGED <<catalogueVars, loaderVars, sem, chat, signalled, grace>>

-----------------------------------------------------------------------------
(* The auto-load *)

AutoGoto(from, to) == auto.pc = from /\ auto' = [auto EXCEPT !.pc = to]

\* Mutant: only attempts that fail are counted, not those refused with 409.
RetryUncounted(from) ==
    /\ auto.pc = from
    /\ LET tries == IF from = "check" THEN auto.tries ELSE auto.tries + 1
       IN  auto' = [pc |-> IF tries = Attempts THEN "failed" ELSE "sleep", tries |-> tries]

\* Mutant: i <= 30.
RetryOnceMore(from) ==
    /\ auto.pc = from
    /\ auto' = [pc |-> IF auto.tries = Attempts THEN "failed" ELSE "sleep",
                tries |-> auto.tries + 1]

\* Any answer but 200, or none: the next attempt, or "Failed to auto-load".
Retry(from) ==
    /\ auto.pc = from
    /\ auto' = [pc |-> IF auto.tries + 1 = Attempts THEN "failed" ELSE "sleep",
                tries |-> auto.tries + 1]

\* A second later: POST /v1/models/<default>/load.
AutoPost ==
    /\ server = "serving"
    /\ AutoGoto("sleep", "check")
    /\ UNCHANGED <<catalogueVars, loaderVars, sem, chat, server, signalled, grace>>

AutoPostFails ==
    /\ server # "serving"
    /\ Retry("sleep")
    /\ UNCHANGED <<catalogueVars, loaderVars, sem, chat, server, signalled, grace>>

\* handleLoadModel: 400 for a remote model, 409 for one that is ready ...
AutoCheck ==
    /\ auto.pc = "check"
    /\ IF models[Default] # "local" \/ status[Default] = "ready"
       THEN Retry("check") ELSE AutoGoto("check", "acquire")
    /\ UNCHANGED <<catalogueVars, loaderVars, sem, chat, server, signalled, grace>>

\* ... and for a semaphore that is taken.
AutoTryAcquire ==
    /\ IF sem = Nobody
       THEN AutoGoto("acquire", "begin") /\ sem' = AutoLoader
       ELSE Retry("acquire") /\ UNCHANGED sem
    /\ UNCHANGED <<catalogueVars, loaderVars, chat, server, signalled, grace>>

AutoBegin ==
    /\ AutoGoto("begin", "load")
    /\ Loader!BeginLoad(Default)
    /\ UNCHANGED <<catalogueVars, sem, chat, server, signalled, grace>>

\* 200, or 500.
AutoAnswered ==
    /\ auto.pc = "load"
    /\ loading = NoModel
    /\ IF status[Default] = "ready" THEN AutoGoto("load", "loaded") ELSE Retry("load")
    /\ sem' = Nobody
    /\ UNCHANGED <<catalogueVars, loaderVars, chat, server, signalled, grace>>

AutoStep ==
    /\ server # "exited"
    /\ AutoPost \/ AutoPostFails \/ AutoCheck \/ AutoTryAcquire \/ AutoBegin \/ AutoAnswered

-----------------------------------------------------------------------------
(* Chats, for what they do to the loader *)

ChatGoto(c, from, to) == chat[c].pc = from /\ chat' = [chat EXCEPT ![c].pc = to]

ChatArrives(c, m) ==
    /\ server = "serving"
    /\ models[m] = "local"
    /\ chat[c].pc = "idle"
    /\ chat' = [chat EXCEPT ![c] =
                   [pc |-> IF status[m] = "ready" THEN "proxy" ELSE "acquire", model |-> m]]
    /\ UNCHANGED <<catalogueVars, loaderVars, sem, auto, server, signalled, grace>>

ChatAcquire(c) ==
    /\ sem = Nobody
    /\ ChatGoto(c, "acquire", "recheck")
    /\ sem' = c
    /\ UNCHANGED <<catalogueVars, loaderVars, auto, server, signalled, grace>>

ChatRecheck(c) ==
    /\ chat[c].pc = "recheck"
    /\ IF status[chat[c].model] = "ready"
       THEN ChatGoto(c, "recheck", "proxy") /\ sem' = Nobody /\ UNCHANGED loaderVars
       ELSE ChatGoto(c, "recheck", "load") /\ Loader!BeginLoad(chat[c].model) /\ UNCHANGED sem
    /\ UNCHANGED <<catalogueVars, auto, server, signalled, grace>>

ChatLoaded(c) ==
    /\ chat[c].pc = "load"
    /\ loading = NoModel
    /\ IF status[chat[c].model] = "ready" THEN ChatGoto(c, "load", "proxy")
                                          ELSE ChatGoto(c, "load", "idle")
    /\ sem' = Nobody
    /\ UNCHANGED <<catalogueVars, loaderVars, auto, server, signalled, grace>>

\* The answer has been sent: after minutes, for a stream.
ChatEnds(c) ==
    /\ ChatGoto(c, "proxy", "idle")
    /\ UNCHANGED <<catalogueVars, loaderVars, sem, auto, server, signalled, grace>>

ChatStep(c) == server # "exited" /\ (ChatAcquire(c) \/ ChatRecheck(c) \/ ChatLoaded(c))

\* The load that is under way goes on, and ends by itself.
LoaderStep ==
    /\ server # "exited"
    /\ Loader!Launch \/ Loader!Succeed \/ Loader!Fail \/ Loader!GiveUp
    /\ UNCHANGED <<catalogueVars, sem, auto, chat, server, signalled, grace>>

-----------------------------------------------------------------------------
(* The server and the process *)

Listen ==
    /\ server = "starting"
    /\ server' = "serving"
    /\ UNCHANGED <<catalogueVars, loaderVars, sem, auto, chat, signalled, grace>>

\* The address is taken: log.Fatalf.
ListenFails ==
    /\ server = "starting"
    /\ server' = "exited"
    /\ UNCHANGED <<catalogueVars, loaderVars, sem, auto, chat, signalled, grace>>

\* Before signal.Notify a signal has its default effect, and afterwards it is
\* for the shutdown goroutine.
Signal ==
    /\ server # "exited"
    /\ ~signalled
    /\ signalled' = TRUE
    /\ server' = IF server = "booting" THEN "exited" ELSE server
    /\ UNCHANGED <<catalogueVars, loaderVars, sem, auto, chat, grace>>

\* The active model is logged, nothing else; Shutdown closes the listener, and
\* ListenAndServe returns at once, or as soon as it is called.
Shutdown ==
    /\ signalled
    /\ server \in {"starting", "serving"}
    /\ server' = "closed"
    /\ UNCHANGED <<catalogueVars, loaderVars, sem, auto, chat, signalled, grace>>

Idle == auto.pc \in {"off", "sleep", "loaded", "failed"} /\ \A c \in Clients : chat[c].pc = "idle"

\* Mutant: main waits for the requests in flight, for as long as they take.
MainWaits ==
    /\ server = "closed"
    /\ Idle
    /\ server' = "exited"
    /\ UNCHANGED <<catalogueVars, loaderVars, sem, auto, chat, signalled, grace>>

\* main returns, whatever Shutdown waits for in its goroutine, and takes every
\* other goroutine with it.
MainReturns ==
    /\ server = "closed"
    /\ server' = "exited"
    /\ UNCHANGED <<catalogueVars, loaderVars, sem, auto, chat, signalled, grace>>

GraceOver ==
    /\ server = "closed"
    /\ grace
    /\ grace' = FALSE
    /\ UNCHANGED <<catalogueVars, loaderVars, sem, auto, chat, server, signalled>>

Next ==
    \/ Register \/ Ready
    \/ AutoStep \/ LoaderStep
    \/ \E c \in Clients : \/ ChatStep(c)
                          \/ server # "exited" /\ ChatEnds(c)
                          \/ \E m \in Ids : ChatArrives(c, m)
    \/ Listen \/ ListenFails \/ Signal \/ Shutdown \/ GraceOver \/ MainReturns

Spec == Init /\ [][Next]_vars

\* Goroutines run and a load ends (LlamaGateway); an answer need not.
FairSpec ==
    /\ Spec
    /\ WF_vars(AutoStep) /\ WF_vars(LoaderStep) /\ \A c \in Clients : WF_vars(ChatStep(c))
    /\ WF_vars(Register \/ Ready \/ Listen \/ ListenFails \/ Shutdown) /\ WF_vars(MainReturns)

-----------------------------------------------------------------------------
(* Liveness, under FairSpec *)

\* The goroutine of the auto-load ends, however often it finds somebody else's
\* load in its way and whoever has loaded its model.
AutoLoadEnds ==
    auto.pc = "sleep" ~> auto.pc \in {"loaded", "failed"} \/ server = "exited"

\* A signal ends the process, although streams may go on for ever.
SignalEnds == signalled ~> server = "exited"

-----------------------------------------------------------------------------
(* What the comments and the log say, and the code does not do *)

\* main.go:92 "Failed to auto-load model %s after 30s" is not said of a model
\* that is loaded; :88 has "409 = already loading/loaded".
FailedIsNotLoaded ==
    [][auto'.pc = "failed" /\ auto.pc # "failed" /\ models[Default] = "local"
           => status[Default] # "ready"]_vars

\* main.go:97 "Graceful shutdown", with ten seconds for it (:110): before they
\* are over, the process does not end in the middle of a request.
RequestsDrained == [][server = "closed" /\ server' = "exited" => Idle \/ ~grace]_vars

\* main.go:105 "Unload any active model": no model is active when the process
\* ends by a signal.
ActiveUnloaded == [][server = "closed" /\ server' = "exited" => active = NoModel]_vars
=============================================================================
