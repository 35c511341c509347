---------------------------- MODULE ModelLoader ----------------------------
(***************************************************************************)
(* What the llm-gateway promises about loading local models, without the   *)
(* requests, locks and processes it takes: one model is loaded at a time,  *)
(* what is filed as loading is what is being loaded, a model is filed as   *)
(* ready and active only with its own process in the pointer, and a failed *)
(* load leaves no process there.                                           *)
(*                                                                         *)
(* GatewayLoader shows that chats and loads (handlers.go handleLoadModel,  *)
(* loadModel) implement it.  Unloads and deletes do not: they clear the    *)
(* pointer whether or not a load is under way.                             *)
(***************************************************************************)
CONSTANTS
    Models,     \* ids in the catalogue
    NoModel     \* none of them

VARIABLES
    status,     \* [Models -> status]: what GET /models shows
    active,     \* the model the registry calls active
    loading,    \* the model being loaded
    current     \* the model whose process Server.llama points at

loaderVars == <<status, active, loading, current>>

Init ==
    /\ status \in [Models -> {"ready", "unloaded"}]
    /\ active = NoModel
    /\ loading = NoModel
    /\ current = NoModel

\* A model may be loaded again, the active one too.
BeginLoad(m) ==
    /\ loading = NoModel
    /\ loading' = m
    /\ status' = [status EXCEPT ![m] = "loading"]
    /\ UNCHANGED <<active, current>>

\* The process of the model before it is replaced.
Launch ==
    /\ loading # NoModel
    /\ status[loading] = "loading"
    /\ current' = loading
    /\ UNCHANGED <<status, active, loading>>

Succeed ==
    /\ loading # NoModel
    /\ status[loading] = "loading"
    /\ current = loading
    /\ status' = [status EXCEPT ![loading] = "ready"]
    /\ active' = loading
    /\ loading' = NoModel
    /\ UNCHANGED current

Fail ==
    /\ loading # NoModel
    /\ status[loading] = "loading"
    /\ current = loading
    /\ status' = [status EXCEPT ![loading] = "error"]
    /\ active' = IF active = loading THEN NoModel ELSE active
    /\ UNCHANGED <<loading, current>>

\* The process of a failed load is dropped; only then may another load begin.
GiveUp ==
    /\ loading # NoModel
    /\ status[loading] = "error"
    /\ current' = NoModel
    /\ loading' = NoModel
    /\ UNCHANGED <<status, active>>

Next == (\E m \in Models : BeginLoad(m)) \/ Launch \/ Succeed \/ Fail \/ GiveUp

Spec == Init /\ [][Next]_loaderVars

-----------------------------------------------------------------------------
\* Between loads a process in the pointer is one of the active model, which is
\* filed as ready (handlers.go:467, SetStatus after Start).
CurrentIsActive ==
    loading = NoModel /\ current # NoModel => current = active /\ status[current] = "ready"

\* A model that is being loaded is filed as loading, or as failed on its way
\* out, and no other model is filed as loading.
LoadingIsFiled ==
    /\ loading # NoModel => status[loading] \in {"loading", "error"}
    /\ \A m \in Models : status[m] = "loading" => m = loading

\* Every load ends, well or not.
EveryLoadEnds == \A m \in Models : status[m] = "loading" ~> status[m] # "loading"
=============================================================================
