--------------------------- MODULE GatewayLoader ---------------------------
(***************************************************************************)
(* With chats and loads only, and ids for names, LlamaGateway implements   *)
(* ModelLoader.  status and active are the same variables in both.  With   *)
(* an alias for a name it would not: SetStatus (models.go:236) changes     *)
(* nothing for a name that is no id, and the load goes unfiled.            *)
(***************************************************************************)
EXTENDS LlamaGateway

\* Where a thread may be from filing a model as loading until it has filed the
\* outcome and, after a failure, cleared the pointer.
LoadingPCs == {"publish", "start", "spawn", "wait", "abort", "aborted", "failed", "clear", "ready"}

\* Only the holder of the semaphore loads.
LoadingModel ==
    IF sem # NoThread /\ pc(sem) \in LoadingPCs THEN name(sem) ELSE NoModel

CurrentModel == IF llama = NoProc THEN NoModel ELSE proc[llama].weights

Loader == INSTANCE ModelLoader WITH loading <- LoadingModel, current <- CurrentModel

\* The refinement: every behaviour of the handlers is one of the abstract
\* loader's (handlers.go:447-471 and :490-524).
LoaderSpec == Loader!Spec

\* What the abstract loader promises, of the handlers.
LoaderCurrentIsActive == Loader!CurrentIsActive

\* Every load ends, well or not: no status read over the API says "loading"
\* for ever (under FairSpec).
LoaderEveryLoadEnds == Loader!EveryLoadEnds
=============================================================================
