--------------------------- MODULE ModelCatalogue ---------------------------
(***************************************************************************)
(* The list of models on its way from the gateway's disk and API keys to   *)
(* the agent-runner's GET /v1/models: the gateway scans a directory, then  *)
(* registers the models of each provider it has a key for                  *)
(* (llm-gateway/internal/models/models.go, cmd/main.go), and the           *)
(* agent-runner merges what the gateway lists with two models of its own   *)
(* (agent-runner/internal/models/models.go).                               *)
(*                                                                         *)
(* GatewayMain registers the models when its process starts.  An id is a   *)
(* number: its place in the order of the names.                            *)
(***************************************************************************)
EXTENDS Naturals, SequencesExt

CONSTANTS
    Ids,            \* names that directories and models may have
    Providers,      \* sequence of sets of ids: the table in registerRemoteModels
    RemoteModels    \* sequence of ids: the agent-runner's own

ASSUME CatalogueAssumption ==
    /\ Ids \subseteq Nat /\ IsFiniteSet(Ids)
    /\ Providers \in Seq(SUBSET Ids)
    /\ RemoteModels \in Seq(Ids) /\ IsInjective(RemoteModels)

VARIABLES
    models,     \* [Ids -> provider type]: Registry.models, "none" for no entry
    next        \* the provider that is registered next; 0 before the scan

catalogueVars == <<models, next>>

CatalogueTypeOK ==
    /\ models \in [Ids -> {"none", "local", "remote"}]
    /\ next \in 0..Len(Providers) + 1

CatalogueInit ==
    /\ models = [id \in Ids |-> "none"]
    /\ next = 0

-----------------------------------------------------------------------------
(* The gateway *)

\* scanLocalModels: whatever directories with a GGUF file there are; none, if
\* the models directory cannot be read.
Scan ==
    /\ next = 0
    /\ next' = 1
    /\ \E found \in SUBSET Ids :
          models' = [id \in Ids |-> IF id \in found THEN "local" ELSE "none"]

\* An entry of the same id is overwritten.
AddRemoteModels(ids) ==
    models' = [id \in Ids |-> IF id \in ids THEN "remote" ELSE models[id]]

\* One turn of the loop over the table: there is a key for the provider, or not.
registerRemoteModels ==
    /\ next \in DOMAIN Providers
    /\ next' = next + 1
    /\ AddRemoteModels(Providers[next]) \/ UNCHANGED models

Registered == next > Len(Providers)

\* The numbers of a set, in ascending order.
Sorted(S) ==
    CHOOSE s \in [1..Cardinality(S) -> S] : \A j, k \in DOMAIN s : j < k => s[j] < s[k]

Of(provider) == Sorted({id \in Ids : models[id] = provider})

Entry(id, category) == [id |-> id, category |-> category]

Entries(ids, category) == [k \in DOMAIN ids |-> Entry(ids[k], category)]

\* List, sorted by provider and name, as handleListModels answers it.
List == Entries(Of("local"), "local") \o Entries(Of("remote"), "remote")

-----------------------------------------------------------------------------
(* The agent-runner *)

isInRemoteModels(id) == \E k \in DOMAIN RemoteModels : RemoteModels[k] = id

\* Mutant: ids that both have are not skipped.
AllGatewayModels == List

\* Mutant: break instead of continue.
UpToDuplicate ==
    LET known == {k \in DOMAIN List : isInRemoteModels(List[k].id)}
    IN  IF known = {} THEN List ELSE SubSeq(List, 1, Min(known) - 1)

\* What the gateway lists, in its order, without the ids known here.
fetchLocalModels ==
    LET list == List
        kept == Sorted({k \in DOMAIN list : ~isInRemoteModels(list[k].id)})
    IN  [j \in DOMAIN kept |-> list[kept[j]]]

\* The response, when the gateway answers; without an answer Local is empty.
FetchModels ==
    [Remote |-> Entries(RemoteModels, "remote"),
     Local |-> fetchLocalModels,
     Total |-> Len(RemoteModels) + Len(fetchLocalModels)]

-----------------------------------------------------------------------------
Listed == FetchModels.Remote \o FetchModels.Local

\* No id is offered twice, although a provider's model may have the name of a
\* directory, of another provider's, or of one of the agent-runner's own.
NoIdTwice ==
    LET listed == Listed
    IN  \A j, k \in DOMAIN listed : listed[j].id = listed[k].id => j = k

\* A client is offered every model the gateway has registered, with its
\* category, unless the agent-runner has one of that name.
EveryModelListed ==
    LET own == {Entry(RemoteModels[k], "remote") : k \in DOMAIN RemoteModels}
        registered == {Entry(id, models[id]) : id \in {i \in Ids : models[i] # "none"}}
    IN  /\ FetchModels.Total = Len(Listed)
        /\ ToSet(Listed) = own \cup {m \in registered : \A o \in own : o.id # m.id}

-----------------------------------------------------------------------------
(* What a comment says, and the code does not do *)

\* agent-runner models.go:74 "fetchLocalModels queries the LLM gateway for
\* locally available models": what it returns as Local is local.
LocalListIsLocal ==
    \A k \in DOMAIN FetchModels.Local : FetchModels.Local[k].category = "local"
=============================================================================
