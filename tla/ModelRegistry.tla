---------------------------- MODULE ModelRegistry ----------------------------
(***************************************************************************)
(* The model registry of the gateway (llm-gateway/internal/models/models.go): *)
(* one status per catalogued model and the id of the active local model.  *)
(*                                                                         *)
(* A name a client sends is a model id or an alias.  An alias stands for a *)
(* string that is no id but a suffix of some ids: Registry.Get then walks  *)
(* the map in Go's random order and returns any of the matches.            *)
(***************************************************************************)
CONSTANTS
    Local,      \* ids of the GGUF files found by scanLocalModels
    Remote,     \* ids of the provider models added by AddRemoteModels
    Alias,      \* request names that are no id
    Matches,    \* [Alias -> SUBSET ids]: the ids the alias is a suffix of
    NoModel     \* the empty string in Registry.ActiveModel

Models == Local \cup Remote
Names  == Models \cup Alias

ASSUME RegistryAssumption ==
    /\ Local \cap Remote = {}
    /\ Alias \cap Models = {}
    /\ NoModel \notin Names
    /\ Matches \in [Alias -> SUBSET Models]

VARIABLES
    status,     \* [Models -> Statuses]: Model.Status
    active      \* Registry.ActiveModel

registryVars == <<status, active>>

Statuses == {"ready", "loading", "error", "unloaded"}

RegistryTypeOK ==
    /\ status \in [Models -> Statuses]
    /\ active \in Models \cup {NoModel}

\* scanLocalModels files local models as unloaded, AddRemoteModels remote ones
\* as ready.
RegistryInit ==
    /\ status = [m \in Models |-> IF m \in Remote THEN "ready" ELSE "unloaded"]
    /\ active = NoModel

\* The models Get may return for a name; empty when it returns false.
Get(n) == IF n \in Models THEN {n} ELSE Matches[n]

\* Mutant: a failed load leaves the model active.
SetStatusKeepsActive(n, s) ==
    IF n \notin Models THEN UNCHANGED registryVars
    ELSE /\ status' = [status EXCEPT ![n] = s]
         /\ active' = CASE s = "ready" -> n
                        [] s = "unloaded" /\ active = n -> NoModel
                        [] OTHER -> active

\* SetStatus looks the id up exactly: for an alias it returns an error, which
\* every caller drops, and changes nothing.
SetStatus(n, s) ==
    IF n \notin Models THEN UNCHANGED registryVars
    ELSE /\ status' = [status EXCEPT ![n] = s]
         /\ active' = CASE s = "ready" -> n
                        [] s \in {"unloaded", "error"} /\ active = n -> NoModel
                        [] OTHER -> active
=============================================================================
