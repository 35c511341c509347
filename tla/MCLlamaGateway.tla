--------------------------- MODULE MCLlamaGateway ---------------------------
(* LlamaGateway and GatewayLoader for TLC: model values, and the constants that are functions or sets. *)
EXTENDS GatewayLoader, TLC

\* An alias that is a suffix of every id, so that Get may return any model.
MCMatches == [a \in Alias |-> Models]
MCWeights == Models \cup {NoModel}

MCSymmetry == Permutations(Procs) \cup Permutations(Threads) \cup Permutations(Local)

Referenced(p) == p = llama \/ \E t \in Threads : req[t].own = p

\* States that differ only in what no step reads again are one state: what a
\* collected slot last held (LoadPublish overwrites it), the state of a process
\* nobody refers to or waits for, the exit status of a child nobody waits for,
\* and error against unloaded.
Seen(p) ==
    LET q == proc[p] IN
    CASE p \in Garbage \ {llama} -> NewProcess(NoModel)
      [] p \notin Garbage /\ ~Referenced(p) /\ q.monitor \in {"off", "done"} ->
             [q EXCEPT !.state = "stopped", !.monitor = "off"]
      [] OTHER -> [q EXCEPT !.server =
                      IF @ = "exited" /\ q.monitor # "waiting" THEN "crashed" ELSE @]

\* Which weights a process has, which model a request resolved to, and the name
\* a request carries to its proxy, delete or last unload step are read by the
\* properties on who answers a chat alone.  A run that checks none of them need
\* not tell them apart.
Unweighed(q) == [q EXCEPT !.weights = NoModel]

Unnamed(r) ==
    [r EXCEPT !.model = NoModel,
              !.name = IF r.pc \in {"proxy", "send", "unloadClear",
                                    "deleteNil", "deleteStop", "deleteClear"}
                       THEN NoModel ELSE @]

MCSafetyView ==
    <<active, llama, sem, [t \in Threads |-> Unnamed(req[t])],
      [p \in Procs |-> Unweighed(Seen(p))],
      [m \in Models |-> IF status[m] = "error" THEN "unloaded" ELSE status[m]]>>

MCView == <<active, llama, sem, req, [p \in Procs |-> Seen(p)],
            [m \in Models |-> IF status[m] = "error" THEN "unloaded" ELSE status[m]]>>
=============================================================================
