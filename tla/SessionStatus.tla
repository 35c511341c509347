--------------------------- MODULE SessionStatus ---------------------------
(***************************************************************************)
(* When the status in a session's row tells the state of its container.    *)
(* The handlers of AgentSessions write one after the other and nobody      *)
(* compares them; drifted records, beside every step of AgentSessions, the *)
(* events after which the two may disagree.                                *)
(***************************************************************************)
EXTENDS AgentSessions

VARIABLE drifted    \* history: the sessions such an event has happened to

statusVars == <<vars, drifted>>

\* Calls after which the handler that made them writes, deletes or does not
\* save the row.
Telling == {"create", "start", "undo", "remove", "restart", "act"}

\* A container moves by itself, for a terminal, for another session's create or
\* for the shutdown: on behalf of nobody who tells the store.
MovedUntold(s) ==
    /\ docker'[s] # docker[s]
    /\ \A t \in Threads : req[t].sess = s /\ req[t].pc \in Telling => req'[t] = req[t]

\* The UPDATE, or the DELETE, fails and leaves the row as it was.
WriteLost(s) ==
    \E t \in Threads :
        /\ req[t].sess = s /\ req'[t].pc = "idle"
        /\ \/ req[t].pc = "update" /\ row'[s] # StatusAfter(req[t].op)
           \/ req[t].pc = "deleteRow" /\ row'[s] # "none"

\* Two requests are under way for the same session.
Overlapping(s) == \E t, u \in Threads : t # u /\ req'[t].sess = s /\ req'[u].sess = s

StatusInit == Init /\ drifted = {}

StatusNext ==
    /\ Next
    /\ drifted' = drifted \cup
          {s \in Sessions : MovedUntold(s) \/ WriteLost(s) \/ Overlapping(s)}

StatusSpec == StatusInit /\ [][StatusNext]_statusVars

-----------------------------------------------------------------------------
Shown(c) ==
    CASE c = "running" -> {"running"}
      [] c = "paused"  -> {"paused"}
      [] c = "exited"  -> {"stopped", "killed"}
      [] OTHER -> {}

\* Whoever reads a session between requests reads the state of its container,
\* unless a call failed or the process ended half-way, the container moved
\* without a handler that says so, a write was lost, or two requests for the
\* session overlapped: no sequence of creates, controls, reconnects and deletes
\* that succeed one after the other leaves a wrong status behind.
StatusExplained ==
    \A s \in Sessions \ (hurt \cup drifted) :
        row[s] # "none" /\ (\A t \in Threads : req[t].sess # s) => row[s] \in Shown(docker[s])
=============================================================================
