---------------------------- MODULE TraceBuffer ----------------------------
(***************************************************************************)
(* Function tracing of the agent-runner (internal/tracing/tracer.go): one  *)
(* buffer for the whole process, into which every traced call pushes one   *)
(* event when it ends, and which every failed call empties into an error   *)
(* report that a goroutine of its own posts to the collector.              *)
(*                                                                         *)
(* push and drain each hold the mutex; between them, and between two       *)
(* calls, anything may happen.  Each route of cmd/main.go makes one        *)
(* correlation id and one traced call, so a call stands for its event and  *)
(* for its correlation id.                                                 *)
(***************************************************************************)
EXTENDS Naturals, Sequences

CONSTANTS
    Calls,          \* calls of TraceFn
    MaxTraceBuffer  \* maxTraceBuffer, 500 in the code

ASSUME TraceAssumption == MaxTraceBuffer \in Nat \ {0}

VARIABLES
    events,     \* globalBuffer.events
    call,       \* [Calls -> CallStates]
    reports,    \* the reports made, in the order of their drains
    pushed      \* history: all events in the order of their pushes

vars == <<events, call, reports, pushed>>

CallStates == {"new", "running", "failed", "done"}

\* A report is on its way, has arrived at the collector, or is given up after
\* reportTimeout, an error status, or the end of the process.
ErrorReport == [of : Calls, traces : Seq(Calls), post : {"posting", "arrived", "lost"}]

\* The bound is part of the type: push keeps it, so a run without failures,
\* which never empties the buffer, cannot make it grow.
TypeOK ==
    /\ events \in Seq(Calls) /\ Len(events) <= MaxTraceBuffer
    /\ call \in [Calls -> CallStates]
    /\ reports \in Seq(ErrorReport)
    /\ pushed \in Seq(Calls)

Init ==
    /\ events = <<>>
    /\ call = [c \in Calls |-> "new"]
    /\ reports = <<>>
    /\ pushed = <<>>

Becomes(c, from, to) == call[c] = from /\ call' = [call EXCEPT ![c] = to]

\* The newest maxTraceBuffer elements.
Newest(s) == SubSeq(s, Len(s) - MaxTraceBuffer + 1, Len(s))

\* Mutant: the excess is cut off before the event is appended.
TrimFirst(s, e) ==
    Append(IF Len(s) > MaxTraceBuffer THEN Newest(s) ELSE s, e)

\* Mutant: the excess is cut off at the new end.
TrimEnd(s, e) ==
    IF Len(s) + 1 > MaxTraceBuffer THEN Append(SubSeq(s, 1, MaxTraceBuffer - 1), e)
    ELSE Append(s, e)

Appended(s, e) ==
    LET t == Append(s, e)
    IN  IF Len(t) > MaxTraceBuffer THEN Newest(t) ELSE t

Push(c) ==
    /\ events' = Appended(events, c)
    /\ pushed' = Append(pushed, c)

TraceFn(c) ==
    /\ Becomes(c, "new", "running")
    /\ UNCHANGED <<events, reports, pushed>>

FnSucceeds(c) ==
    /\ Becomes(c, "running", "done")
    /\ Push(c)
    /\ UNCHANGED reports

\* Mutant: the report is drained before the event is pushed, and so without it.
FnFailsUnpushed(c) ==
    /\ Becomes(c, "running", "failed")
    /\ UNCHANGED <<events, reports, pushed>>

FnFails(c) ==
    /\ Becomes(c, "running", "failed")
    /\ Push(c)
    /\ UNCHANGED reports

\* Recoverer answers; neither an event nor a report is made of it.
FnPanics(c) ==
    /\ Becomes(c, "running", "done")
    /\ UNCHANGED <<events, reports, pushed>>

\* Mutant: the buffer is read and not emptied.
DrainKeeps(c) ==
    /\ Becomes(c, "failed", "done")
    /\ reports' = Append(reports, [of |-> c, traces |-> events, post |-> "posting"])
    /\ UNCHANGED <<events, pushed>>

\* globalBuffer.drain() into the report, and go ReportError(report).
Drain(c) ==
    /\ Becomes(c, "failed", "done")
    /\ reports' = Append(reports, [of |-> c, traces |-> events, post |-> "posting"])
    /\ events' = <<>>
    /\ UNCHANGED pushed

Post(i, outcome) ==
    /\ reports[i].post = "posting"
    /\ reports' = [reports EXCEPT ![i].post = outcome]
    /\ UNCHANGED <<events, call, pushed>>

\* The process ends: what was not posted is gone, and so are the calls.
Exit ==
    /\ events' = <<>>
    /\ call' = [c \in Calls |-> IF call[c] = "new" THEN "new" ELSE "done"]
    /\ reports' = [i \in DOMAIN reports |->
                      [reports[i] EXCEPT !.post = IF @ = "posting" THEN "lost" ELSE @]]
    /\ UNCHANGED pushed

Next ==
    \/ \E c \in Calls : TraceFn(c) \/ FnSucceeds(c) \/ FnFails(c) \/ FnPanics(c) \/ Drain(c)
    \/ \E i \in DOMAIN reports, o \in {"arrived", "lost"} : Post(i, o)
    \/ Exit

Spec == Init /\ [][Next]_vars

-----------------------------------------------------------------------------
(* Safety *)

\* Position i of s holds the event pushed as number n + i.
PushedFrom(s, n) == \A i \in 1..Len(s) : n + i <= Len(pushed) /\ s[i] = pushed[n + i]

\* The buffer is the newest events, in the order of their pushes: what is cut
\* off is the oldest.
BufferIsNewest == Len(events) <= Len(pushed) /\ PushedFrom(events, Len(pushed) - Len(events))

\* However drains and pushes interleave, no event is reported twice or both
\* reported and kept.
ReportedOnce ==
    /\ \A i, j \in 1..Len(reports) : i # j =>
          \A k \in 1..Len(reports[i].traces), l \in 1..Len(reports[j].traces) :
              reports[i].traces[k] # reports[j].traces[l]
    /\ \A i \in 1..Len(reports) :
          \A k \in 1..Len(reports[i].traces), l \in 1..Len(events) :
              reports[i].traces[k] # events[l]

Has(r, c) == \E k \in 1..Len(r.traces) : r.traces[k] = c

\* The report of a failed call has the event of that call, unless another
\* failed call drained it into an earlier report, or enough later events
\* pushed it out before the drain.
OwnEventExplained ==
    \A i \in 1..Len(reports) :
        \/ Has(reports[i], reports[i].of)
        \/ \E j \in 1..i - 1 : Has(reports[j], reports[i].of)
        \/ \E n \in 1..Len(pushed) :
              pushed[n] = reports[i].of /\ n + MaxTraceBuffer <= Len(pushed)

-----------------------------------------------------------------------------
(* What the comments say, and the code does not do *)

\* tracer.go:98 "a simple in-memory buffer for the current goroutine's traces":
\* a report has the traces of the request that failed.
ReportOfCurrentGoroutine ==
    \A i \in 1..Len(reports) : \A k \in 1..Len(reports[i].traces) :
        reports[i].traces[k] = reports[i].of
=============================================================================
