------------------------- MODULE TraceBufferProofs -------------------------
(***************************************************************************)
(* The safety invariants of TraceBuffer for any number of calls and any    *)
(* capacity.  The argument is about positions in the order of pushes: the  *)
(* buffer is the last Len(events) of them, everything reported lies before *)
(* it, and what lies before it and is not reported has been pushed out by  *)
(* MaxTraceBuffer later events.                                            *)
(***************************************************************************)
EXTENDS TraceBuffer, TLAPS

USE TraceAssumption

\* A call pushes one event, when it ends.
PushedOnce ==
    /\ \A i, j \in 1..Len(pushed) : pushed[i] = pushed[j] => i = j
    /\ \A i \in 1..Len(pushed) : call[pushed[i]] \in {"failed", "done"}
    /\ \A c \in Calls : call[c] = "failed" => \E n \in 1..Len(pushed) : pushed[n] = c

\* What is reported was pushed before everything in the buffer.
ReportedBefore ==
    \A i \in 1..Len(reports) : \A k \in 1..Len(reports[i].traces) :
        \E p \in 1..Len(pushed) - Len(events) : reports[i].traces[k] = pushed[p]

\* If the event of a call that has not drained yet is no longer in the buffer,
\* it is in a report, or was pushed out.
GoneExplained ==
    \A n \in 1..Len(pushed) - Len(events) : call[pushed[n]] = "failed" =>
        \/ n + MaxTraceBuffer <= Len(pushed)
        \/ \E i \in 1..Len(reports) : Has(reports[i], pushed[n])

IInv ==
    /\ TypeOK /\ BufferIsNewest /\ PushedOnce /\ ReportedBefore
    /\ ReportedOnce /\ GoneExplained /\ OwnEventExplained

\* The invariant holds of the empty buffer.
THEOREM InitIInv == Init => IInv
  BY DEF Init, IInv, TypeOK, BufferIsNewest, PushedFrom, PushedOnce, ReportedBefore,
         ReportedOnce, GoneExplained, OwnEventExplained, ErrorReport, CallStates

-----------------------------------------------------------------------------
\* What a push makes of the buffer: one longer, or as long, and the same
\* elements at the same distance from the end.
LEMMA AppendedNewest ==
  ASSUME NEW s \in Seq(Calls), Len(s) <= MaxTraceBuffer, NEW c \in Calls
  PROVE  /\ Appended(s, c) \in Seq(Calls)
         /\ \/ Len(Appended(s, c)) = Len(s) + 1 /\ Len(s) < MaxTraceBuffer
            \/ Len(Appended(s, c)) = Len(s) /\ Len(s) = MaxTraceBuffer
         /\ \A i \in 1..Len(Appended(s, c)) :
               LET d == Len(s) + 1 - Len(Appended(s, c)) IN
               Appended(s, c)[i] = IF i + d = Len(s) + 1 THEN c ELSE s[i + d]
<1> DEFINE t == Append(s, c)
<1>1. t \in Seq(Calls) /\ Len(t) = Len(s) + 1
  OBVIOUS
<1>2. \A i \in 1..Len(t) : t[i] = IF i = Len(s) + 1 THEN c ELSE s[i]
  OBVIOUS
<1>3. CASE Len(s) < MaxTraceBuffer
  <2>1. Appended(s, c) = t
    BY <1>1, <1>3 DEF Appended
  <2> QED
    BY <1>1, <1>2, <1>3, <2>1
<1>4. CASE Len(s) = MaxTraceBuffer
  <2>1. Appended(s, c) = SubSeq(t, 2, Len(s) + 1)
    BY <1>1, <1>4 DEF Appended, Newest
  <2>2. /\ SubSeq(t, 2, Len(s) + 1) \in Seq(Calls)
        /\ Len(SubSeq(t, 2, Len(s) + 1)) = Len(s)
        /\ \A i \in 1..Len(s) : SubSeq(t, 2, Len(s) + 1)[i] = t[i + 1]
    BY <1>1
  <2>3. ASSUME NEW i \in 1..Len(s)
        PROVE  Appended(s, c)[i] = IF i + 1 = Len(s) + 1 THEN c ELSE s[i + 1]
    <3>1. Appended(s, c)[i] = t[i + 1] /\ i + 1 \in 1..Len(t)
      BY <1>1, <2>1, <2>2
    <3> HIDE DEF t
    <3> QED
      BY <1>2, <3>1
  <2>4. Len(Appended(s, c)) = Len(s) /\ Len(s) + 1 - Len(Appended(s, c)) = 1
    BY <2>1, <2>2
  <2> QED
    BY <1>4, <2>1, <2>2, <2>3, <2>4
<1> QED
  BY <1>3, <1>4

-----------------------------------------------------------------------------
(* Type correctness *)

\* A call moves on, and no other one.
LEMMA BecomesType ==
  ASSUME TypeOK, NEW c \in Calls, NEW from, NEW to \in CallStates, Becomes(c, from, to)
  PROVE  /\ call' \in [Calls -> CallStates]
         /\ call[c] = from /\ call'[c] = to
         /\ \A d \in Calls : d # c => call'[d] = call[d]
  BY DEF TypeOK, Becomes

\* Every step keeps the types.
THEOREM NextType == TypeOK /\ [Next]_vars => TypeOK'
<1> SUFFICES ASSUME TypeOK, [Next]_vars PROVE TypeOK'
  OBVIOUS
<1>1. ASSUME NEW c \in Calls, TraceFn(c) \/ FnPanics(c)
      PROVE  TypeOK'
  BY <1>1, BecomesType DEF TraceFn, FnPanics, TypeOK, CallStates
<1>2. ASSUME NEW c \in Calls, FnSucceeds(c) \/ FnFails(c)
      PROVE  TypeOK'
  <2>1. call' \in [Calls -> CallStates] /\ reports' = reports
    BY <1>2, BecomesType DEF FnSucceeds, FnFails, CallStates
  <2>2. events' = Appended(events, c) /\ pushed' = Append(pushed, c)
    BY <1>2 DEF FnSucceeds, FnFails, Push
  <2>3. events' \in Seq(Calls) /\ Len(events') <= MaxTraceBuffer
    BY <2>2, AppendedNewest DEF TypeOK
  <2> QED
    BY <2>1, <2>2, <2>3 DEF TypeOK
<1>3. ASSUME NEW c \in Calls, Drain(c)
      PROVE  TypeOK'
  <2>1. call' \in [Calls -> CallStates]
    BY <1>3, BecomesType DEF Drain, CallStates
  <2>2. [of |-> c, traces |-> events, post |-> "posting"] \in ErrorReport
    BY DEF ErrorReport, TypeOK
  <2> QED
    BY <1>3, <2>1, <2>2 DEF Drain, TypeOK
<1>4. ASSUME NEW i \in DOMAIN reports, NEW o \in {"arrived", "lost"}, Post(i, o)
      PROVE  TypeOK'
  <2>1. i \in 1..Len(reports) /\ reports[i] \in ErrorReport
    BY DEF TypeOK
  <2>2. [reports[i] EXCEPT !.post = o] \in ErrorReport
    BY <2>1 DEF ErrorReport
  <2>3. reports' = [reports EXCEPT ![i] = [reports[i] EXCEPT !.post = o]]
    BY <1>4 DEF Post
  <2>4. reports' \in Seq(ErrorReport)
    BY <2>1, <2>2, <2>3 DEF TypeOK
  <2> QED
    BY <1>4, <2>4 DEF Post, TypeOK
<1>5. CASE Exit
  <2> DEFINE after(r) == [r EXCEPT !.post = IF @ = "posting" THEN "lost" ELSE @]
  <2>1. \A r \in ErrorReport : after(r) \in ErrorReport
    BY DEF ErrorReport
  <2>2. reports' \in Seq(ErrorReport)
    <3>1. reports' = [i \in 1..Len(reports) |-> after(reports[i])]
      BY <1>5 DEF Exit, TypeOK
    <3>2. \A i \in 1..Len(reports) : after(reports[i]) \in ErrorReport
      BY <2>1 DEF TypeOK
    <3>3. Len(reports) \in Nat
      BY DEF TypeOK
    <3> HIDE DEF after
    <3> QED
      BY <3>1, <3>2, <3>3
  <2> QED
    BY <1>5, <2>2 DEF Exit, TypeOK, CallStates
<1>6. CASE UNCHANGED vars
  BY <1>6 DEF vars, TypeOK
<1> QED
  BY <1>1, <1>2, <1>3, <1>4, <1>5, <1>6 DEF Next

-----------------------------------------------------------------------------
(* The invariant, by kinds of steps *)

\* Nothing is pushed or drained, and a report is at most posted.
Quiet ==
    /\ UNCHANGED pushed
    /\ \/ UNCHANGED events
       \/ events' = <<>> /\ \A c \in Calls : call'[c] # "failed"
    /\ Len(reports') = Len(reports)
    /\ \A i \in 1..Len(reports) :
          reports'[i].of = reports[i].of /\ reports'[i].traces = reports[i].traces
    /\ \A c \in Calls :
          \/ call'[c] = call[c]
          \/ call[c] \in {"new", "running"} /\ call'[c] \in {"running", "done"}
          \/ call[c] = "failed" /\ call'[c] = "done"

\* A call that begins or panics, a post, and a stuttering step are quiet.
LEMMA QuietSteps ==
  ASSUME TypeOK, [Next]_vars, ~Exit,
         ~\E c \in Calls : FnSucceeds(c) \/ FnFails(c) \/ Drain(c)
  PROVE  Quiet /\ UNCHANGED events
<1>1. ASSUME NEW c \in Calls, TraceFn(c) \/ FnPanics(c)
      PROVE  Quiet /\ UNCHANGED events
  <2>1. UNCHANGED <<events, reports, pushed>>
    BY <1>1 DEF TraceFn, FnPanics
  <2>2. \A d \in Calls :
          \/ call'[d] = call[d]
          \/ call[d] \in {"new", "running"} /\ call'[d] \in {"running", "done"}
    BY <1>1, BecomesType DEF TraceFn, FnPanics, CallStates
  <2> QED
    BY <2>1, <2>2 DEF Quiet
<1>2. ASSUME NEW i \in DOMAIN reports, NEW o \in {"arrived", "lost"}, Post(i, o)
      PROVE  Quiet /\ UNCHANGED events
  <2>1. i \in 1..Len(reports) /\ reports[i] \in ErrorReport
    BY DEF TypeOK
  <2>2. reports' = [reports EXCEPT ![i] = [reports[i] EXCEPT !.post = o]]
    BY <1>2 DEF Post
  <2>3. /\ Len(reports') = Len(reports)
        /\ \A j \in 1..Len(reports) :
              reports'[j].of = reports[j].of /\ reports'[j].traces = reports[j].traces
    BY <2>1, <2>2 DEF TypeOK, ErrorReport
  <2> QED
    BY <1>2, <2>3 DEF Post, Quiet
<1>3. CASE UNCHANGED vars
  BY <1>3 DEF vars, Quiet
<1> QED
  BY <1>1, <1>2, <1>3 DEF Next

\* They keep everything, since nothing moves in the order of pushes.
LEMMA QuietKeepsInv ==
  ASSUME IInv, TypeOK', Quiet, UNCHANGED events
  PROVE  IInv'
<1> USE DEF Quiet
<1>1. BufferIsNewest'
  BY DEF IInv, BufferIsNewest, PushedFrom
<1>2. PushedOnce'
  <2>1. \A c \in Calls : call'[c] = "failed" => call[c] = "failed"
    OBVIOUS
  <2>2. \A n \in 1..Len(pushed) : pushed[n] \in Calls
    BY DEF IInv, TypeOK
  <2> QED
    BY <2>1, <2>2 DEF IInv, PushedOnce
<1> DEFINE R == 1..Len(reports)
<1>0. 1..Len(reports') = R /\ \A i \in R : reports'[i].traces = reports[i].traces
  OBVIOUS
<1>3. ReportedBefore'
  <2>1. \A i \in R : \A k \in 1..Len(reports'[i].traces) :
          \E p \in 1..Len(pushed) - Len(events) : reports'[i].traces[k] = pushed[p]
    <3> SUFFICES ASSUME NEW i \in R, NEW k \in 1..Len(reports'[i].traces)
                 PROVE  \E p \in 1..Len(pushed) - Len(events) : reports'[i].traces[k] = pushed[p]
      OBVIOUS
    <3>1. reports'[i].traces = reports[i].traces
      BY <1>0
    <3>2. \A j \in 1..Len(reports[i].traces) :
            \E p \in 1..Len(pushed) - Len(events) : reports[i].traces[j] = pushed[p]
      BY DEF IInv, ReportedBefore
    <3> QED
      BY <3>1, <3>2
  <2> QED
    BY <1>0, <2>1 DEF ReportedBefore
<1>4. ReportedOnce'
  <2>1. \A i, j \in R : i # j =>
          \A k \in 1..Len(reports'[i].traces), l \in 1..Len(reports'[j].traces) :
              reports'[i].traces[k] # reports'[j].traces[l]
    BY <1>0 DEF IInv, ReportedOnce
  <2>2. \A i \in R : \A k \in 1..Len(reports'[i].traces), l \in 1..Len(events) :
          reports'[i].traces[k] # events[l]
    BY <1>0 DEF IInv, ReportedOnce
  <2> QED
    BY <1>0, <2>1, <2>2 DEF ReportedOnce
<1>5. GoneExplained'
  <2>1. \A i \in R : \A c : Has(reports[i], c) <=> Has(reports'[i], c)
    BY <1>0 DEF Has
  <2>2. \A c \in Calls : call'[c] = "failed" => call[c] = "failed"
    OBVIOUS
  <2>3. \A n \in 1..Len(pushed) - Len(events) : n \in 1..Len(pushed) /\ pushed[n] \in Calls
    BY DEF IInv, TypeOK, BufferIsNewest
  <2> QED
    BY <1>0, <2>1, <2>2, <2>3 DEF IInv, GoneExplained
<1>6. OwnEventExplained'
  <2>1. \A j \in 1..Len(reports) : \A c : Has(reports[j], c) <=> Has(reports'[j], c)
    BY DEF Has
  <2>2. \A k \in 1..Len(reports) : \A j \in 1..k - 1 : j \in 1..Len(reports)
    BY DEF IInv, TypeOK
  <2> QED
    BY <2>1, <2>2 DEF IInv, OwnEventExplained
<1> QED
  BY <1>1, <1>2, <1>3, <1>4, <1>5, <1>6 DEF IInv

\* A push adds a last position, and moves at most the first of the buffer out of it.
LEMMA PushStep ==
  ASSUME IInv, TypeOK', NEW c \in Calls, FnSucceeds(c) \/ FnFails(c)
  PROVE  IInv'
<1> DEFINE L == Len(pushed)
           b == Len(events)
<1>1. /\ events' = Appended(events, c) /\ pushed' = Append(pushed, c) /\ reports' = reports
      /\ call[c] = "running" /\ call'[c] \in {"done", "failed"}
      /\ \A d \in Calls : d # c => call'[d] = call[d]
  BY BecomesType DEF IInv, FnSucceeds, FnFails, Push, CallStates
<1>2. /\ L \in Nat /\ b \in Nat /\ b <= L /\ b <= MaxTraceBuffer
      /\ Len(pushed') = L + 1 /\ pushed'[L + 1] = c
      /\ \A n \in 1..L : pushed'[n] = pushed[n] /\ pushed[n] \in Calls
  BY <1>1 DEF IInv, TypeOK, BufferIsNewest
<1>3. /\ Len(events') = b + 1 \/ (Len(events') = b /\ b = MaxTraceBuffer)
      /\ \A i \in 1..Len(events') :
            LET d == b + 1 - Len(events') IN
            events'[i] = IF i + d = b + 1 THEN c ELSE events[i + d]
  <2>1. events \in Seq(Calls) /\ Len(events) <= MaxTraceBuffer
    BY DEF IInv, TypeOK
  <2>2. /\ Len(Appended(events, c)) = b + 1 \/ (Len(Appended(events, c)) = b /\ b = MaxTraceBuffer)
        /\ \A i \in 1..Len(Appended(events, c)) :
              LET d == b + 1 - Len(Appended(events, c)) IN
              Appended(events, c)[i] = IF i + d = b + 1 THEN c ELSE events[i + d]
    BY <2>1, AppendedNewest
  <2>3. events' = Appended(events, c)
    BY <1>1
  <2> HIDE DEF b
  <2> QED
    BY <2>2, <2>3
<1>12. Len(events') \in Nat /\ Len(events') <= b + 1 /\ b <= Len(events')
  BY <1>2, <1>3
<1>13. \A i \in 1..Len(events') : i # Len(events') => i + (b + 1 - Len(events')) \in 1..b
  BY <1>2, <1>12
<1>4. ASSUME NEW n \in 1..L PROVE pushed[n] # c
  BY <1>1 DEF IInv, PushedOnce
<1>5. BufferIsNewest'
  <2>1. Len(events') <= L + 1
    BY <1>2, <1>3
  <2>2. ASSUME NEW i \in 1..Len(events')
        PROVE  events'[i] = pushed'[(L + 1) - Len(events') + i]
    <3>1. CASE i = Len(events')
      <4>1. i + (b + 1 - Len(events')) = b + 1
        BY <1>2, <1>12, <3>1
      <4>2. events'[i] = c
        BY <1>3, <4>1
      <4>3. (L + 1) - Len(events') + i = L + 1
        BY <1>2, <1>12, <3>1
      <4> QED
        BY <1>2, <4>2, <4>3
    <3>2. CASE i # Len(events')
      <4> DEFINE k == i + (b + 1 - Len(events'))
      <4>0. k \in 1..b /\ k # b + 1
        BY <1>2, <1>13, <3>2
      <4>1. k \in 1..b /\ events'[i] = events[k]
        BY <1>3, <4>0
      <4>2. events[k] = pushed[(L - b) + k] /\ (L - b) + k \in 1..L
        BY <1>2, <4>1 DEF IInv, BufferIsNewest, PushedFrom
      <4>3. (L - b) + k = (L + 1) - Len(events') + i
        BY <1>2, <1>12
      <4> QED
        BY <1>2, <4>1, <4>2, <4>3
    <3> QED
      BY <3>1, <3>2
  <2>3. \A i \in 1..Len(events') : (L + 1) - Len(events') + i <= L + 1
    BY <1>2, <1>3
  <2> QED
    BY <1>2, <2>1, <2>2, <2>3 DEF BufferIsNewest, PushedFrom
<1>6. PushedOnce'
  <2>1. \A i, j \in 1..L + 1 : pushed'[i] = pushed'[j] => i = j
    BY <1>2, <1>4 DEF IInv, PushedOnce
  <2>2. \A i \in 1..L + 1 : call'[pushed'[i]] \in {"failed", "done"}
    BY <1>1, <1>2, <1>4 DEF IInv, PushedOnce
  <2>3. \A d \in Calls : call'[d] = "failed" => \E n \in 1..L + 1 : pushed'[n] = d
    BY <1>1, <1>2 DEF IInv, PushedOnce
  <2> QED
    BY <1>2, <2>1, <2>2, <2>3 DEF PushedOnce
<1>7. L - b <= (L + 1) - Len(events')
  BY <1>2, <1>12
<1>8. ReportedBefore'
  <2>1. \A p \in 1..L - b : p \in 1..(L + 1) - Len(events') /\ pushed'[p] = pushed[p]
    BY <1>2, <1>3, <1>7
  <2> QED
    BY <1>1, <1>2, <2>1 DEF IInv, ReportedBefore
<1>9. ReportedOnce'
  <2>1. ASSUME NEW i \in 1..Len(reports), NEW k \in 1..Len(reports[i].traces),
               NEW l \in 1..Len(events')
        PROVE  reports[i].traces[k] # events'[l]
    <3>1. PICK p \in 1..L - b : reports[i].traces[k] = pushed[p]
      BY DEF IInv, ReportedBefore
    <3>2. CASE events'[l] = c
      BY <1>2, <1>4, <3>1, <3>2
    <3>3. CASE events'[l] # c
      <4> DEFINE m == l + (b + 1 - Len(events'))
      <4>0. m # b + 1 /\ events'[l] = events[m]
        BY <1>3, <3>3
      <4>1. m \in 1..b /\ events'[l] = events[m]
        <5>2. l # Len(events')
          <6>1. ASSUME l = Len(events') PROVE m = b + 1
            <7> DEFINE N == Len(events')
            <7>1. N \in Nat /\ b \in Nat /\ l = N
              BY <1>2, <1>12, <6>1
            <7> HIDE DEF N, b
            <7>2. l + (b + 1 - N) = b + 1
              BY <7>1
            <7> QED
              BY <7>2 DEF N, b
          <6> QED
            BY <4>0, <6>1
        <5>1. m \in 1..b
          BY <1>13, <5>2
        <5> QED
          BY <4>0, <5>1
      <4>2. \A j \in 1..b : reports[i].traces[k] # events[j]
        BY DEF IInv, ReportedOnce
      <4> HIDE DEF m, b
      <4> QED
        BY <4>1, <4>2
    <3> QED
      BY <3>2, <3>3
  <2>2. \A i, j \in 1..Len(reports) : i # j =>
          \A k \in 1..Len(reports[i].traces), l \in 1..Len(reports[j].traces) :
              reports[i].traces[k] # reports[j].traces[l]
    BY DEF IInv, ReportedOnce
  <2>3. reports' = reports
    BY <1>1
  <2> HIDE DEF IInv, L, b
  <2> QED
    BY <2>1, <2>2, <2>3 DEF ReportedOnce
<1>10. GoneExplained'
  <2>1. ASSUME NEW n \in 1..(L + 1) - Len(events'), call'[pushed'[n]] = "failed"
        PROVE  \/ n + MaxTraceBuffer <= L + 1
               \/ \E i \in 1..Len(reports) : Has(reports[i], pushed'[n])
    <3>1. CASE n \in 1..L - b
      <4>2. n \in 1..L /\ pushed'[n] = pushed[n]
        BY <1>2, <3>1
      <4>0. call[pushed[n]] = "failed"
        BY <1>1, <1>2, <1>4, <2>1, <4>2
      <4>1. \/ n + MaxTraceBuffer <= L
            \/ \E i \in 1..Len(reports) : Has(reports[i], pushed[n])
        BY <3>1, <4>0 DEF IInv, GoneExplained
      <4>3. n + MaxTraceBuffer <= L => n + MaxTraceBuffer <= L + 1
        BY <1>2, <4>2
      <4> QED
        BY <4>1, <4>2, <4>3
    <3>2. CASE n \notin 1..L - b
      BY <1>2, <1>3, <3>2
    <3> QED
      BY <3>1, <3>2
  <2> QED
    BY <1>1, <1>2, <2>1 DEF GoneExplained
<1>11. OwnEventExplained'
  <2>1. \A n \in 1..L : pushed'[n] = pushed[n] /\ n \in 1..L + 1
                        /\ (n + MaxTraceBuffer <= L => n + MaxTraceBuffer <= L + 1)
    BY <1>2
  <2> QED
    BY <1>1, <1>2, <2>1 DEF IInv, OwnEventExplained
<1> QED
  BY <1>5, <1>6, <1>8, <1>9, <1>10, <1>11 DEF IInv

\* A drain moves all of the buffer into the newest report.
LEMMA DrainStep ==
  ASSUME IInv, TypeOK', NEW c \in Calls, Drain(c)
  PROVE  IInv'
<1> DEFINE L == Len(pushed)
           b == Len(events)
           N == Len(reports)
<1>1. /\ events' = <<>> /\ pushed' = pushed /\ call[c] = "failed" /\ call'[c] = "done"
      /\ \A d \in Calls : d # c => call'[d] = call[d]
      /\ reports' = Append(reports, [of |-> c, traces |-> events, post |-> "posting"])
  BY BecomesType DEF IInv, Drain, CallStates
<1>2. /\ L \in Nat /\ b \in Nat /\ N \in Nat /\ b <= L /\ Len(events') = 0
      /\ Len(reports') = N + 1
      /\ reports'[N + 1].of = c /\ reports'[N + 1].traces = events
      /\ \A i \in 1..N : reports'[i] = reports[i]
      /\ \A n \in 1..L : pushed[n] \in Calls
  BY <1>1 DEF IInv, TypeOK, BufferIsNewest
<1>3. BufferIsNewest'
  BY <1>1, <1>2 DEF BufferIsNewest, PushedFrom
<1>4. PushedOnce'
  BY <1>1, <1>2 DEF IInv, PushedOnce
<1>5. \A k \in 1..b : events[k] = pushed[(L - b) + k] /\ (L - b) + k \in 1..L
  BY <1>2 DEF IInv, BufferIsNewest, PushedFrom
<1>6. ReportedBefore'
  <2>1. ASSUME NEW i \in 1..N + 1, NEW k \in 1..Len(reports'[i].traces)
        PROVE  \E p \in 1..L : reports'[i].traces[k] = pushed[p]
    <3>1. CASE i = N + 1
      BY <1>2, <1>5, <3>1
    <3>2. CASE i # N + 1
      <4>1. i \in 1..N /\ reports'[i].traces = reports[i].traces
        BY <1>2, <3>2
      <4>2. PICK p \in 1..L - b : reports[i].traces[k] = pushed[p]
        BY <4>1 DEF IInv, ReportedBefore
      <4>3. p \in 1..L
        BY <1>2
      <4> QED
        BY <4>1, <4>2, <4>3
    <3> QED
      BY <3>1, <3>2
  <2>2. Len(pushed') - Len(events') = L
    BY <1>1, <1>2
  <2> QED
    BY <1>1, <1>2, <2>1, <2>2 DEF ReportedBefore
<1>7. ReportedOnce'
  <2>1. ASSUME NEW i \in 1..N, NEW k \in 1..Len(reports[i].traces), NEW l \in 1..b
        PROVE  reports[i].traces[k] # events[l]
    BY DEF IInv, ReportedOnce
  <2>2. \A i, j \in 1..N : i # j =>
          \A k \in 1..Len(reports[i].traces), l \in 1..Len(reports[j].traces) :
              reports[i].traces[k] # reports[j].traces[l]
    BY DEF IInv, ReportedOnce
  <2>3. \A i \in 1..N + 1 : i \in 1..N \/ i = N + 1
    BY <1>2
  <2> QED
    BY <1>2, <2>1, <2>2, <2>3 DEF ReportedOnce
<1>8. \A d : \A i \in 1..N : Has(reports[i], d) => Has(reports'[i], d)
  BY <1>2 DEF Has
<1>9. GoneExplained'
  <2>1. ASSUME NEW n \in 1..L, call'[pushed[n]] = "failed"
        PROVE  \/ n + MaxTraceBuffer <= L
               \/ \E i \in 1..N + 1 : Has(reports'[i], pushed[n])
    <3>1. CASE n \in 1..L - b
      <4>1. call[pushed[n]] = "failed"
        BY <1>1, <1>2, <2>1
      <4>2. \/ n + MaxTraceBuffer <= L
            \/ \E i \in 1..N : Has(reports[i], pushed[n])
        BY <3>1, <4>1 DEF IInv, GoneExplained
      <4>3. \A i \in 1..N : i \in 1..N + 1
        BY <1>2
      <4> QED
        BY <1>8, <4>2, <4>3
    <3>2. CASE n \notin 1..L - b
      <4>1. n - (L - b) \in 1..b /\ (L - b) + (n - (L - b)) = n
        BY <1>2, <3>2
      <4>2. events[n - (L - b)] = pushed[n]
        BY <1>5, <4>1
      <4>3. Has(reports'[N + 1], pushed[n])
        BY <1>2, <4>1, <4>2 DEF Has
      <4> QED
        BY <1>2, <4>3
    <3> QED
      BY <3>1, <3>2
  <2>2. Len(pushed') - Len(events') = L
    BY <1>1, <1>2
  <2> QED
    BY <1>1, <1>2, <2>1, <2>2 DEF GoneExplained
<1>10. OwnEventExplained'
  <2>1. ASSUME NEW i \in 1..N
        PROVE  \/ Has(reports'[i], reports'[i].of)
               \/ \E j \in 1..i - 1 : Has(reports'[j], reports'[i].of)
               \/ \E n \in 1..L : pushed[n] = reports'[i].of /\ n + MaxTraceBuffer <= L
    <3>1. reports'[i] = reports[i] /\ \A j \in 1..i - 1 : j \in 1..N
      BY <1>2
    <3> QED
      BY <1>8, <3>1 DEF IInv, OwnEventExplained
  <2>2. \/ Has(reports'[N + 1], c)
        \/ \E j \in 1..N : Has(reports'[j], c)
        \/ \E n \in 1..L : pushed[n] = c /\ n + MaxTraceBuffer <= L
    <3>1. PICK n \in 1..L : pushed[n] = c
      BY <1>1 DEF IInv, PushedOnce
    <3>2. CASE n \in 1..L - b
      BY <1>1, <1>8, <3>1, <3>2 DEF IInv, GoneExplained
    <3>3. CASE n \notin 1..L - b
      <4>1. n - (L - b) \in 1..b /\ (L - b) + (n - (L - b)) = n
        BY <1>2, <3>3
      <4>2. events[n - (L - b)] = c
        BY <1>5, <3>1, <4>1
      <4> QED
        BY <1>2, <4>1, <4>2 DEF Has
    <3> QED
      BY <3>2, <3>3
  <2>3. \A i \in 1..N + 1 : i \in 1..N \/ (i = N + 1 /\ i - 1 = N)
    BY <1>2
  <2>4. ASSUME NEW i \in 1..N + 1
        PROVE  \/ Has(reports'[i], reports'[i].of)
               \/ \E j \in 1..i - 1 : Has(reports'[j], reports'[i].of)
               \/ \E n \in 1..L : pushed[n] = reports'[i].of /\ n + MaxTraceBuffer <= L
    <3>1. CASE i \in 1..N
      BY <2>1, <3>1
    <3>2. CASE i = N + 1 /\ i - 1 = N
      BY <1>2, <2>2, <3>2
    <3> QED
      BY <2>3, <3>1, <3>2
  <2> QED
    BY <1>1, <1>2, <2>4 DEF OwnEventExplained
<1> QED
  BY <1>3, <1>4, <1>6, <1>7, <1>9, <1>10 DEF IInv

\* The end of the process empties the buffer, and no call is left that would drain it.
LEMMA ExitStep ==
  ASSUME IInv, TypeOK', Exit
  PROVE  IInv'
<1> DEFINE L == Len(pushed)
           b == Len(events)
           N == Len(reports)
<1>1. /\ events' = <<>> /\ pushed' = pushed /\ Len(events') = 0
      /\ \A d \in Calls : call'[d] = IF call[d] = "new" THEN "new" ELSE "done"
      /\ Len(reports') = N
      /\ \A i \in 1..N : reports'[i].of = reports[i].of /\ reports'[i].traces = reports[i].traces
  <2>1. /\ reports' = [i \in 1..N |->
                  [reports[i] EXCEPT !.post = IF @ = "posting" THEN "lost" ELSE @]]
        /\ N \in Nat
    BY DEF Exit, IInv, TypeOK
  <2>2. \A i \in 1..N : reports[i] \in ErrorReport
    BY DEF IInv, TypeOK
  <2>3. \A i \in 1..N : reports'[i].of = reports[i].of /\ reports'[i].traces = reports[i].traces
    BY <2>1, <2>2 DEF ErrorReport
  <2>4. Len(reports') = N
    BY <2>1 DEF TypeOK
  <2> QED
    BY <2>3, <2>4 DEF Exit, IInv, TypeOK
<1>2. L \in Nat /\ b \in Nat /\ N \in Nat /\ b <= L /\ \A n \in 1..L : pushed[n] \in Calls
  BY DEF IInv, TypeOK, BufferIsNewest
<1>3. BufferIsNewest'
  BY <1>1, <1>2 DEF BufferIsNewest, PushedFrom
<1>4. PushedOnce'
  BY <1>1, <1>2 DEF IInv, PushedOnce
<1>5. ReportedBefore'
  <2>1. ASSUME NEW i \in 1..N, NEW k \in 1..Len(reports'[i].traces)
        PROVE  \E p \in 1..L : reports'[i].traces[k] = pushed[p]
    <3>1. reports'[i].traces = reports[i].traces
      BY <1>1
    <3>2. PICK p \in 1..L - b : reports[i].traces[k] = pushed[p]
      BY <3>1 DEF IInv, ReportedBefore
    <3>3. p \in 1..L
      BY <1>2
    <3> QED
      BY <3>1, <3>2, <3>3
  <2>2. Len(pushed') - Len(events') = L
    BY <1>1, <1>2
  <2> QED
    BY <1>1, <2>1, <2>2 DEF ReportedBefore
<1>6. ReportedOnce'
  <2>1. \A i, j \in 1..N : i # j =>
          \A k \in 1..Len(reports'[i].traces), l \in 1..Len(reports'[j].traces) :
              reports'[i].traces[k] # reports'[j].traces[l]
    BY <1>1 DEF IInv, ReportedOnce
  <2> QED
    BY <1>1, <2>1 DEF ReportedOnce
<1>7. GoneExplained'
  <2>1. \A n \in 1..L : call'[pushed[n]] # "failed"
    BY <1>1, <1>2
  <2>2. Len(pushed') - Len(events') = L
    BY <1>1, <1>2
  <2> QED
    BY <1>1, <2>1, <2>2 DEF GoneExplained
<1>8. OwnEventExplained'
  <2>1. \A j \in 1..N : \A c : Has(reports[j], c) <=> Has(reports'[j], c)
    BY <1>1 DEF Has
  <2>2. \A k \in 1..N : \A j \in 1..k - 1 : j \in 1..N
    BY <1>2
  <2> QED
    BY <1>1, <2>1, <2>2 DEF IInv, OwnEventExplained
<1> QED
  BY <1>3, <1>4, <1>5, <1>6, <1>7, <1>8 DEF IInv

\* Every step keeps the invariant.
THEOREM NextIInv == IInv /\ [Next]_vars => IInv'
<1> SUFFICES ASSUME IInv, [Next]_vars PROVE IInv'
  OBVIOUS
<1>1. TypeOK /\ TypeOK'
  BY NextType DEF IInv
<1>2. CASE \E c \in Calls : FnSucceeds(c) \/ FnFails(c)
  BY <1>1, <1>2, PushStep
<1>3. CASE \E c \in Calls : Drain(c)
  BY <1>1, <1>3, DrainStep
<1>4. CASE Exit
  BY <1>1, <1>4, ExitStep
<1>5. CASE ~Exit /\ ~\E c \in Calls : FnSucceeds(c) \/ FnFails(c) \/ Drain(c)
  BY <1>1, <1>5, QuietSteps, QuietKeepsInv
<1> QED
  BY <1>2, <1>3, <1>4, <1>5

-----------------------------------------------------------------------------
(* The theorems *)

\* IInv is invariant.
THEOREM Invariance == Spec => []IInv
  BY InitIInv, NextIInv, PTL DEF Spec

\* Every event, report and call is well formed and the buffer keeps its bound,
\* whatever its size and however many calls end at the same time.
THEOREM TypeCorrect == Spec => []TypeOK
<1>1. IInv => TypeOK
  BY DEF IInv
<1> QED
  BY <1>1, Invariance, PTL

\* The buffer is always the newest events in the order of their pushes.
THEOREM KeepsNewest == Spec => []BufferIsNewest
<1>1. IInv => BufferIsNewest
  BY DEF IInv
<1> QED
  BY <1>1, Invariance, PTL

\* No event is in two reports, or in a report and still in the buffer.
THEOREM Once == Spec => []ReportedOnce
<1>1. IInv => ReportedOnce
  BY DEF IInv
<1> QED
  BY <1>1, Invariance, PTL

\* A report that lacks the event of its own call came after another report
\* that has it, or after MaxTraceBuffer later events.
THEOREM OwnEvent == Spec => []OwnEventExplained
<1>1. IInv => OwnEventExplained
  BY DEF IInv
<1> QED
  BY <1>1, Invariance, PTL
=============================================================================
