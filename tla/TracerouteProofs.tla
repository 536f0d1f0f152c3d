-------------------------- MODULE TracerouteProofs --------------------------
(***************************************************************************)
(* For every number of hops, timeout and network: types; the deadline of a  *)
(* trace leaves room for all of its hops, so that only overhead can        *)
(* exhaust it; what is published is a whole trace; what Analyze blames is  *)
(* final.                                                                  *)
(***************************************************************************)
EXTENDS Traceroute, WellFoundedInduction, TLAPS

\* Where the time of a trace has gone: overhead, and one timeout for each hop
\* that is done.
TimeInv ==
  /\ ttl \in Nat \ {0}
  /\ elapsed \in Nat
  /\ sent \in Nat
  /\ overhead \in Nat
  /\ phase \in {"idle", "resolve", "loop", "hop"}
  /\ phase \in {"idle", "resolve"} => ttl = 1 /\ elapsed = overhead
  /\ phase = "loop" => elapsed <= overhead + (ttl - 1) * HopTimeout
  /\ phase = "hop" => /\ sent <= overhead + (ttl - 1) * HopTimeout
                      /\ elapsed <= sent + HopTimeout

\* One more hop is one more timeout.
LEMMA NextMultiple ==
  ASSUME NEW n \in Nat \ {0}, NEW t \in Nat
  PROVE  /\ (n - 1) * t + t = ((n + 1) - 1) * t
         /\ (n - 1) * t \in Nat
         /\ n * t \in Nat
  OBVIOUS

\* The hops that are left need at least one timeout.
LEMMA RoomForOne ==
  ASSUME NEW n \in Nat \ {0}, NEW m \in Nat, NEW t \in Nat, n <= m
  PROVE  (n - 1) * t + t <= m * t
<1>1. m - n \in Nat
  OBVIOUS
<1>2. m * t = n * t + (m - n) * t
  OBVIOUS
<1>3. (m - n) * t \in Nat
  BY <1>1
<1>4. (n - 1) * t + t = n * t
  OBVIOUS
<1> QED
  BY <1>2, <1>3, <1>4

\* The time invariant is inductive.
LEMMA TimeStep == TimeInv /\ [TracerouteNext]_tracerouteVars => TimeInv'
<1> SUFFICES ASSUME TimeInv, [TracerouteNext]_tracerouteVars
             PROVE  TimeInv'
  OBVIOUS
<1> USE TracerouteAssumption DEF TimeInv
<1>1. CASE Begin
  BY <1>1 DEF Begin, traceVars
<1>2. CASE Resolved
  BY <1>2, NextMultiple DEF Resolved, traceVars
<1>3. CASE SendEcho
  BY <1>3 DEF SendEcho
<1>4. CASE \E answer \in Answers : HopReturns(answer)
  BY <1>4, NextMultiple DEF HopReturns
<1>5. CASE Wait
  BY <1>5 DEF Wait
<1>6. CASE Discard
  BY <1>6 DEF Discard, ClearTrace
<1>7. CASE Publish
  BY <1>7 DEF Publish, ClearTrace
<1>8. CASE Delay
  BY <1>8, NextMultiple DEF Delay
<1>9. CASE Cancel \/ ICMPCheck \/ UNCHANGED tracerouteVars
  BY <1>9 DEF Cancel, ICMPCheck, tracerouteVars, traceVars
<1> QED
  BY <1>1, <1>2, <1>3, <1>4, <1>5, <1>6, <1>7, <1>8, <1>9
  DEF TracerouteNext, TraceStep

\* OnlyOverheadExhausts for every instance: a trace of a running agent runs out
\* of its context only if the time between its waits adds up to a whole hop
\* timeout (the contexts of mtr.go:172 and mtr.go:257).
THEOREM OnlyOverheadExhaustsTraces == TracerouteSpec => []OnlyOverheadExhausts
<1>1. TracerouteInit => TimeInv
  BY DEF TracerouteInit, TimeInv
<1>2. TimeInv => OnlyOverheadExhausts
  <2> SUFFICES ASSUME TimeInv, phase = "loop", ttl <= MaxHops, ~cancelled,
                      elapsed >= MaxHops * HopTimeout
               PROVE  overhead >= HopTimeout
    BY DEF OnlyOverheadExhausts, Expired, Budget
  <2> USE TracerouteAssumption DEF TimeInv
  <2>1. (ttl - 1) * HopTimeout + HopTimeout <= MaxHops * HopTimeout
    BY RoomForOne
  <2>2. elapsed <= overhead + (ttl - 1) * HopTimeout
    OBVIOUS
  <2>3. (ttl - 1) * HopTimeout \in Nat /\ MaxHops * HopTimeout \in Nat
    BY NextMultiple
  <2> QED
    BY <2>1, <2>2, <2>3
<1> QED
  BY <1>1, <1>2, TimeStep, PTL DEF TracerouteSpec

-----------------------------------------------------------------------------
(* What a trace has found so far *)

Hop == [hop : Nat, ip : IPs, rtt : Int, success : BOOLEAN]

\* Only the target replies.
LEMMA AnswerType ==
  ASSUME NEW answer \in Answers
  PROVE  /\ answer.ip \in IPs
         /\ answer.reply \in BOOLEAN
         /\ answer.reply => answer.ip = Target
<1>1. CASE answer \in [ip : IPs, reply : {FALSE}]
  BY <1>1
<1>2. CASE answer = [ip |-> Target, reply |-> TRUE]
  BY <1>2 DEF IPs
<1>3. QED
  BY <1>1, <1>2 DEF Answers

\* hs is a trace: hops 1, 2, ...
IsTrace(hs) ==
  /\ hs \in Seq(Hop)
  /\ \A i \in 1 .. Len(hs) : hs[i].hop = i

EndsAtTarget(hs) == Len(hs) > 0 /\ hs[Len(hs)].ip = Target

TraceInv ==
  /\ ttl \in 1 .. MaxHops + 1
  /\ IsTrace(hops)
  /\ reached => EndsAtTarget(hops)
  /\ Len(hops) = ttl - 1
  /\ phase = "hop" => ~reached /\ ttl <= MaxHops
  /\ \A r \in lastResult : /\ IsTrace(r.hops)
                           /\ r.reachedTarget => EndsAtTarget(r.hops)
                           /\ r.reachedTarget \/ Len(r.hops) = MaxHops

\* A hop added to a trace makes a trace.
LEMMA TraceGrows ==
  ASSUME NEW hs, IsTrace(hs), NEW h \in Hop, h.hop = Len(hs) + 1
  PROVE  /\ IsTrace(Append(hs, h))
         /\ h.ip = Target => EndsAtTarget(Append(hs, h))
         /\ Len(Append(hs, h)) = Len(hs) + 1
<1> DEFINE gs == Append(hs, h)
<1>1. hs \in Seq(Hop) /\ Len(hs) \in Nat
  BY DEF IsTrace
<1>2. gs \in Seq(Hop) /\ Len(gs) = Len(hs) + 1
  BY <1>1
<1>3. ASSUME NEW i \in 1 .. Len(gs)
      PROVE  gs[i].hop = i
  <2>1. CASE i = Len(gs)
    BY <1>1, <1>2, <2>1
  <2>2. CASE i # Len(gs)
    <3>1. i \in 1 .. Len(hs) /\ gs[i] = hs[i]
      BY <1>1, <1>2, <2>2
    <3> QED
      BY <3>1 DEF IsTrace
  <2> QED
    BY <2>1, <2>2
<1>4. gs[Len(gs)] = h
  BY <1>1, <1>2
<1> QED
  BY <1>1, <1>2, <1>3, <1>4 DEF IsTrace, EndsAtTarget

LEMMA EmptyTrace == IsTrace(<<>>)
  BY DEF IsTrace

LEMMA TraceStepInv ==
  TimeInv /\ TraceInv /\ [TracerouteNext]_tracerouteVars => TraceInv'
<1> SUFFICES ASSUME TimeInv, TraceInv, [TracerouteNext]_tracerouteVars
             PROVE  TraceInv'
  OBVIOUS
<1> USE TracerouteAssumption DEF TraceInv
<1>1. CASE UNCHANGED <<ttl, hops, reached, lastResult>> /\ phase' # "hop"
  BY <1>1
<1>2. CASE SendEcho
  BY <1>2 DEF SendEcho, resultVars
<1>3. ASSUME NEW answer \in Answers, HopReturns(answer)
      PROVE  TraceInv'
  <2> DEFINE h == IF answer.ip = Silent THEN HopOf(ttl, Silent, 0, FALSE)
                                        ELSE HopOf(ttl, answer.ip, elapsed - sent, TRUE)
             found == answer.reply
  <2>1. /\ h \in Hop /\ h.hop = ttl
        /\ found => h.ip = Target
    BY AnswerType, TracerouteAssumption DEF Hop, HopOf, TimeInv, IPs
  <2>2. /\ phase = "hop" /\ phase' = "loop"
        /\ hops' = Append(hops, h)
        /\ reached' = found
        /\ ttl' = ttl + 1
        /\ lastResult' = lastResult
    BY <1>3 DEF HopReturns, resultVars
  <2> HIDE DEF h, found
  <2>3. IsTrace(hops)
    OBVIOUS
  <2>4. h.hop = Len(hops) + 1
    BY <2>1
  <2>5. /\ IsTrace(Append(hops, h))
        /\ h.ip = Target => EndsAtTarget(Append(hops, h))
        /\ Len(Append(hops, h)) = Len(hops) + 1
    BY <2>1, <2>3, <2>4, TraceGrows
  <2>6. Len(hops') = ttl' - 1
    BY <2>1, <2>2, <2>5
  <2>7. IsTrace(hops') /\ (reached' => EndsAtTarget(hops'))
    BY <2>1, <2>2, <2>5, Zenon
  <2> QED
    BY <2>2, <2>6, <2>7
<1>4. CASE Wait
  BY <1>4 DEF Wait, resultVars
<1>5. CASE Discard
  <2>1. /\ lastResult' = lastResult
        /\ ttl' = 1 /\ hops' = <<>> /\ reached' = FALSE /\ phase' = "idle"
    BY <1>5 DEF Discard, ClearTrace, resultVars
  <2>2. ttl' \in 1 .. MaxHops + 1 /\ Len(hops') = ttl' - 1
    BY <2>1
  <2>3. IsTrace(hops')
    BY <2>1 DEF IsTrace
  <2> QED
    BY <2>1, <2>2, <2>3
<1>6. CASE Publish
  <2>1. /\ lastResult' = {[hops |-> hops, reachedTarget |-> reached]}
        /\ ttl' = 1 /\ hops' = <<>> /\ reached' = FALSE /\ phase' = "idle"
        /\ ttl > MaxHops \/ reached
    BY <1>6 DEF Publish, ClearTrace
  <2>2. reached \/ Len(hops) = MaxHops
    BY <2>1
  <2>3. Len(hops') = ttl' - 1
    BY <2>1
  <2>4. ttl' \in 1 .. MaxHops + 1
    BY <2>1
  <2>5. IsTrace(hops')
    BY <2>1 DEF IsTrace
  <2>6. \A r \in lastResult' : /\ IsTrace(r.hops)
                               /\ r.reachedTarget => EndsAtTarget(r.hops)
                               /\ r.reachedTarget \/ Len(r.hops) = MaxHops
    BY <2>1, <2>2
  <2> QED
    BY <2>1, <2>3, <2>4, <2>5, <2>6
<1> QED
  BY <1>1, <1>2, <1>3, <1>4, <1>5, <1>6
  DEF TracerouteNext, TraceStep, Begin, Resolved, Delay, Cancel, ICMPCheck,
      tracerouteVars, traceVars, resultVars, TimeInv

LEMMA InitialTrace == TracerouteInit => TimeInv /\ TraceInv
<1> SUFFICES ASSUME TracerouteInit PROVE TimeInv /\ TraceInv
  OBVIOUS
<1>1. TimeInv
  BY DEF TracerouteInit, TimeInv
<1>2. IsTrace(hops) /\ Len(hops) = ttl - 1
  BY DEF TracerouteInit, IsTrace
<1>3. reached = FALSE /\ phase = "idle" /\ lastResult = {} /\ ttl = 1
  BY DEF TracerouteInit
<1>4. ttl \in 1 .. MaxHops + 1
  BY <1>3, TracerouteAssumption
<1> QED
  BY <1>1, <1>2, <1>3, <1>4 DEF TraceInv

\* PublishedIsWhole for every instance: no result that was cut short reaches
\* LastResult or Analyze (mtr.go:185).
THEOREM PublishedTracesAreWhole == TracerouteSpec => []PublishedIsWhole
<1>1. TracerouteInit => TimeInv /\ TraceInv
  BY InitialTrace
<1>2. TraceInv => PublishedIsWhole
  BY DEF TraceInv, PublishedIsWhole, IsTrace, EndsAtTarget
<1>3. TimeInv /\ TraceInv /\ [TracerouteNext]_tracerouteVars
        => TimeInv' /\ TraceInv'
  BY TimeStep, TraceStepInv
<1> QED
  BY <1>1, <1>2, <1>3, PTL DEF TracerouteSpec

-----------------------------------------------------------------------------
(* Types *)

\* Where the time of a trace has gone, and what is reported.
TypeInv ==
  /\ TracerouteTypeOK
  /\ phase = "hop" => elapsed - sent \in 0 .. HopTimeout

\* All hops together fit into the context.
LEMMA BudgetBounds ==
  ASSUME NEW n \in 1 .. MaxHops + 1
  PROVE  /\ Budget \in Nat
         /\ (n - 1) * HopTimeout \in Nat
         /\ (n - 1) * HopTimeout <= Budget
         /\ n <= MaxHops => (n - 1) * HopTimeout + HopTimeout <= Budget
<1> USE TracerouteAssumption DEF Budget
<1>1. Budget \in Nat /\ (n - 1) * HopTimeout \in Nat
  BY NextMultiple
<1>2. CASE n <= MaxHops
  BY <1>1, <1>2, RoomForOne
<1>3. CASE n = MaxHops + 1
  BY <1>1, <1>3
<1> QED
  BY <1>1, <1>2, <1>3

\* Without a loss and without latency, Analyze says normal.
LEMMA NothingToReport ==
  OnResult = [diagnosis |-> DiagnosisOK, faultyHop |-> 0]
BY ThresholdAssumption DEF OnResult, Analyze

LEMMA TypeStep ==
  TimeInv /\ TraceInv /\ TypeInv /\ TimeInv' /\ TraceInv' /\ [TracerouteNext]_tracerouteVars
    => TypeInv'
<1> SUFFICES ASSUME TimeInv, TraceInv, TypeInv, TimeInv', TraceInv',
                    [TracerouteNext]_tracerouteVars
             PROVE  TypeInv'
  OBVIOUS
<1> DEFINE Hops == [hop : 1 .. MaxHops, ip : IPs, rtt : 0 .. HopTimeout, success : BOOLEAN]
<1>types. /\ traces \in 0 .. MaxTraces /\ phase \in {"idle", "resolve", "loop", "hop"}
          /\ ttl \in 1 .. MaxHops + 1 /\ hops \in Seq(Hops) /\ reached \in BOOLEAN
          /\ elapsed \in 0 .. Budget + MaxOverhead /\ sent \in 0 .. elapsed
          /\ overhead \in 0 .. MaxOverhead /\ cancelled \in BOOLEAN /\ icmpLoss \in {0, 100}
          /\ report.diagnosis \in Diagnoses /\ report.faultyHop \in 0 .. MaxHops
          /\ phase = "hop" => elapsed - sent \in 0 .. HopTimeout
  BY DEF TypeInv, TracerouteTypeOK
<1>budget. Budget \in Nat
  BY <1>types, BudgetBounds
<1> USE TracerouteAssumption, <1>types, <1>budget
<1>1. CASE Begin
  BY <1>1 DEF Begin, traceVars, resultVars, TypeInv, TracerouteTypeOK
<1>2. CASE Resolved
  BY <1>2 DEF Resolved, traceVars, contextVars, resultVars, TypeInv, TracerouteTypeOK
<1>3. CASE SendEcho
  BY <1>3 DEF SendEcho, contextVars, resultVars, TypeInv, TracerouteTypeOK
<1>4. ASSUME NEW answer \in Answers, HopReturns(answer)
      PROVE  TypeInv'
  <2> DEFINE h == IF answer.ip = Silent THEN HopOf(ttl, Silent, 0, FALSE)
                                        ELSE HopOf(ttl, answer.ip, elapsed - sent, TRUE)
  <2>1. ttl \in 1 .. MaxHops /\ elapsed - sent \in 0 .. HopTimeout
    BY <1>4 DEF HopReturns, TraceInv
  <2>2. h \in Hops
    BY <2>1, AnswerType DEF HopOf, IPs
  <2>3. hops \in Seq(Hops) /\ hops' = Append(hops, h)
    BY <1>4 DEF HopReturns
  <2> HIDE DEF h, Hops
  <2>4. hops' \in Seq(Hops)
    BY <2>2, <2>3
  <2>5. /\ ttl' = ttl + 1 /\ reached' = answer.reply /\ phase' = "loop"
        /\ UNCHANGED <<elapsed, sent, overhead, traces, cancelled, icmpLoss, report>>
    BY <1>4 DEF HopReturns, contextVars, resultVars
  <2>6. reached' \in BOOLEAN /\ ttl' \in 1 .. MaxHops + 1
    BY <2>1, <2>5, AnswerType
  <2> QED
    BY <2>4, <2>5, <2>6 DEF TypeInv, TracerouteTypeOK, Hops
<1>5. CASE Wait
  <2>1. elapsed' = elapsed + 1 /\ elapsed < sent + HopTimeout /\ phase = "hop"
    BY <1>5 DEF Wait
  <2>2. sent <= overhead + (ttl - 1) * HopTimeout /\ ttl <= MaxHops
    BY <2>1 DEF TimeInv, TraceInv
  <2>3. (ttl - 1) * HopTimeout \in Nat /\ (ttl - 1) * HopTimeout + HopTimeout <= Budget
    BY <2>2, BudgetBounds
  <2>4. elapsed' \in 0 .. Budget + MaxOverhead /\ sent \in 0 .. elapsed'
    BY <2>1, <2>2, <2>3
  <2>5. elapsed' - sent \in 0 .. HopTimeout
    BY <2>1
  <2> QED
    BY <1>5, <2>4, <2>5 DEF Wait, contextVars, resultVars, TypeInv, TracerouteTypeOK
<1>6. CASE Discard
  <2>1. /\ ttl' = 1 /\ hops' = <<>> /\ reached' = FALSE /\ phase' = "idle"
        /\ elapsed' = 0 /\ sent' = 0 /\ overhead' = 0
        /\ UNCHANGED <<traces, cancelled, icmpLoss, report>>
    BY <1>6 DEF Discard, ClearTrace, contextVars, resultVars
  <2> HIDE DEF Hops
  <2>2. hops' \in Seq(Hops)
    BY <2>1
  <2>3. /\ phase' = "idle" /\ ttl' \in 1 .. MaxHops + 1
        /\ elapsed' \in 0 .. Budget + MaxOverhead /\ sent' \in 0 .. elapsed'
        /\ overhead' \in 0 .. MaxOverhead
        /\ UNCHANGED <<traces, cancelled, icmpLoss, report>>
    BY <2>1
  <2>4. reached' \in BOOLEAN
    BY <2>1
  <2> QED
    BY <2>2, <2>3, <2>4 DEF TypeInv, TracerouteTypeOK, Hops
<1>7. CASE Publish
  <2>1. /\ ttl' = 1 /\ hops' = <<>> /\ reached' = FALSE /\ phase' = "idle"
        /\ elapsed' = 0 /\ sent' = 0 /\ overhead' = 0
        /\ UNCHANGED <<traces, cancelled, icmpLoss>>
    BY <1>7 DEF Publish, ClearTrace, contextVars
  <2>2. report'.diagnosis \in Diagnoses /\ report'.faultyHop \in 0 .. MaxHops
    BY <1>7, NothingToReport DEF Publish, Diagnoses
  <2> HIDE DEF Hops
  <2>3. hops' \in Seq(Hops)
    BY <2>1
  <2>4. /\ phase' = "idle" /\ ttl' \in 1 .. MaxHops + 1
        /\ elapsed' \in 0 .. Budget + MaxOverhead /\ sent' \in 0 .. elapsed'
        /\ overhead' \in 0 .. MaxOverhead
        /\ UNCHANGED <<traces, cancelled, icmpLoss>>
    BY <2>1
  <2>5. reached' \in BOOLEAN
    BY <2>1
  <2> QED
    BY <2>2, <2>3, <2>4, <2>5 DEF TypeInv, TracerouteTypeOK, Hops
<1>8. CASE Delay
  <2>1. /\ elapsed' = elapsed + 1 /\ overhead' = overhead + 1 /\ overhead < MaxOverhead
        /\ phase \in {"resolve", "loop"}
        /\ UNCHANGED <<phase, ttl, hops, reached, sent, traces, cancelled, icmpLoss, report>>
    BY <1>8 DEF Delay, contextVars, resultVars
  <2>2. elapsed <= overhead + (ttl - 1) * HopTimeout
    BY <2>1 DEF TimeInv
  <2>3. (ttl - 1) * HopTimeout \in Nat /\ (ttl - 1) * HopTimeout <= Budget
    BY BudgetBounds
  <2>4. elapsed' \in 0 .. Budget + MaxOverhead /\ sent' \in 0 .. elapsed'
    BY <2>1, <2>2, <2>3
  <2> QED
    BY <2>1, <2>4 DEF TypeInv, TracerouteTypeOK
<1>9. CASE Cancel
  BY <1>9 DEF Cancel, traceVars, resultVars, TypeInv, TracerouteTypeOK
<1>10. CASE ICMPCheck
  BY <1>10 DEF ICMPCheck, traceVars, resultVars, TypeInv, TracerouteTypeOK
<1>11. CASE UNCHANGED tracerouteVars
  BY <1>11 DEF tracerouteVars, TypeInv, TracerouteTypeOK
<1> QED
  BY <1>1, <1>2, <1>3, <1>4, <1>5, <1>6, <1>7, <1>8, <1>9, <1>10, <1>11
  DEF TracerouteNext, TraceStep

LEMMA TracerouteInductive == TracerouteSpec => [](TimeInv /\ TraceInv /\ TypeInv)
<1>1. TracerouteInit => TimeInv /\ TraceInv /\ TypeInv
  <2> SUFFICES ASSUME TracerouteInit PROVE TimeInv /\ TraceInv /\ TypeInv
    OBVIOUS
  <2> DEFINE Hops == [hop : 1 .. MaxHops, ip : IPs, rtt : 0 .. HopTimeout, success : BOOLEAN]
  <2>1. Budget \in Nat
    BY TracerouteAssumption, BudgetBounds
  <2>2. TypeInv
    <3>1. report.diagnosis \in Diagnoses /\ report.faultyHop \in 0 .. MaxHops
      BY TracerouteAssumption DEF TracerouteInit, Diagnoses
    <3> HIDE DEF Hops
    <3>2. hops \in Seq(Hops)
      BY DEF TracerouteInit
    <3>3. /\ traces \in 0 .. MaxTraces /\ phase = "idle"
          /\ ttl \in 1 .. MaxHops + 1
          /\ elapsed \in 0 .. Budget + MaxOverhead /\ sent \in 0 .. elapsed
          /\ overhead \in 0 .. MaxOverhead
          /\ icmpLoss \in {0, 100}
      BY <2>1, TracerouteAssumption DEF TracerouteInit
    <3>4. reached \in BOOLEAN /\ cancelled \in BOOLEAN
      BY DEF TracerouteInit
    <3> QED
      BY <3>1, <3>2, <3>3, <3>4 DEF TypeInv, TracerouteTypeOK, Hops
  <2>3. TimeInv /\ TraceInv
    BY InitialTrace
  <2> QED
    BY <2>2, <2>3
<1>2. TimeInv /\ TraceInv /\ TypeInv /\ [TracerouteNext]_tracerouteVars
        => TimeInv' /\ TraceInv' /\ TypeInv'
  BY TimeStep, TraceStepInv, TypeStep
<1> QED
  BY <1>1, <1>2, PTL DEF TracerouteSpec

\* Type correctness for every instance; that no trace exceeds its context by
\* more than the overhead is part of it (mtr.go:172).
THEOREM TracerouteTypeCorrect == TracerouteSpec => []TracerouteTypeOK
<1>1. TypeInv => TracerouteTypeOK
  BY DEF TypeInv
<1> QED
  BY <1>1, TracerouteInductive, PTL

-----------------------------------------------------------------------------
(* The blame *)

\* A set of numbers has a least element, and Min finds it.
LEMMA MinExists ==
  ASSUME NEW S, S \subseteq Nat, S # {}
  PROVE  Min(S) \in S /\ \A y \in S : Min(S) <= y
<1> DEFINE Less == {p \in Nat \X Nat : p[1] < p[2]}
<1>1. IsWellFoundedOn(Less, Nat)
  BY NatLessThanWellFounded DEF OpToRel
<1>2. \E x \in S : \A y \in S : ~ (<<y, x>> \in Less)
  <2> HIDE DEF Less
  <2> QED
    BY <1>1, WFMin
<1>3. PICK x \in S : \A y \in S : ~ (<<y, x>> \in Less)
  BY <1>2
<1>4. x \in Nat /\ \A y \in S : y \in Nat /\ ~ (y < x)
  BY <1>3
<1>5. \A y \in S : x <= y
  BY <1>4
<1> QED
  BY <1>5 DEF Min

\* A number beyond all others does not change the least one.
LEMMA MinIsStable ==
  ASSUME NEW S, S \subseteq Nat, S # {}, NEW T, T \subseteq Nat, S \subseteq T,
         \A y \in T \ S : \A x \in S : x <= y
  PROVE  Min(T) = Min(S)
<1>1. Min(S) \in S /\ \A y \in S : Min(S) <= y
  BY MinExists
<1>2. Min(T) \in T /\ \A y \in T : Min(T) <= y
  BY MinExists
<1>3. Min(S) <= Min(T)
  BY <1>1, <1>2
<1>4. Min(T) <= Min(S)
  BY <1>1, <1>2
<1>5. Min(S) \in Nat /\ Min(T) \in Nat
  BY <1>1, <1>2
<1> QED
  BY <1>3, <1>4, <1>5

\* What Analyze blames is decided by the hops up to the first faulty one.
LEMMA BlameStays ==
  ASSUME NEW hs \in Seq(Hop), NEW h, FaultyHop(hs) # 0
  PROVE  FaultyHop(Append(hs, h)) = FaultyHop(hs)
<1> DEFINE gs == Append(hs, h)
           S == FaultyHops(hs)
           T == FaultyHops(gs)
<1>1. S # {}
  BY DEF FaultyHop
<1>2. /\ Len(hs) \in Nat /\ DOMAIN hs = 1 .. Len(hs)
      /\ DOMAIN gs = 1 .. Len(hs) + 1
      /\ \A i \in 1 .. Len(hs) : gs[i] = hs[i]
  OBVIOUS
<1> HIDE DEF gs
<1>3. S \subseteq 1 .. Len(hs) /\ T \subseteq 1 .. Len(hs) + 1 /\ S \subseteq T
  BY <1>2 DEF FaultyHops
<1>4. \A y \in T \ S : y = Len(hs) + 1
  BY <1>2 DEF FaultyHops
<1> HIDE DEF S, T
<1>5. Min(T) = Min(S)
  <2>1. S \subseteq Nat /\ T \subseteq Nat
    BY <1>2, <1>3
  <2>2. \A y \in T \ S : \A x \in S : x <= y
    BY <1>2, <1>3, <1>4
  <2> QED
    BY <1>1, <1>3, <2>1, <2>2, MinIsStable
<1>6. Min(S) \in S
  <2>1. S \subseteq Nat
    BY <1>2, <1>3
  <2> QED
    BY <1>1, <2>1, MinExists
<1>7. gs[Min(T)] = hs[Min(S)]
  BY <1>2, <1>3, <1>5, <1>6
<1>8. T # {}
  BY <1>1, <1>3
<1> QED
  BY <1>1, <1>7, <1>8 DEF FaultyHop, S, T, gs

\* Only HopReturns makes a trace longer, and it appends one hop.
LEMMA TracesGrowAtTheEnd ==
  ASSUME TraceInv, [TracerouteNext]_tracerouteVars, Len(hops') > Len(hops)
  PROVE  \E h : hops' = Append(hops, h)
<1>1. hops \in Seq(Hop) /\ Len(hops) \in Nat
  BY DEF TraceInv, IsTrace
<1>2. hops' # hops
  BY <1>1
<1>3. hops' # <<>>
  BY <1>1
<1>4. ASSUME NEW answer \in Answers, HopReturns(answer)
      PROVE  \E h : hops' = Append(hops, h)
  BY <1>4 DEF HopReturns
<1> QED
  BY <1>2, <1>3, <1>4
  DEF TracerouteNext, TraceStep, Begin, Resolved, SendEcho, Wait, Discard, Publish,
      Delay, Cancel, ICMPCheck, ClearTrace, traceVars, tracerouteVars

\* BlameIsStable for every network and number of hops: the search of Analyze
\* stops at the first faulty hop (the break of analyzer.go:100), so no hop
\* behind it changes what is said.
THEOREM BlameStaysPut == TracerouteSpec => BlameIsStable
<1>1. TraceInv /\ [TracerouteNext]_tracerouteVars
        => [Len(hops') > Len(hops) /\ Blame.faultyHop # 0 => Blame' = Blame]_tracerouteVars
  <2> SUFFICES ASSUME TraceInv, [TracerouteNext]_tracerouteVars,
                      Len(hops') > Len(hops), Blame.faultyHop # 0
               PROVE  Blame' = Blame
    OBVIOUS
  <2>1. PICK h : hops' = Append(hops, h)
    BY TracesGrowAtTheEnd
  <2>2. hops \in Seq(Hop)
    BY DEF TraceInv, IsTrace
  <2>3. FaultyHop(hops) # 0
    BY ThresholdAssumption DEF Blame, Analyze
  <2>4. FaultyHop(hops') = FaultyHop(hops)
    BY <2>1, <2>2, <2>3, BlameStays
  <2>5. hops # <<>> /\ hops' # <<>>
    BY <2>1, <2>2, <2>3 DEF FaultyHop, FaultyHops
  <2>6. ~ (100 < LossThreshold)
    BY ThresholdAssumption
  <2> QED
    BY <2>3, <2>4, <2>5, <2>6 DEF Blame, Analyze, Classify
<1> QED
  BY <1>1, TracerouteInductive, PTL DEF TracerouteSpec, BlameIsStable

-----------------------------------------------------------------------------
(* What is reported *)

\* Analyze itself does what section 5 of specs/design.md asks for: whatever the
\* trace looks like, a loss or a latency at its threshold is never called
\* normal, and where a hop of the trace is faulty the report names the first
\* one (analyzer.go:61-101).
THEOREM AnomaliesAreNeverNormal ==
  ASSUME NEW loss \in Nat, NEW rtt \in Nat,
         loss >= LossThreshold \/ rtt >= LatencyThreshold,
         NEW hs \in Seq(Hop), NEW there \in BOOLEAN
  PROVE  /\ Analyze(loss, rtt, hs, there).diagnosis \in Diagnoses \ {DiagnosisOK}
         /\ FaultyHops(hs) # {} =>
              Analyze(loss, rtt, hs, there).faultyHop = hs[Min(FaultyHops(hs))].hop
<1>1. ~ (loss < LossThreshold /\ rtt < LatencyThreshold)
  BY ThresholdAssumption
<1>2. Analyze(loss, rtt, hs, there) =
        [diagnosis |-> Classify(loss, rtt, hs, there), faultyHop |-> FaultyHop(hs)]
  BY <1>1 DEF Analyze
<1>3. Classify(loss, rtt, hs, there) \in Diagnoses \ {DiagnosisOK}
  BY DEF Classify, WithoutTrace, Segment, Diagnoses, DiagnosisOK, DiagnosisLocalNetwork,
         DiagnosisISPGateway, DiagnosisTransitLoss, DiagnosisTargetUnreachable,
         DiagnosisHighLatency
<1>4. QED
  BY <1>2, <1>3 DEF FaultyHop

\* And nothing of it reaches the log: onResult passes a loss and a latency of
\* zero (run.go:144), so for every network, number of hops and pair of legal
\* thresholds every report that is ever made says "normal".  The run that
\* refutes AnomalyIsReported shows one behaviour; this is all of them.
ReportIsNormal == report = [diagnosis |-> DiagnosisOK, faultyHop |-> 0]

THEOREM NothingIsEverReported == TracerouteSpec => []ReportIsNormal
<1>1. TracerouteInit => ReportIsNormal
  BY DEF TracerouteInit, ReportIsNormal
<1>2. ReportIsNormal /\ [TracerouteNext]_tracerouteVars => ReportIsNormal'
  <2> SUFFICES ASSUME ReportIsNormal, [TracerouteNext]_tracerouteVars
               PROVE  ReportIsNormal'
    OBVIOUS
  <2>1. CASE Publish
    <3>1. 0 < LossThreshold /\ 0 < LatencyThreshold
      BY ThresholdAssumption
    <3>2. QED
      BY <2>1, <3>1 DEF Publish, OnResult, Analyze, ReportIsNormal
  <2>2. CASE ~Publish
    BY <2>2 DEF TracerouteNext, TraceStep, Begin, Resolved, SendEcho, HopReturns, Wait,
                Discard, Delay, Cancel, ICMPCheck, resultVars, tracerouteVars,
                ReportIsNormal
  <2>3. QED
    BY <2>1, <2>2
<1>3. QED
  BY <1>1, <1>2, PTL DEF TracerouteSpec

=============================================================================
