----------------------------- MODULE Traceroute -----------------------------
(***************************************************************************)
(* One MTR probe (internal/probes/mtr.go) from the start of a trace to the *)
(* report about it: Trace and pingHop, which probe hop after hop against   *)
(* two deadlines, executeTrace, which publishes the result, and the        *)
(* onResult callback that RunApp gives the probe, which calls Analyze.     *)
(* When a trace starts is the subject of ProbeWorker; that it ends, which  *)
(* ProbeWorker takes for granted, is shown here.                           *)
(*                                                                         *)
(* Time passes in units.  A hop waits HopTimeout units for its answer; the *)
(* whole trace has MaxHops * HopTimeout.  The time between two waits       *)
(* (resolving the host, opening sockets, a process that is not scheduled)  *)
(* is overhead.  The network answers as it likes.                          *)
(*                                                                         *)
(* What executeTrace records about each hop, with the instruments of       *)
(* Measurement, is left out.                                               *)
(***************************************************************************)
EXTENDS Diagnosis

CONSTANTS
  MaxHops,              \* max_hops
  HopTimeout,           \* the timeout of the probe, in units
  MaxOverhead,          \* bound on the overhead of one trace
  MaxTraces,            \* bound on the number of traces
  Routers,              \* the addresses of routers
  Target,               \* the address of the host that is traced
  Silent                \* the "*" that stands for no answer

ASSUME TracerouteAssumption ==
  /\ MaxHops \in Nat \ {0}
  /\ HopTimeout \in Nat \ {0}
  /\ MaxOverhead \in Nat
  /\ MaxTraces \in Nat
  /\ Target \notin Routers
  /\ Silent \notin Routers \cup {Target}

VARIABLES
  traces,               \* how many traces have begun
  phase,                \* "idle", "resolve", "loop" (between hops) or "hop"
  ttl,                  \* the hop that is probed, or probed next
  hops, reached,        \* result.Hops and result.ReachedTarget
  elapsed,              \* since executeTrace made its context
  sent,                 \* elapsed at the time the echo request was sent
  overhead,             \* how much of elapsed was overhead
  cancelled,            \* has the agent's context been cancelled?
  icmpLoss,             \* what the ICMP probe of the same target measured last
  lastResult,           \* p.lastResult: a set that holds it, or is empty
  report                \* the last report of Analyze

traceVars == <<ttl, hops, reached, elapsed, sent, overhead>>
contextVars == <<traces, cancelled, icmpLoss>>
resultVars == <<lastResult, report>>
tracerouteVars == <<traces, phase, ttl, hops, reached, elapsed, sent, overhead,
                    cancelled, icmpLoss, lastResult, report>>

\* Mutant: time for the routers, none for the target.
BudgetShort == (MaxHops - 1) * HopTimeout

\* The timeout of traceCtx.
Budget == MaxHops * HopTimeout

HopOf(n, ip, rtt, success) ==
  [hop |-> n, ip |-> ip, rtt |-> rtt, success |-> success]

IPs == Routers \cup {Target, Silent}

\* What pingHop may return: nobody answered, a time exceeded from any address,
\* the target's own included, or the echo reply of the target.  Only the last
\* comes with reachedTarget set.
Answers == [ip : IPs, reply : {FALSE}] \cup {[ip |-> Target, reply |-> TRUE]}

TracerouteTypeOK ==
  /\ traces \in 0 .. MaxTraces
  /\ phase \in {"idle", "resolve", "loop", "hop"}
  /\ ttl \in 1 .. MaxHops + 1
  /\ hops \in Seq([hop : 1 .. MaxHops, ip : IPs,
                   rtt : 0 .. HopTimeout, success : BOOLEAN])
  /\ reached \in BOOLEAN
  /\ elapsed \in 0 .. Budget + MaxOverhead
  /\ sent \in 0 .. elapsed
  /\ overhead \in 0 .. MaxOverhead
  /\ cancelled \in BOOLEAN
  /\ icmpLoss \in {0, 100}
  /\ report.diagnosis \in Diagnoses
  /\ report.faultyHop \in 0 .. MaxHops

ClearTrace ==
  /\ ttl' = 1
  /\ hops' = <<>>
  /\ reached' = FALSE
  /\ elapsed' = 0
  /\ sent' = 0
  /\ overhead' = 0

TracerouteInit ==
  /\ traces = 0
  /\ phase = "idle"
  /\ ttl = 1 /\ hops = <<>> /\ reached = FALSE
  /\ elapsed = 0 /\ sent = 0 /\ overhead = 0
  /\ cancelled = FALSE
  /\ icmpLoss = 0
  /\ lastResult = {}
  /\ report = [diagnosis |-> DiagnosisOK, faultyHop |-> 0]

-----------------------------------------------------------------------------
(* The tracer *)

Begin ==
  /\ phase = "idle"
  /\ traces < MaxTraces
  /\ traces' = traces + 1
  /\ phase' = "resolve"
  /\ UNCHANGED <<traceVars, cancelled, icmpLoss, resultVars>>

Resolved ==
  /\ phase = "resolve"
  /\ phase' = "loop"
  /\ UNCHANGED <<traceVars, contextVars, resultVars>>

\* Is traceCtx done?
Expired == cancelled \/ elapsed >= Budget

\* The next hop, unless the context is done: its echo request is sent.
SendEcho ==
  /\ phase = "loop"
  /\ ttl <= MaxHops
  /\ ~reached
  /\ ~Expired
  /\ phase' = "hop"
  /\ sent' = elapsed
  /\ UNCHANGED <<ttl, hops, reached, elapsed, overhead, contextVars, resultVars>>

\* Mutant: hops are counted from zero.
HopReturnsFromZero(answer) ==
  /\ phase = "hop"
  /\ hops' = Append(hops,
               IF answer.ip = Silent THEN HopOf(ttl - 1, Silent, 0, FALSE)
                                     ELSE HopOf(ttl - 1, answer.ip, elapsed - sent, TRUE))
  /\ reached' = answer.reply
  /\ ttl' = ttl + 1
  /\ phase' = "loop"
  /\ UNCHANGED <<elapsed, sent, overhead, contextVars, resultVars>>

\* pingHop returns, with an error or with the RTT of the packet it matched.
HopReturns(answer) ==
  /\ phase = "hop"
  /\ hops' = Append(hops,
               IF answer.ip = Silent THEN HopOf(ttl, Silent, 0, FALSE)
                                     ELSE HopOf(ttl, answer.ip, elapsed - sent, TRUE))
  /\ reached' = answer.reply
  /\ ttl' = ttl + 1
  /\ phase' = "loop"
  /\ UNCHANGED <<elapsed, sent, overhead, contextVars, resultVars>>

\* Mutant: the reads have no deadline of their own.
WaitForever ==
  /\ phase = "hop"
  /\ elapsed' = IF elapsed < sent + HopTimeout THEN elapsed + 1 ELSE sent
  /\ UNCHANGED <<phase, ttl, hops, reached, sent, overhead, contextVars, resultVars>>

\* pingHop waits: nothing comes, or packets that are not for it.
Wait ==
  /\ phase = "hop"
  /\ elapsed < sent + HopTimeout
  /\ elapsed' = elapsed + 1
  /\ UNCHANGED <<phase, ttl, hops, reached, sent, overhead, contextVars, resultVars>>

Delay ==
  /\ phase \in {"resolve", "loop"}
  /\ overhead < MaxOverhead
  /\ elapsed' = elapsed + 1
  /\ overhead' = overhead + 1
  /\ UNCHANGED <<phase, ttl, hops, reached, sent, contextVars, resultVars>>

\* Mutant: the error of Trace is ignored if there is a result.
DiscardUnresolved ==
  /\ \/ phase = "resolve" /\ UNCHANGED resultVars
     \/ /\ phase = "loop" /\ ttl <= MaxHops /\ ~reached /\ Expired
        /\ lastResult' = {[hops |-> hops, reachedTarget |-> reached]}
        /\ UNCHANGED report
  /\ phase' = "idle"
  /\ ClearTrace
  /\ UNCHANGED contextVars

\* The host does not resolve, or the context is done before a hop: executeTrace
\* returns without a trace of what has been found so far.
Discard ==
  /\ \/ phase = "resolve"
     \/ phase = "loop" /\ ttl <= MaxHops /\ ~reached /\ Expired
  /\ phase' = "idle"
  /\ ClearTrace
  /\ UNCHANGED <<contextVars, resultVars>>

-----------------------------------------------------------------------------
(* executeTrace, after Trace has returned *)

\* onResult of RunApp: it hands Analyze neither a loss nor a latency.
OnResult == Analyze(0, 0, hops, reached)

\* The loop is over: the target has answered, or the last hop is done.
Publish ==
  /\ phase = "loop"
  /\ ttl > MaxHops \/ reached
  /\ lastResult' = {[hops |-> hops, reachedTarget |-> reached]}
  /\ report' = OnResult
  /\ phase' = "idle"
  /\ ClearTrace
  /\ UNCHANGED contextVars

\* Around the probe: the signal, and the ICMP probe of the same target.
Cancel ==
  /\ ~cancelled
  /\ cancelled' = TRUE
  /\ UNCHANGED <<traces, phase, traceVars, icmpLoss, resultVars>>

ICMPCheck ==
  /\ icmpLoss' = 100 - icmpLoss
  /\ UNCHANGED <<traces, phase, traceVars, cancelled, resultVars>>

TraceStep ==
  \/ Resolved
  \/ SendEcho
  \/ \E answer \in Answers : HopReturns(answer)
  \/ Wait
  \/ Discard
  \/ Publish

TracerouteNext == Begin \/ TraceStep \/ Delay \/ Cancel \/ ICMPCheck

TracerouteSpec == TracerouteInit /\ [][TracerouteNext]_tracerouteVars

\* The goroutine runs, and a read returns at the latest at its deadline.
TracerouteFairSpec == TracerouteSpec /\ WF_tracerouteVars(TraceStep)

-----------------------------------------------------------------------------
(* Properties *)

\* The two deadlines fit together: while the agent runs, a trace is thrown
\* away for lack of time only if the time between its waits adds up to a
\* whole hop timeout.  Silent hops alone never exhaust the context, although
\* together they need all of it.
OnlyOverheadExhausts ==
  phase = "loop" /\ ttl <= MaxHops /\ ~reached /\ Expired
    => cancelled \/ overhead >= HopTimeout

\* What LastResult and Analyze get is a whole trace, never one that was cut
\* short: hops 1, 2, ... up to the last one allowed, or to the echo reply of
\* the target, which is then the last hop.  The converse is not promised: a
\* time exceeded may carry the target's address too (mtr.go:403).
PublishedIsWhole ==
  \A r \in lastResult :
    /\ \A i \in DOMAIN r.hops : r.hops[i].hop = i
    /\ r.reachedTarget \/ Len(r.hops) = MaxHops
    /\ r.reachedTarget => Len(r.hops) > 0 /\ r.hops[Len(r.hops)].ip = Target

\* A check ends, whatever the network does: what ProbeWorker assumes.
TraceEnds == phase # "idle" ~> phase = "idle"

\* FR6 asks for the hop where the degradation begins.  What Analyze would say
\* of the hops found so far, for a target that is being lost, is final once
\* it blames one of them: nothing that is found behind that hop changes it.
Blame == Analyze(100, 0, hops, reached)

BlameIsStable ==
  [][Len(hops') > Len(hops) /\ Blame.faultyHop # 0 => Blame' = Blame]_tracerouteVars

\* Section 5 of specs/design.md, FR6: when the trace finds a hop that loses
\* packets and the ICMP probe of the same target measures a loss too, a
\* warning is logged that tells where.
AnomalyIsReported ==
  [][Publish /\ icmpLoss = 100 /\ FaultyHops(hops) # {}
       => report'.diagnosis # DiagnosisOK]_tracerouteVars

=============================================================================
