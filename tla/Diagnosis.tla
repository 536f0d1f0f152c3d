------------------------------ MODULE Diagnosis -----------------------------
(***************************************************************************)
(* Engine.Analyze (internal/diagnostic/analyzer.go) as an operator on the  *)
(* packet loss, the round-trip time and the hops of a traceroute.  Losses  *)
(* are percentages and times are in the unit of the module that uses it;   *)
(* messages and timestamps are left out.  Everything but DiagnosisOK is    *)
(* logged as a warning (FR6), so the report says what is logged.           *)
(***************************************************************************)
EXTENDS Naturals, Sequences, FiniteSetsExt

CONSTANTS
  LossThreshold,        \* in percent
  LatencyThreshold

ASSUME ThresholdAssumption ==
  LossThreshold \in 1 .. 100 /\ LatencyThreshold \in Nat \ {0}

DiagnosisOK                == "normal"
DiagnosisLocalNetwork      == "local_network_issue"
DiagnosisISPGateway        == "isp_gateway_loss"
DiagnosisTransitLoss       == "transit_route_loss"
DiagnosisTargetUnreachable == "target_unreachable"
DiagnosisHighLatency       == "high_latency_detected"

Diagnoses ==
  { DiagnosisOK, DiagnosisLocalNetwork, DiagnosisISPGateway,
    DiagnosisTransitLoss, DiagnosisTargetUnreachable, DiagnosisHighLatency }

IsFaulty(hop) == ~hop.success \/ hop.rtt > LatencyThreshold

FaultyHops(hops) == {i \in DOMAIN hops : IsFaulty(hops[i])}

\* Mutant: a break that leaves the switch and not the loop.
FaultyHopLast(hops) ==
  IF FaultyHops(hops) = {} THEN 0 ELSE hops[Max(FaultyHops(hops))].hop

\* The loop stops at the first faulty hop: its number, or 0.
FaultyHop(hops) ==
  IF FaultyHops(hops) = {} THEN 0 ELSE hops[Min(FaultyHops(hops))].hop

\* Whose network the hop belongs to.
Segment(hop) ==
  CASE hop = 1 -> DiagnosisLocalNetwork
    [] hop \in 2 .. 3 -> DiagnosisISPGateway
    [] OTHER -> DiagnosisTransitLoss

\* Without a traceroute, the extent of the loss and the latency decide.
WithoutTrace(loss, rtt) ==
  IF loss = 100 THEN DiagnosisTargetUnreachable ELSE
  IF rtt >= LatencyThreshold THEN DiagnosisHighLatency ELSE DiagnosisTransitLoss

\* With one, its first faulty hop does.
Classify(loss, rtt, hops, reached) ==
  IF hops = <<>> THEN WithoutTrace(loss, rtt) ELSE
  IF FaultyHop(hops) # 0 THEN Segment(FaultyHop(hops)) ELSE
  IF reached THEN DiagnosisTransitLoss ELSE DiagnosisTargetUnreachable

Analyze(loss, rtt, hops, reached) ==
  IF loss < LossThreshold /\ rtt < LatencyThreshold
    THEN [diagnosis |-> DiagnosisOK, faultyHop |-> 0]
    ELSE [diagnosis |-> Classify(loss, rtt, hops, reached),
          faultyHop |-> FaultyHop(hops)]

=============================================================================
