----------------------------- MODULE Measurement ----------------------------
(***************************************************************************)
(* One check of an ICMP, DNS, TCP or HTTP probe and what it records: the   *)
(* four executeCheck methods, which share their structure, with the        *)
(* JitterCalculator (internal/probes/jitter.go) and the three Record       *)
(* methods of internal/telemetry/metrics.go.                               *)
(*                                                                         *)
(* Each Record call is an action of its own: the exporters collect         *)
(* concurrently, so what a scrape may see between two calls is a state of  *)
(* the model.  The OpenTelemetry instruments are external: a histogram     *)
(* counts samples, a gauge keeps the last value of every label set it has  *)
(* been given, for the life of the process.  Target, probe, ip_version,    *)
(* record_type and port are the same in every call of one probe, so a      *)
(* label set is the status_code, or NoCode if the call gives none.         *)
(***************************************************************************)
EXTENDS Naturals, Sequences

CONSTANTS
  IsHTTP,               \* is it the HTTP probe, which alone labels by status?
  StatusCodes,          \* what a server may answer
  ExpectedCode,         \* the configured code: NewHTTPProbe turns 0 into 200
  RTTs,                 \* the round-trip times a check may measure
  MaxChecks             \* bound on the number of checks

NoCode == 0

ASSUME MeasurementAssumption ==
  /\ IsHTTP \in BOOLEAN
  /\ StatusCodes \subseteq Nat \ {NoCode}
  /\ ExpectedCode \in Nat \ {NoCode}
  /\ RTTs \subseteq Nat
  /\ MaxChecks \in Nat

VARIABLES
  at,                   \* the Record call that comes next, or "idle"
  outcome,              \* what the check in progress, or the last, measured
  checks,               \* how many checks have been made
  hasRTT, lastRTT,      \* the JitterCalculator
  rtts,                 \* the samples of the RTT histogram, in order
  jitters,              \* the samples of the jitter histogram, in order
  lossGauge             \* the packet loss gauge, by label set

calcVars == <<hasRTT, lastRTT>>
measurementVars ==
  <<at, outcome, checks, hasRTT, lastRTT, rtts, jitters, lossGauge>>

\* success, of RealHTTPClient.Do.  Its branch for an expected code of 0, any
\* of 2xx and 3xx, is out of reach: NewHTTPProbe makes the client itself and
\* hands it to Do with at least 200.
IsExpected(code) == code = ExpectedCode

\* What the pinger, resolver, dialer or HTTP client returns: an RTT, or a
\* failure, which has a code when the server did answer.  A check that the
\* shutdown interrupts returns the error of its context: a failure too.
HTTPOutcomes ==
  [ok : {TRUE}, rtt : RTTs, code : {c \in StatusCodes : IsExpected(c)}]
    \cup [ok : {FALSE}, rtt : {0},
          code : {c \in StatusCodes : ~IsExpected(c)} \cup {NoCode}]

PlainOutcomes ==
  [ok : {TRUE}, rtt : RTTs, code : {NoCode}]
    \cup [ok : {FALSE}, rtt : {0}, code : {NoCode}]

Outcomes == IF IsHTTP THEN HTTPOutcomes ELSE PlainOutcomes

Distance(a, b) == IF a >= b THEN a - b ELSE b - a

MeasurementTypeOK ==
  /\ at \in {"idle", "jitter", "rtt", "loss"}
  /\ outcome \in Outcomes
  /\ checks \in 0 .. MaxChecks
  /\ hasRTT \in BOOLEAN
  /\ lastRTT \in RTTs \cup {0}
  /\ rtts \in Seq(RTTs)
  /\ jitters \in Seq(Nat)
  /\ DOMAIN lossGauge \subseteq StatusCodes \cup {NoCode}
  /\ \A l \in DOMAIN lossGauge : lossGauge[l] \in {0, 1}

MeasurementInit ==
  /\ at = "idle"
  /\ outcome = [ok |-> FALSE, rtt |-> 0, code |-> NoCode]
  /\ checks = 0
  /\ hasRTT = FALSE
  /\ lastRTT = 0
  /\ rtts = <<>>
  /\ jitters = <<>>
  /\ lossGauge = <<>>

-----------------------------------------------------------------------------

\* The check itself.  A failure records the loss and nothing else.
Check ==
  /\ at = "idle"
  /\ checks < MaxChecks
  /\ \E o \in Outcomes : /\ outcome' = o
                         /\ at' = IF o.ok THEN "jitter" ELSE "loss"
  /\ checks' = checks + 1
  /\ UNCHANGED <<calcVars, rtts, jitters, lossGauge>>

\* Mutant: the reference stays the first RTT.
ComputeJitterFromFirst ==
  /\ at = "jitter"
  /\ hasRTT' = TRUE
  /\ lastRTT' = IF hasRTT THEN lastRTT ELSE outcome.rtt
  /\ jitters' =
       IF hasRTT THEN Append(jitters, Distance(outcome.rtt, lastRTT)) ELSE jitters
  /\ at' = "rtt"
  /\ UNCHANGED <<outcome, checks, rtts, lossGauge>>

\* Mutant: the RTT of zero stands for no RTT yet, and is compared.
ComputeJitterAlways ==
  /\ at = "jitter"
  /\ hasRTT' = TRUE
  /\ lastRTT' = outcome.rtt
  /\ jitters' = Append(jitters, Distance(outcome.rtt, lastRTT))
  /\ at' = "rtt"
  /\ UNCHANGED <<outcome, checks, rtts, lossGauge>>

\* jitterCalc.Compute and, from the second RTT on, RecordJitter.  Nothing
\* resets the calculator: a failed check in between does not count.
ComputeJitter ==
  /\ at = "jitter"
  /\ hasRTT' = TRUE
  /\ lastRTT' = outcome.rtt
  /\ jitters' =
       IF hasRTT THEN Append(jitters, Distance(outcome.rtt, lastRTT)) ELSE jitters
  /\ at' = "rtt"
  /\ UNCHANGED <<outcome, checks, rtts, lossGauge>>

RecordRTT ==
  /\ at = "rtt"
  /\ rtts' = Append(rtts, outcome.rtt)
  /\ at' = "loss"
  /\ UNCHANGED <<outcome, checks, calcVars, jitters, lossGauge>>

\* Mutant: the loss is a percentage.
RecordPacketLossPercent ==
  /\ at = "loss"
  /\ lossGauge' =
       [l \in DOMAIN lossGauge \cup {outcome.code} |->
          IF l = outcome.code THEN (IF outcome.ok THEN 0 ELSE 100) ELSE lossGauge[l]]
  /\ at' = "idle"
  /\ UNCHANGED <<outcome, checks, calcVars, rtts, jitters>>

\* RecordPacketLoss, with 0.0 as the last call of a success and 1.0 as the
\* only one of a failure.  The gauge keeps its other label sets.
RecordPacketLoss ==
  /\ at = "loss"
  /\ lossGauge' =
       [l \in DOMAIN lossGauge \cup {outcome.code} |->
          IF l = outcome.code THEN (IF outcome.ok THEN 0 ELSE 1) ELSE lossGauge[l]]
  /\ at' = "idle"
  /\ UNCHANGED <<outcome, checks, calcVars, rtts, jitters>>

MeasurementNext == Check \/ ComputeJitter \/ RecordRTT \/ RecordPacketLoss

MeasurementSpec == MeasurementInit /\ [][MeasurementNext]_measurementVars

-----------------------------------------------------------------------------
(* Properties *)

\* FR5: the jitter samples are the absolute differences of consecutive RTTs,
\* each exactly once and in order, however many checks fail between two RTTs
\* and whatever status codes they are labelled with.
JitterIsConsecutive ==
  \A i \in 1 .. Len(jitters) :
    i < Len(rtts) => jitters[i] = Distance(rtts[i + 1], rtts[i])

\* Whenever it comes, a scrape finds as many jitters as RTTs, or one less:
\* jitter is recorded before the RTT it belongs to, and never lags by more.
SamplesArePaired == Len(rtts) <= Len(jitters) + 1 /\ Len(jitters) <= Len(rtts)

=============================================================================
