-------------------------- MODULE MeasurementProofs -------------------------
(***************************************************************************)
(* Proofs about Measurement for every kind of probe, every set of          *)
(* round-trip times and status codes and any number of checks: types, the  *)
(* pairing of the two histograms, and jitter as FR5 defines it.            *)
(***************************************************************************)
EXTENDS Measurement, TLAPS

-----------------------------------------------------------------------------
(* Types *)

LEMMA OutcomesAreTyped ==
  ASSUME NEW o \in Outcomes
  PROVE  /\ o.ok \in BOOLEAN /\ o.rtt \in RTTs \cup {0}
         /\ o.code \in StatusCodes \cup {NoCode}
         /\ o.ok => o.rtt \in RTTs
BY DEF Outcomes, HTTPOutcomes, PlainOutcomes

LEMMA RTTsAreNat == \A r \in RTTs \cup {0} : r \in Nat
<1>1. RTTs \subseteq Nat
  BY Zenon, MeasurementAssumption
<1>2. QED
  BY <1>1

LEMMA DistanceIsNat ==
  ASSUME NEW a \in Nat, NEW b \in Nat
  PROVE  Distance(a, b) \in Nat
BY DEF Distance

\* A check that has not failed is what the calculator and the RTT histogram
\* are given.
Measured == at \in {"jitter", "rtt"} => outcome.ok

LEMMA TypeStep ==
  ASSUME MeasurementTypeOK, Measured, MeasurementNext
  PROVE  MeasurementTypeOK' /\ Measured'
<1> USE DEF MeasurementTypeOK, Measured, calcVars
<1>0. outcome.code \in StatusCodes \cup {NoCode} /\ (outcome.ok => outcome.rtt \in RTTs)
  BY OutcomesAreTyped
<1>1. CASE Check
  <2>1. PICK o \in Outcomes : outcome' = o /\ at' = IF o.ok THEN "jitter" ELSE "loss"
    BY <1>1 DEF Check
  <2>2. checks' \in 0 .. MaxChecks
    BY <1>1, MeasurementAssumption DEF Check
  <2>3. UNCHANGED <<hasRTT, lastRTT, rtts, jitters, lossGauge>>
    BY <1>1 DEF Check
  <2>4. at' \in {"jitter", "loss"} /\ (at' = "jitter" => outcome'.ok)
    <3>1. CASE o.ok
      BY <2>1, <3>1
    <3>2. CASE ~o.ok
      BY <2>1, <3>2
    <3>3. QED
      BY <3>1, <3>2
  <2>5. QED
    BY <2>1, <2>2, <2>3, <2>4
<1>2. CASE ComputeJitter
  <2>1. outcome.rtt \in RTTs
    BY <1>0, <1>2 DEF ComputeJitter
  <2>2. jitters' \in Seq(Nat)
    <3>0. outcome.rtt \in Nat /\ lastRTT \in Nat
      BY <2>1, RTTsAreNat
    <3>1. Distance(outcome.rtt, lastRTT) \in Nat
      BY <3>0, DistanceIsNat
    <3>2. CASE hasRTT
      BY <1>2, <3>1, <3>2 DEF ComputeJitter
    <3>3. CASE ~hasRTT
      BY <1>2, <3>3 DEF ComputeJitter
    <3>4. QED
      BY <3>2, <3>3
  <2>3. /\ at' = "rtt" /\ hasRTT' = TRUE /\ lastRTT' = outcome.rtt
        /\ UNCHANGED <<outcome, checks, rtts, lossGauge>> /\ outcome.ok
    BY <1>2 DEF ComputeJitter
  <2>4. QED
    BY <2>1, <2>2, <2>3
<1>3. CASE RecordRTT
  BY <1>0, <1>3 DEF RecordRTT
<1>4. CASE RecordPacketLoss
  <2>1. /\ DOMAIN lossGauge' \subseteq StatusCodes \cup {NoCode}
        /\ \A l \in DOMAIN lossGauge' : lossGauge'[l] \in {0, 1}
    BY <1>0, <1>4 DEF RecordPacketLoss
  <2>2. at' = "idle" /\ UNCHANGED <<outcome, checks, hasRTT, lastRTT, rtts, jitters>>
    BY <1>4 DEF RecordPacketLoss
  <2>3. QED
    BY <2>1, <2>2
<1>5. QED
  BY <1>1, <1>2, <1>3, <1>4 DEF MeasurementNext

LEMMA TypeAlways == MeasurementSpec => [](MeasurementTypeOK /\ Measured)
<1>1. MeasurementInit => MeasurementTypeOK /\ Measured
  <2>1. [ok |-> FALSE, rtt |-> 0, code |-> NoCode] \in Outcomes
    BY DEF Outcomes, HTTPOutcomes, PlainOutcomes
  <2>2. DOMAIN <<>> = {} /\ 0 \in 0 .. MaxChecks
    BY MeasurementAssumption
  <2>3. <<>> \in Seq(RTTs) /\ <<>> \in Seq(Nat)
    OBVIOUS
  <2>4. ASSUME MeasurementInit
        PROVE  /\ at \in {"idle"} /\ hasRTT \in BOOLEAN /\ lastRTT = 0
               /\ outcome \in Outcomes /\ checks \in 0 .. MaxChecks
               /\ rtts \in Seq(RTTs) /\ jitters \in Seq(Nat) /\ DOMAIN lossGauge = {}
    BY <2>1, <2>2, <2>3, <2>4 DEF MeasurementInit
  <2>5. QED
    BY <2>4 DEF MeasurementTypeOK, Measured
<1>2. MeasurementTypeOK /\ Measured /\ UNCHANGED measurementVars =>
        MeasurementTypeOK' /\ Measured'
  BY DEF MeasurementTypeOK, Measured, measurementVars
<1>3. QED
  BY <1>1, <1>2, TypeStep, PTL DEF MeasurementSpec

\* Whatever the network answers, the gauge has only the label sets and values
\* metrics.go declares, and a failed check never reaches the histograms.
THEOREM MeasurementTypeCorrect == MeasurementSpec => []MeasurementTypeOK
BY TypeAlways, PTL

-----------------------------------------------------------------------------
(* Jitter.  The calculator is one RTT ahead of the histogram from Compute    *)
(* to RecordRTT, and else remembers its last sample.                         *)

JitterInv ==
  /\ ~hasRTT => rtts = <<>> /\ jitters = <<>> /\ at # "rtt"
  /\ at = "rtt" => lastRTT = outcome.rtt /\ Len(jitters) = Len(rtts)
  /\ (hasRTT /\ at # "rtt") => /\ Len(rtts) = Len(jitters) + 1
                               /\ lastRTT = rtts[Len(rtts)]
  /\ (at = "rtt" /\ jitters # <<>>) =>
       jitters[Len(jitters)] = Distance(lastRTT, rtts[Len(rtts)])
  /\ JitterIsConsecutive

LEMMA JitterStep ==
  ASSUME MeasurementTypeOK, Measured, JitterInv, MeasurementNext
  PROVE  JitterInv'
<1> USE DEF MeasurementTypeOK, JitterInv, JitterIsConsecutive
<1>1. CASE Check \/ RecordPacketLoss
  <2>1. at # "rtt" /\ at' # "rtt" /\ UNCHANGED <<hasRTT, lastRTT, rtts, jitters>>
    BY <1>1 DEF Check, RecordPacketLoss, calcVars
  <2>2. QED
    BY <2>1
<1>2. CASE ComputeJitter
  <2>1. /\ at = "jitter" /\ at' = "rtt" /\ hasRTT' /\ lastRTT' = outcome.rtt
        /\ outcome' = outcome /\ rtts' = rtts
    BY <1>2 DEF ComputeJitter
  <2>2. CASE ~hasRTT
    <3>1. jitters' = <<>> /\ rtts = <<>>
      BY <1>2, <2>2 DEF ComputeJitter
    <3>2. QED
      BY <2>1, <3>1
  <2>3. CASE hasRTT
    <3> DEFINE d == Distance(outcome.rtt, lastRTT)
    <3>1. /\ jitters' = Append(jitters, d) /\ d \in Nat
          /\ Len(rtts) = Len(jitters) + 1 /\ lastRTT = rtts[Len(rtts)]
      <4>1. d \in Nat
        <5>1. outcome.rtt \in Nat /\ lastRTT \in Nat
          BY OutcomesAreTyped, RTTsAreNat
        <5>2. QED
          BY <5>1, DistanceIsNat
      <4>2. jitters' = Append(jitters, d)
        BY <1>2, <2>3 DEF ComputeJitter
      <4>3. Len(rtts) = Len(jitters) + 1 /\ lastRTT = rtts[Len(rtts)]
        BY <2>1, <2>3
      <4>4. QED
        BY <4>1, <4>2, <4>3
    <3>2. d = Distance(lastRTT', rtts[Len(rtts)])
      BY <2>1, <3>1
    <3> HIDE DEF d
    <3>3. Len(jitters') = Len(rtts) /\ jitters'[Len(jitters')] = d
      BY <3>1
    <3>4. \A i \in 1 .. Len(jitters') : i < Len(rtts) => jitters'[i] = Distance(rtts[i + 1], rtts[i])
      BY <3>1
    <3>5. QED
      BY <2>1, <3>2, <3>3, <3>4
  <2>4. QED
    BY <2>2, <2>3
<1>3. CASE RecordRTT
  <2>1. /\ at = "rtt" /\ at' = "loss" /\ rtts' = Append(rtts, outcome.rtt)
        /\ hasRTT /\ UNCHANGED <<outcome, hasRTT, lastRTT, jitters>>
    BY <1>3 DEF RecordRTT, calcVars
  <2>2. outcome.rtt \in RTTs
    BY <2>1, OutcomesAreTyped DEF Measured
  <2>3. Len(rtts') = Len(rtts) + 1 /\ rtts'[Len(rtts')] = outcome.rtt
    BY <2>1, <2>2
  <2>4. \A i \in 1 .. Len(rtts) : rtts'[i] = rtts[i]
    BY <2>1, <2>2
  <2>5. \A i \in 1 .. Len(jitters) :
          i < Len(rtts') => jitters[i] = Distance(rtts'[i + 1], rtts'[i])
    <3> SUFFICES ASSUME NEW i \in 1 .. Len(jitters)
                 PROVE  jitters[i] = Distance(rtts'[i + 1], rtts'[i])
      OBVIOUS
    <3>1. CASE i < Len(rtts)
      <4>1. rtts'[i + 1] = rtts[i + 1] /\ rtts'[i] = rtts[i]
        BY <3>1, <2>4
      <4>2. QED
        BY <3>1, <4>1
    <3>2. CASE i = Len(rtts)
      <4>1. jitters # <<>> /\ i = Len(jitters)
        BY <2>1, <3>2
      <4>2. jitters[i] = Distance(lastRTT, rtts[i])
        BY <2>1, <4>1, <3>2
      <4>3. rtts'[i + 1] = lastRTT /\ rtts'[i] = rtts[i]
        BY <2>1, <2>3, <2>4, <3>2
      <4>4. QED
        BY <4>2, <4>3
    <3>3. QED
      BY <2>1, <3>1, <3>2
  <2>6. QED
    BY <2>1, <2>3, <2>5
<1>4. QED
  BY <1>1, <1>2, <1>3 DEF MeasurementNext

LEMMA JitterAlways == MeasurementSpec => [](MeasurementTypeOK /\ JitterInv)
<1>1. MeasurementInit => JitterInv
  BY DEF MeasurementInit, JitterInv, JitterIsConsecutive
<1>2. JitterInv /\ UNCHANGED measurementVars => JitterInv'
  BY DEF JitterInv, JitterIsConsecutive, measurementVars
<1>3. QED
  BY <1>1, <1>2, JitterStep, TypeAlways, PTL DEF MeasurementSpec

\* FR5 for every sequence of successes and failures: the jitter histogram is
\* the absolute differences of consecutive RTTs (jitter.go:22).
THEOREM JitterIsOfConsecutiveRTTs == MeasurementSpec => []JitterIsConsecutive
<1>1. JitterInv => JitterIsConsecutive
  BY DEF JitterInv
<1>2. QED
  BY <1>1, JitterAlways, PTL

\* A scrape between any two Record calls finds no jitter without its RTT, and
\* at most one RTT ahead.
THEOREM ScrapesFindPairs == MeasurementSpec => []SamplesArePaired
<1>1. MeasurementTypeOK /\ JitterInv => SamplesArePaired
  BY DEF MeasurementTypeOK, JitterInv, SamplesArePaired
<1>2. QED
  BY <1>1, JitterAlways, PTL

-----------------------------------------------------------------------------
(* The loss gauge *)

\* Between two checks every series of the gauge says how the last one ended.
GaugeIsCurrent ==
  at = "idle" =>
    \A l \in DOMAIN lossGauge : lossGauge[l] = IF outcome.ok THEN 0 ELSE 1

\* One label set: the last Record call decides it.
OneSeries ==
  /\ DOMAIN lossGauge \subseteq {NoCode}
  /\ GaugeIsCurrent

\* The loss gauge of an ICMP, DNS or TCP probe, which records no status code,
\* has one series, and between two checks that series says how the last one
\* ended (icmp.go:156, metrics.go:113).  An HTTP probe has a series for each
\* status code (http.go:175), of which only the last code's is refreshed.
THEOREM PlainGaugeIsCurrent ==
  ASSUME ~IsHTTP
  PROVE  MeasurementSpec => []GaugeIsCurrent
<1>1. MeasurementInit => OneSeries
  BY DEF MeasurementInit, OneSeries, GaugeIsCurrent
<1>2. MeasurementTypeOK /\ OneSeries /\ [MeasurementNext]_measurementVars => OneSeries'
  <2> SUFFICES ASSUME MeasurementTypeOK, OneSeries, [MeasurementNext]_measurementVars
               PROVE  OneSeries'
    OBVIOUS
  <2> USE DEF OneSeries, GaugeIsCurrent
  <2>1. outcome.code = NoCode
    BY DEF MeasurementTypeOK, Outcomes, PlainOutcomes
  <2>2. CASE Check
    <3>1. PICK o \in Outcomes : at' = IF o.ok THEN "jitter" ELSE "loss"
      BY <2>2 DEF Check
    <3>2. at' # "idle"
      BY <3>1
    <3>3. lossGauge' = lossGauge
      BY <2>2 DEF Check
    <3>4. QED
      BY <3>2, <3>3
  <2>3. CASE ComputeJitter \/ RecordRTT
    BY <2>3 DEF ComputeJitter, RecordRTT
  <2>4. CASE RecordPacketLoss
    BY <2>1, <2>4 DEF RecordPacketLoss
  <2>5. CASE UNCHANGED measurementVars
    BY <2>5 DEF measurementVars
  <2>6. QED
    BY <2>2, <2>3, <2>4, <2>5 DEF MeasurementNext
<1>3. OneSeries => GaugeIsCurrent
  BY DEF OneSeries
<1>4. QED
  BY <1>1, <1>2, <1>3, MeasurementTypeCorrect, PTL DEF MeasurementSpec

=============================================================================
