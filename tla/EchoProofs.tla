-------------------------------- MODULE EchoProofs --------------------------------
(***********************************************************************************)
(* Proofs about Echo, for any number of probes, targets, numbers and requests.      *)
(***********************************************************************************)
EXTENDS Echo, TLAPS

\* The two numbers of a packet tell its request.
PairsAreDistinct ==
  \A r, s \in requests : r.wire = s.wire /\ r.seq = s.seq => r = s

\* A raw socket sends the identifier that the program chose.
RawSendsId == raw => \A r \in requests : r.wire = r.id

Arrays == DOMAIN pending = Callers /\ DOMAIN result = Callers

EchoInv ==
  /\ EchoTypeOK /\ Arrays
  /\ PairsAreDistinct /\ RawSendsId
  /\ HopsAreOwn /\ ReachedIsReal /\ UnprivilegedPingsAreOwn

LEMMA EchoInit_Inv == EchoInit => EchoInv
  <1> SUFFICES ASSUME EchoInit PROVE EchoInv
    OBVIOUS
  <1>1. Arrays /\ PairsAreDistinct /\ RawSendsId
    BY DEF EchoInit, Arrays, PairsAreDistinct, RawSendsId
  <1>2. EchoTypeOK
    BY DEF EchoInit, EchoTypeOK
  <1>3. \A c \in Callers : ~Answered(c)
    BY DEF EchoInit, Answered
  <1>4. HopsAreOwn /\ ReachedIsReal /\ UnprivilegedPingsAreOwn
    BY <1>3 DEF HopsAreOwn, ReachedIsReal, UnprivilegedPingsAreOwn, Callers
  <1> QED
    BY <1>1, <1>2, <1>4 DEF EchoInv

\* An answer is an answer to a request that was sent, an echo reply comes from a live target
\* that the request reached, and an unprivileged socket gets only its own port's replies.
LEMMA WhatIsReadable ==
  ASSUME NEW r, NEW a \in Readable(r)
  PROVE  /\ a.of \in requests
         /\ a.type \in {"EchoReply", "TimeExceeded"}
         /\ a.type = "EchoReply" => a.of.ttl # "short" /\ a.of.target \in alive
         /\ ~raw => a.type = "EchoReply" /\ a.of.wire = r.wire
  <1>1. a \in UNION {Answers(s) : s \in requests}
    BY DEF Readable
  <1>2. PICK s \in requests : a \in Answers(s)
    BY <1>1
  <1>3. CASE s.ttl = "short"
    <2>1. PICK quote \in {"whole", "cut"} : a = Exceeded(s, quote)
      BY <1>2, <1>3 DEF Answers
    <2> QED
      BY <2>1 DEF Exceeded, Readable
  <1>4. CASE s.ttl # "short"
    <2>1. s.target \in alive /\ a = Reply(s)
      BY <1>2, <1>4 DEF Answers
    <2> QED
      BY <2>1, <1>4 DEF Reply, Readable
  <1> QED
    BY <1>3, <1>4

\* The step in which a call returns: what is left to show is about its result alone.
LEMMA ReturnKeeps ==
  ASSUME EchoInv, NEW c \in Callers, NEW what, Returns(c, what),
         \/ what = Silence
         \/ /\ what.of \in requests /\ what.own \in requests /\ what.reached \in BOOLEAN
            /\ c \in Hops => \/ what.of = what.own
                             \/ what.of.wire = 0 /\ ~what.reached
            /\ c \in Hops /\ what.reached => /\ what.own.ttl = "enough"
                                             /\ what.own.target \in alive
            /\ c \in Pings /\ ~raw /\ what.own.id # what.own.wire => what.of = what.own
  PROVE  EchoInv'
  <1> USE DEF EchoInv, Returns, Arrays
  <1>1. Arrays' /\ PairsAreDistinct' /\ RawSendsId'
    BY DEF PairsAreDistinct, RawSendsId
  <1>2. \A d \in Callers : result'[d] = IF d = c THEN what ELSE result[d]
    OBVIOUS
  <1>3. \A d \in Callers : pending'[d] = IF d = c THEN NoRequest ELSE pending[d]
    OBVIOUS
  <1>4. EchoTypeOK'
    BY <1>2, <1>3 DEF EchoTypeOK
  <1>5. HopsAreOwn'
    BY <1>2 DEF HopsAreOwn, Answered, Callers
  <1>6. ReachedIsReal'
    BY <1>2 DEF ReachedIsReal, Answered, Callers
  <1>7. UnprivilegedPingsAreOwn'
    BY <1>2 DEF UnprivilegedPingsAreOwn, Answered, Callers
  <1> QED
    BY <1>1, <1>4, <1>5, <1>6, <1>7

LEMMA SendKeeps ==
  ASSUME EchoInv, NEW c \in Callers, Send(c)
  PROVE  EchoInv'
  <1> USE DEF EchoInv, Arrays
  <1>1. PICK r \in Requests :
          /\ r.target = TargetOf[c]
          /\ raw => r.wire = r.id
          /\ Fresh(r)
          /\ requests' = requests \cup {r}
          /\ pending' = [pending EXCEPT ![c] = r]
    BY DEF Send
  <1>2. UNCHANGED <<raw, alive, result>>
    BY DEF Send
  <1>3. PairsAreDistinct' /\ RawSendsId' /\ Arrays'
    BY <1>1, <1>2 DEF PairsAreDistinct, RawSendsId, Fresh
  <1>4. \A d \in Callers : pending'[d] = IF d = c THEN r ELSE pending[d]
    BY <1>1
  <1>5. EchoTypeOK'
    BY <1>1, <1>2, <1>4 DEF EchoTypeOK
  <1>6. HopsAreOwn' /\ ReachedIsReal' /\ UnprivilegedPingsAreOwn'
    BY <1>2 DEF HopsAreOwn, ReachedIsReal, UnprivilegedPingsAreOwn, Answered
  <1> QED
    BY <1>3, <1>5, <1>6

LEMMA PingReadsKeeps ==
  ASSUME EchoInv, NEW c \in Callers, PingReads(c)
  PROVE  EchoInv'
  <1> DEFINE r == pending[c]
  <1>1. PICK a \in Readable(r) :
          PingMatches(r, a) /\ Returns(c, [of |-> a.of, own |-> r, reached |-> TRUE])
    BY DEF PingReads
  <1>2. c \in Pings /\ c \notin Hops /\ r \in requests
    BY EchoAssumption DEF PingReads, EchoInv, EchoTypeOK
  <1>3. a.of \in requests /\ (~raw => a.of.wire = r.wire)
    BY WhatIsReadable
  <1>4. ASSUME ~raw, r.id # r.wire PROVE a.of = r
    BY <1>1, <1>2, <1>3, <1>4 DEF PingMatches, EchoInv, PairsAreDistinct
  <1> QED
    BY <1>1, <1>2, <1>3, <1>4, ReturnKeeps

LEMMA HopReadsKeeps ==
  ASSUME EchoInv, NEW c \in Callers, HopReads(c)
  PROVE  EchoInv'
  <1> DEFINE r == pending[c]
  <1>1. PICK a \in Readable(r) :
          /\ IF a.type = "EchoReply" THEN ReplyMatches(r, a) ELSE QuoteMatches(r, a)
          /\ Returns(c, [of |-> a.of, own |-> r, reached |-> a.type = "EchoReply"])
    BY DEF HopReads
  <1>2. c \in Hops /\ c \notin Pings /\ r \in requests
    BY EchoAssumption DEF HopReads, EchoInv, EchoTypeOK
  <1>3. /\ a.of \in requests
        /\ a.type = "EchoReply" => a.of.ttl # "short" /\ a.of.target \in alive
        /\ ~raw => a.type = "EchoReply" /\ a.of.wire = r.wire
    BY WhatIsReadable
  <1>4. a.of.seq = r.seq /\ (raw => a.of.wire = r.id \/ (a.type # "EchoReply" /\ a.of.wire = 0))
    BY <1>1 DEF ReplyMatches, QuoteMatches
  <1>5. raw => r.wire = r.id
    BY <1>2 DEF EchoInv, RawSendsId
  <1>6. a.of = r \/ (a.of.wire = 0 /\ a.type # "EchoReply")
    BY <1>2, <1>3, <1>4, <1>5 DEF EchoInv, PairsAreDistinct
  <1>7. a.type = "EchoReply" => r.ttl = "enough" /\ r.target \in alive
    BY <1>2, <1>3, <1>6 DEF EchoInv, EchoTypeOK, Requests
  <1> QED
    BY <1>1, <1>2, <1>3, <1>6, <1>7, ReturnKeeps

LEMMA EchoInv_Inductive == EchoInv /\ [EchoNext]_vars => EchoInv'
  <1> SUFFICES ASSUME EchoInv, [EchoNext]_vars PROVE EchoInv'
    OBVIOUS
  <1>1. ASSUME NEW c \in Callers, Send(c) PROVE EchoInv'
    BY <1>1, SendKeeps
  <1>2. ASSUME NEW c \in Callers, PingReads(c) PROVE EchoInv'
    BY <1>2, PingReadsKeeps
  <1>3. ASSUME NEW c \in Callers, HopReads(c) PROVE EchoInv'
    BY <1>3, HopReadsKeeps
  <1>4. ASSUME NEW c \in Callers, TimesOut(c) PROVE EchoInv'
    BY <1>4, ReturnKeeps DEF TimesOut
  <1>5. CASE UNCHANGED vars
    BY <1>5 DEF vars, EchoInv, EchoTypeOK, Arrays, PairsAreDistinct, RawSendsId,
                HopsAreOwn, ReachedIsReal, UnprivilegedPingsAreOwn, Answered
  <1> QED
    BY <1>1, <1>2, <1>3, <1>4, <1>5 DEF EchoNext

LEMMA EchoInvariant == EchoSpec => []EchoInv
  BY EchoInit_Inv, EchoInv_Inductive, PTL DEF EchoSpec

(***********************************************************************************)
(* Type correctness of Echo: requests, what calls wait for, what they have returned. *)
(***********************************************************************************)
THEOREM EchoTypeCorrect == EchoSpec => []EchoTypeOK
  <1>1. EchoInv => EchoTypeOK
    BY DEF EchoInv
  <1> QED
    BY <1>1, EchoInvariant, PTL

(***********************************************************************************)
(* A hop is named after the answer to its own request, however many probes send and  *)
(* whatever the network does with the answers (mtr.go:402-426).                      *)
(***********************************************************************************)
THEOREM HopsTakeTheirOwn == EchoSpec => []HopsAreOwn
  <1>1. EchoInv => HopsAreOwn
    BY DEF EchoInv
  <1> QED
    BY <1>1, EchoInvariant, PTL

(***********************************************************************************)
(* A trace reports its target as reached only if the request of that hop got there   *)
(* and the target answers (mtr.go:413-424).                                        *)
(***********************************************************************************)
THEOREM ReachedTargetsAnswer == EchoSpec => []ReachedIsReal
  <1>1. EchoInv => ReachedIsReal
    BY DEF EchoInv
  <1> QED
    BY <1>1, EchoInvariant, PTL

(***********************************************************************************)
(* Without raw sockets a ping is answered by its own target (icmp.go:293-299).        *)
(***********************************************************************************)
THEOREM UnprivilegedPingsTakeTheirOwn == EchoSpec => []UnprivilegedPingsAreOwn
  <1>1. EchoInv => UnprivilegedPingsAreOwn
    BY DEF EchoInv
  <1> QED
    BY <1>1, EchoInvariant, PTL
=====================================================================================
