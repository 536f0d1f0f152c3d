----------------------------------- MODULE Echo -----------------------------------
(***********************************************************************************)
(* Who gets which answer: RealPinger.Ping of the ICMP probes and pingHop of the MTR  *)
(* probes send echo requests with random identifiers at the same time, each from a   *)
(* socket of its own. A raw socket gets a copy of every ICMP packet that reaches the *)
(* host, an unprivileged one only replies that carry its port, which the kernel puts *)
(* in place of the identifier. Answers may be lost, late, reordered or doubled: one  *)
(* that a request can have may be read at any later time, any number of times.       *)
(***********************************************************************************)
EXTENDS Naturals, FiniteSets

CONSTANTS Pings,        \* goroutines inside Ping
          Hops,         \* goroutines inside pingHop
          Targets,
          TargetOf,     \* the target of each of them
          Numbers,      \* identifiers and sequence numbers; 0 is one of them
          Ports,        \* what the kernel may use as an identifier
          MaxRequests,  \* bound: requests sent
          NoRequest,    \* no call in progress, or none yet
          Silence       \* the error of a call that nobody answered: the hop is "*"

Callers == Pings \cup Hops

\* id is what the program chose, wire what the packet carries; ttl is "short" if the
\* packet expires at a router on its way.
Requests == [target : Targets, id : Numbers, wire : Numbers \cup Ports, seq : Numbers,
             ttl : {"short", "enough"}]

ASSUME EchoAssumption ==
  /\ Pings \cap Hops = {}
  /\ TargetOf \in [Callers -> Targets]
  /\ Numbers \subseteq Nat /\ Ports \subseteq Nat
  /\ MaxRequests \in Nat
  /\ NoRequest \notin Requests /\ Silence # NoRequest

VARIABLES raw,        \* the process may open raw sockets
          alive,      \* the targets that answer
          requests,   \* all requests that were sent
          pending,    \* pending[c]: the request c waits for
          result      \* result[c]: what the last call of c came to

vars == <<raw, alive, requests, pending, result>>

\* An echo reply, or a TimeExceeded that quotes the request, perhaps cut before its header.
Reply(r) == [type |-> "EchoReply", from |-> r.target, of |-> r]
Exceeded(r, quote) == [type |-> "TimeExceeded", from |-> "router", quote |-> quote, of |-> r]

Answers(r) ==
  IF r.ttl = "short" THEN {Exceeded(r, quote) : quote \in {"whole", "cut"}}
  ELSE IF r.target \in alive THEN {Reply(r)} ELSE {}

\* What ReadFrom may return to the socket from which r was sent.
Readable(r) ==
  LET all == UNION {Answers(s) : s \in requests}
  IN IF raw THEN all ELSE {a \in all : a.type = "EchoReply" /\ a.of.wire = r.wire}

EchoInit ==
  /\ raw \in BOOLEAN
  /\ alive \in SUBSET Targets
  /\ requests = {}
  /\ pending = [c \in Callers |-> NoRequest]
  /\ result = [c \in Callers |-> NoRequest]

\* Assumption on the random numbers and on ports: while an answer to a request may still
\* arrive, no other request carries the same two numbers.
Fresh(r) == \A s \in requests : <<s.wire, s.seq>> # <<r.wire, r.seq>>

InUse == {pending[c].wire : c \in {d \in Callers : pending[d] # NoRequest}}

\* Mutant of Send: the destination is shared between the calls.
SendElsewhere(c) ==
  /\ pending[c] = NoRequest
  /\ Cardinality(requests) < MaxRequests
  /\ \E r \in Requests :
       /\ IF raw THEN r.wire = r.id ELSE r.wire \in Ports \ InUse
       /\ Fresh(r)
       /\ requests' = requests \cup {r}
       /\ pending' = [pending EXCEPT ![c] = r]
  /\ UNCHANGED <<raw, alive, result>>

Send(c) ==
  /\ pending[c] = NoRequest
  /\ Cardinality(requests) < MaxRequests
  /\ \E r \in Requests :
       /\ r.target = TargetOf[c]
       /\ IF raw THEN r.wire = r.id ELSE r.wire \in Ports \ InUse
       /\ c \in Pings => r.ttl = "enough"
       /\ Fresh(r)
       /\ requests' = requests \cup {r}
       /\ pending' = [pending EXCEPT ![c] = r]
  /\ UNCHANGED <<raw, alive, result>>

Returns(c, what) ==
  /\ pending' = [pending EXCEPT ![c] = NoRequest]
  /\ result' = [result EXCEPT ![c] = what]
  /\ UNCHANGED <<raw, alive, requests>>

-------------------------------------------------------------------------------------
(* Ping takes any echo reply with its sequence number or its identifier.            *)

\* Mutant of PingMatches: every reply is taken for the answer.
PingMatchesAny(r, a) == a.type = "EchoReply"

PingMatches(r, a) == a.type = "EchoReply" /\ (a.of.seq = r.seq \/ a.of.wire = r.id)

PingReads(c) ==
  LET r == pending[c] IN
  /\ c \in Pings /\ r # NoRequest
  /\ \E a \in Readable(r) :
       /\ PingMatches(r, a)
       /\ Returns(c, [of |-> a.of, own |-> r, reached |-> TRUE])

-------------------------------------------------------------------------------------
(* pingHop wants both numbers, and the target as the sender of an echo reply.        *)

\* Mutant of QuoteMatches: the identifier is not compared.
QuoteMatchesSeq(r, a) == a.quote = "whole" /\ a.of.seq = r.seq

\* matchTimeExceeded. An identifier 0 in the quote matches every request.
QuoteMatches(r, a) ==
  a.quote = "whole" /\ a.of.seq = r.seq /\ (a.of.wire = r.id \/ a.of.wire = 0)

\* Mutant of ReplyMatches: the comparison of Ping.
ReplyMatchesEither(r, a) ==
  (a.of.wire = r.id \/ a.of.seq = r.seq) /\ a.from = r.target

ReplyMatches(r, a) ==
  ((a.of.wire = r.id /\ a.of.seq = r.seq) \/ (~raw /\ a.of.seq = r.seq)) /\ a.from = r.target

HopReads(c) ==
  LET r == pending[c] IN
  /\ c \in Hops /\ r # NoRequest
  /\ \E a \in Readable(r) :
       /\ IF a.type = "EchoReply" THEN ReplyMatches(r, a) ELSE QuoteMatches(r, a)
       /\ Returns(c, [of |-> a.of, own |-> r, reached |-> a.type = "EchoReply"])

\* The deadline of the socket or the context, or an error of ReadFrom.
TimesOut(c) == pending[c] # NoRequest /\ Returns(c, Silence)

EchoNext == \E c \in Callers : Send(c) \/ PingReads(c) \/ HopReads(c) \/ TimesOut(c)

EchoSpec == EchoInit /\ [][EchoNext]_vars

-------------------------------------------------------------------------------------
(* Properties. *)

\* Type invariant; what a call waits for is a request that was sent to its own target.
EchoTypeOK ==
  /\ raw \in BOOLEAN /\ alive \subseteq Targets
  /\ requests \subseteq Requests
  /\ \A c \in Callers :
       /\ pending[c] # NoRequest => pending[c] \in requests /\ pending[c].target = TargetOf[c]
       /\ result[c] \notin {NoRequest, Silence} =>
            {result[c].of, result[c].own} \subseteq requests /\ result[c].reached \in BOOLEAN

Answered(c) == result[c] \notin {NoRequest, Silence}

(***********************************************************************************)
(* A hop is never named after an answer to somebody else: whatever the ICMP probes   *)
(* and the other traces send at the same time, and however late or often answers     *)
(* arrive, pingHop takes the answer to its own request (mtr.go:404, 415). The one    *)
(* exception is a request whose random identifier is 0 (mtr.go:468).                *)
(***********************************************************************************)
HopsAreOwn ==
  \A c \in Hops : Answered(c) => result[c].of = result[c].own \/ result[c].of.wire = 0

(***********************************************************************************)
(* A trace ends only at its target: pingHop says that the target is reached only if  *)
(* the request of this hop got there and the target answers, although the ICMP probe *)
(* of the same target gets echo replies from the same address all the time          *)
(* (mtr.go:413-424).                                                               *)
(***********************************************************************************)
ReachedIsReal ==
  \A c \in Hops : Answered(c) /\ result[c].reached =>
    result[c].own.ttl = "enough" /\ result[c].own.target \in alive

(***********************************************************************************)
(* Without raw sockets a ping is answered only by its own target: the kernel keeps   *)
(* the replies of other sockets away, and those to an earlier socket on the same     *)
(* port are told from the answer, unless the random identifier happens to be the     *)
(* port (icmp.go:223-234, 296). With raw sockets this does not hold.                 *)
(***********************************************************************************)
UnprivilegedPingsAreOwn ==
  \A c \in Pings :
    (Answered(c) /\ ~raw /\ result[c].own.id # result[c].own.wire) =>
      result[c].of = result[c].own
=====================================================================================
