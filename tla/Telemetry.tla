-------------------------------- MODULE Telemetry --------------------------------
(***********************************************************************************)
(* internal/telemetry as RunApp uses it: the pull side (an HTTP server that answers *)
(* /metrics), the push side (a periodic OTLP exporter) and the meter provider that  *)
(* both read from. The SDK is external. Its sums and histograms are cumulative, so  *)
(* an export carries everything recorded so far, and a failed one loses nothing     *)
(* that a later one does not bring.                                                 *)
(***********************************************************************************)
EXTENDS Integers, Sequences

CONSTANT MaxRecords   \* bound: measurements recorded

ASSUME RecordsAssumption == MaxRecords \in Nat

VARIABLES server,       \* MetricsServer: "none", "listening", "broken", "draining", "closed"
          scraping,     \* a scrape is being answered
          gaveUp,       \* the 3 seconds of its Shutdown have elapsed
          exporter,     \* what NewOTLPExporter makes of the endpoint
          provider,     \* "none", "open", "closed"
          aggregation,  \* what histograms are made of
          recorded,     \* measurements made with the instruments
          exported,     \* how many of them the collector has
          flushed       \* the last export succeeded

serverVars == <<server, scraping, gaveUp>>
meterVars == <<provider, aggregation, recorded, exported, flushed>>
telemetryVars == <<serverVars, exporter, meterVars>>

NoExporter == [scheme |-> "none", protocol |-> "none", insecure |-> FALSE]
NoAggregation == [kind |-> "none", boundaries |-> <<>>]

TelemetryInit ==
  /\ server = "none" /\ scraping = FALSE /\ gaveUp = FALSE
  /\ exporter = NoExporter
  /\ provider = "none" /\ aggregation = NoAggregation
  /\ recorded = 0 /\ exported = 0 /\ flushed = FALSE

-------------------------------------------------------------------------------------
(* The pull side. *)

StartMetricsServer ==
  /\ server' = "listening"
  /\ UNCHANGED <<scraping, gaveUp, exporter, meterVars>>

\* Serve returns for another reason than Shutdown; the error is dropped (prometheus.go:84).
ServeFails ==
  /\ server = "listening"
  /\ server' = "broken"
  /\ UNCHANGED <<scraping, gaveUp, exporter, meterVars>>

ScrapeBegins ==
  /\ server = "listening" /\ ~scraping
  /\ scraping' = TRUE
  /\ UNCHANGED <<server, gaveUp, exporter, meterVars>>

ScrapeEnds ==
  /\ scraping
  /\ scraping' = FALSE
  /\ UNCHANGED <<server, gaveUp, exporter, meterVars>>

\* http.Server.Shutdown: no new connections, then it waits for those in use.
CloseListener ==
  /\ server' = "draining"
  /\ UNCHANGED <<scraping, gaveUp, exporter, meterVars>>

\* Mutant of Drained: http.Server.Close, which does not wait.
DrainedAtOnce ==
  /\ server = "draining"
  /\ server' = "closed"
  /\ UNCHANGED <<scraping, gaveUp, exporter, meterVars>>

Drained ==
  /\ server = "draining" /\ ~scraping
  /\ server' = "closed"
  /\ UNCHANGED <<scraping, gaveUp, exporter, meterVars>>

DrainTimesOut ==
  /\ server = "draining" /\ scraping
  /\ server' = "closed"
  /\ gaveUp' = TRUE
  /\ UNCHANGED <<scraping, exporter, meterVars>>

-------------------------------------------------------------------------------------
(* The push side. *)

\* What NewOTLPExporter looks at in an endpoint: its scheme, and whether it ends in :4318.
Endpoints == [scheme : {"none", "http", "https"}, http_port : BOOLEAN]

\* An environment variable that names a protocol: unset, blanks only, or a name.
ProtocolNames == {"unset", "blank", "grpc", "http", "unknown"}

\* OTEL_EXPORTER_OTLP_PROTOCOL, or else OTEL_EXPORTER_OTLP_METRICS_PROTOCOL, or else a guess.
Protocol(endpoint, general, metrics) ==
  LET named == IF general = "unset" THEN metrics ELSE general
      guess == IF endpoint.scheme # "none" \/ endpoint.http_port THEN "http" ELSE "grpc"
  IN IF named \in {"unset", "blank"} THEN guess ELSE named

\* Is WithInsecure among the options? RunApp leaves cfg.Insecure FALSE, so HTTP passes it
\* for http:// only, and gRPC for everything but https://. Without it the library decides
\* by environment variables of its own (..._INSECURE, ..._CERTIFICATE, the scheme of
\* ..._ENDPOINT), none of which is modelled: an endpoint https:// may still be plaintext.
InsecureOption(protocol, endpoint) ==
  IF protocol = "http" THEN endpoint.scheme = "http" ELSE endpoint.scheme # "https"

NewOTLPExporter(endpoint, general, metrics) ==
  LET protocol == Protocol(endpoint, general, metrics) IN
  /\ protocol # "unknown"
  /\ exporter' = [scheme |-> endpoint.scheme, protocol |-> protocol,
                  insecure |-> InsecureOption(protocol, endpoint)]
  /\ UNCHANGED <<serverVars, meterVars>>

-------------------------------------------------------------------------------------
(* The meter provider. *)

\* In tenths of a millisecond.
DefaultLatencyBuckets ==
  <<5, 10, 25, 50, 100, 250, 500, 1000, 2500, 5000, 10000, 25000, 50000, 100000>>

NewProvider(exponential, buckets) ==
  /\ provider' = "open"
  /\ aggregation' =
       IF exponential THEN [kind |-> "exponential", boundaries |-> <<>>]
       ELSE [kind |-> "explicit",
             boundaries |-> IF buckets = <<>> THEN DefaultLatencyBuckets ELSE buckets]
  /\ UNCHANGED <<serverVars, exporter, recorded, exported, flushed>>

\* A Record call. After Shutdown the instruments drop what they are given.
Record ==
  /\ recorded' = recorded + 1
  /\ UNCHANGED <<serverVars, exporter, provider, aggregation, exported, flushed>>

\* A tick of the PeriodicReader that reaches the collector.
Export ==
  /\ provider = "open"
  /\ exported < recorded
  /\ exported' = recorded
  /\ UNCHANGED <<serverVars, exporter, provider, aggregation, recorded, flushed>>

\* Shutdown exports once more; the collector may be out of reach for the 5 seconds it has.
ShutdownProvider(reached) ==
  /\ provider' = "closed"
  /\ flushed' = reached
  /\ exported' = IF reached THEN recorded ELSE exported
  /\ UNCHANGED <<serverVars, exporter, aggregation, recorded>>
=====================================================================================
