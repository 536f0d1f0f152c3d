--------------------------------- MODULE Startup ---------------------------------
(***********************************************************************************)
(* One `stabsight run` from the command line to the return of RunApp: load the      *)
(* configuration, build the telemetry, register a worker for every probe, start,    *)
(* wait for the signal, stop, clean up. Meanwhile the workers measure, Prometheus   *)
(* scrapes, the exporter pushes, and the signal may come at any moment.             *)
(*                                                                                 *)
(* A worker is what Stop waits for: checks and the exit. Agent has the whole loop   *)
(* and the pauses, which only delay it.                                             *)
(***********************************************************************************)
EXTENDS Config, Telemetry

VARIABLES main,     \* where newRunCmd and RunApp are
          outcome,  \* "running", "ok", "error", "killed"
          ctxDone,  \* the signal has come
          next,     \* position of the registration loop
          workers,  \* registered probes: name |-> what the constructor made of its configuration
          doing     \* name |-> "new", "checking", "idle", "exited"

appVars == <<main, outcome, ctxDone, next, workers, doing>>
vars == <<configVars, telemetryVars, appVars>>

StartupInit ==
  /\ ConfigInit
  /\ TelemetryInit
  /\ main = "loading" /\ outcome = "running" /\ ctxDone = FALSE
  /\ next = 0
  /\ workers = <<>> /\ doing = <<>>

\* The deferred calls of newRunCmd and RunApp run after this.
Return(result, cleanup) ==
  /\ outcome' = result
  /\ main' = IF cleanup THEN "cleanup" ELSE "returned"
  /\ UNCHANGED <<ctxDone, next, workers, doing>>

Goto(location) == main' = location /\ UNCHANGED <<outcome, ctxDone, next, workers, doing>>

Load ==
  /\ main = "loading"
  /\ LoadStep
  /\ \/ loader' = "failed" /\ Return("error", FALSE)
     \/ loader' = "loaded" /\ Goto("listen")
     \/ loader' \notin {"failed", "loaded"} /\ UNCHANGED appVars
  /\ UNCHANGED telemetryVars

FileEdited == Edit /\ UNCHANGED <<telemetryVars, appVars>>

\* Before signal.NotifyContext the signal ends the process.
Signal ==
  /\ ~ctxDone
  /\ IF main = "loading" THEN main' = "returned" /\ outcome' = "killed"
                         ELSE main # "returned" /\ UNCHANGED <<main, outcome>>
  /\ ctxDone' = TRUE
  /\ UNCHANGED <<configVars, telemetryVars, next, workers, doing>>

-------------------------------------------------------------------------------------
(* RunApp, up to sched.Start. *)

Listen ==
  /\ main = "listen"
  /\ config.settings["metrics_addr"] # "bad"
  /\ StartMetricsServer
  /\ Goto("exporter")
  /\ UNCHANGED configVars

\* An address that means nothing, or one that is in use.
ListenFails ==
  /\ main = "listen"
  /\ Return("error", FALSE)
  /\ UNCHANGED <<configVars, telemetryVars>>

\* What an endpoint looks like: the default is localhost:4317, others may be anything.
Spelling(endpoint) ==
  IF endpoint = "default" THEN {[scheme |-> "none", http_port |-> FALSE]} ELSE Endpoints

CreateExporter ==
  /\ main = "exporter"
  /\ \E endpoint \in Spelling(config.settings["otlp_endpoint"]),
        general, metrics \in ProtocolNames : NewOTLPExporter(endpoint, general, metrics)
  /\ Goto("provider")
  /\ UNCHANGED configVars

\* An unknown protocol, or an error of the library. The metrics server stays (run.go:78).
CreateExporterFails ==
  /\ main = "exporter"
  /\ Return("error", FALSE)
  /\ UNCHANGED <<configVars, telemetryVars>>

CreateProvider ==
  /\ main = "provider"
  /\ NewProvider(config.settings["histogram_mode"] = "other", config.buckets)
  /\ Goto("instruments")
  /\ UNCHANGED configVars

CreateProviderFails ==
  /\ main = "provider"
  /\ Return("error", FALSE)
  /\ UNCHANGED <<configVars, telemetryVars>>

CreateInstruments ==
  /\ main = "instruments"
  /\ Goto("register")
  /\ UNCHANGED <<configVars, telemetryVars>>

\* Mutant of CreateInstrumentsFails: the deferred shutdown is set up only after NewMetrics.
CreateInstrumentsFailsUndeferred ==
  /\ main = "instruments"
  /\ Return("error", FALSE)
  /\ UNCHANGED <<configVars, telemetryVars>>

CreateInstrumentsFails ==
  /\ main = "instruments"
  /\ Return("error", TRUE)
  /\ UNCHANGED <<configVars, telemetryVars>>

-------------------------------------------------------------------------------------
(* Registration: the targets in order, six kinds of probes for each. *)

KindOrder == <<"icmp", "dns", "http", "tcp", "mtr", "speedtest">>

NameOf(t, kind) == <<t.name, kind>>    \* fmt.Sprintf("%s/icmp", targetName)

\* What a worker is made of. The constructors replace what is not positive by a default
\* of their own (here -1); only TCP has a port, and a speedtest has no host.
Construct(kind, t, p) ==
  [host     |-> IF kind = "speedtest" THEN "" ELSE t.host,
   interval |-> IF p.interval > 0 THEN p.interval ELSE -1,
   timeout  |-> IF p.timeout > 0 THEN p.timeout ELSE -1,
   port     |-> IF kind # "tcp" THEN 0 ELSE IF p.port > 0 THEN p.port ELSE -1]

\* A name that is taken is refused, and RunApp only warns.
RegisterWorker(name, w) ==
  workers' = [n \in DOMAIN workers \cup {name} |->
                IF n \in DOMAIN workers THEN workers[n] ELSE w]

RegisterNext ==
  LET t == config.targets[(next \div Len(KindOrder)) + 1]
      kind == KindOrder[(next % Len(KindOrder)) + 1] IN
  /\ main = "register"
  /\ next < Len(config.targets) * Len(KindOrder)
  /\ IF kind \in DOMAIN t.probes
     THEN RegisterWorker(NameOf(t, kind), Construct(kind, t, t.probes[kind]))
     ELSE UNCHANGED workers
  /\ next' = next + 1
  /\ UNCHANGED <<configVars, telemetryVars, main, outcome, ctxDone, doing>>

\* sched.Start launches every worker; it cannot fail, nothing has started the scheduler before.
StartWorkers ==
  /\ main = "register"
  /\ next = Len(config.targets) * Len(KindOrder)
  /\ main' = "waiting"
  /\ doing' = [n \in DOMAIN workers |-> "new"]
  /\ UNCHANGED <<configVars, telemetryVars, outcome, ctxDone, next, workers>>

-------------------------------------------------------------------------------------
(* The end of RunApp. *)

BeginStop ==
  /\ main = "waiting" /\ ctxDone
  /\ Goto("stopping")
  /\ UNCHANGED <<configVars, telemetryVars>>

\* Mutant of StopReturns: Stop does not wait for the goroutines.
StopReturnsAtOnce ==
  /\ main = "stopping"
  /\ CloseListener
  /\ Goto("draining")
  /\ UNCHANGED configVars

\* s.wg.Wait, then metricsServer.Shutdown.
StopReturns ==
  /\ main = "stopping"
  /\ \A n \in DOMAIN doing : doing[n] = "exited"
  /\ CloseListener
  /\ Goto("draining")
  /\ UNCHANGED configVars

\* Mutant of ServerIsDown: the shutdown of the server has no timeout.
ServerIsDownUnlimited ==
  /\ main = "draining"
  /\ Drained
  /\ Return("ok", TRUE)
  /\ UNCHANGED configVars

ServerIsDown ==
  /\ main = "draining"
  /\ Drained \/ DrainTimesOut
  /\ Return("ok", TRUE)
  /\ UNCHANGED configVars

\* The deferred telProvider.Shutdown.
Cleanup ==
  /\ main = "cleanup"
  /\ \E reached \in BOOLEAN : ShutdownProvider(reached)
  /\ Goto("returned")
  /\ UNCHANGED configVars

RunAppStep ==
  \/ Listen \/ ListenFails \/ CreateExporter \/ CreateExporterFails
  \/ CreateProvider \/ CreateProviderFails \/ CreateInstruments \/ CreateInstrumentsFails
  \/ RegisterNext \/ StartWorkers \/ BeginStop \/ StopReturns \/ ServerIsDown \/ Cleanup

-------------------------------------------------------------------------------------
(* The workers. *)

Do(n, activity) == doing' = [doing EXCEPT ![n] = activity]

FirstCheck(n) ==
  /\ doing[n] = "new"
  /\ Do(n, "checking")
  /\ UNCHANGED <<configVars, telemetryVars, main, outcome, ctxDone, next, workers>>

\* A cancelled context does not keep select from choosing the tick.
CheckOnTick(n) ==
  /\ doing[n] = "idle"
  /\ recorded < MaxRecords
  /\ Do(n, "checking")
  /\ UNCHANGED <<configVars, telemetryVars, main, outcome, ctxDone, next, workers>>

FinishCheck(n) ==
  /\ doing[n] = "checking"
  /\ Record
  /\ Do(n, "idle")
  /\ UNCHANGED <<configVars, main, outcome, ctxDone, next, workers>>

WorkerExits(n) ==
  /\ doing[n] = "idle" /\ ctxDone
  /\ Do(n, "exited")
  /\ UNCHANGED <<configVars, telemetryVars, main, outcome, ctxDone, next, workers>>

WorkerStep(n) == FirstCheck(n) \/ CheckOnTick(n) \/ FinishCheck(n) \/ WorkerExits(n)

\* The process ends with RunApp; until then the collector and Prometheus do as they like.
Outside ==
  /\ main # "returned"
  /\ ServeFails \/ ScrapeBegins \/ ScrapeEnds \/ Export
  /\ UNCHANGED <<configVars, appVars>>

StartupNext ==
  \/ Load \/ FileEdited \/ Signal \/ RunAppStep \/ Outside
  \/ \E n \in DOMAIN doing : WorkerStep(n)

StartupSpec == StartupInit /\ [][StartupNext]_vars

(* The goroutine of RunApp and those of the workers go on when they can: a check has a
   timeout, both shutdowns have one, and a select that is visited again and again takes
   the cancelled context eventually. Nothing is assumed of the world outside.         *)
StartupFairSpec ==
  /\ StartupSpec
  /\ WF_vars(Load) /\ WF_vars(RunAppStep)
  /\ WF_vars(\E n \in DOMAIN doing : FirstCheck(n))
  /\ WF_vars(\E n \in DOMAIN doing : FinishCheck(n))
  /\ SF_vars(\E n \in DOMAIN doing : WorkerExits(n))

-------------------------------------------------------------------------------------
(* Properties. *)

(***********************************************************************************)
(* Type invariant. A loader that has not loaded leaves RunApp untouched; a worker    *)
(* runs only if it was registered.                                                  *)
(***********************************************************************************)
StartupTypeOK ==
  /\ file \in Files /\ edits \in 0..MaxEdits /\ flags \in Flags /\ env \in Envs
  /\ fromFile \in PartialSettings
  /\ DOMAIN config = DOMAIN NewDefaultConfig
  /\ config.settings \in Settings /\ config.buckets \in Seq(Floats) /\ AreTargets(config.targets)
  /\ loader \in {"reading", "decoding", "validating", "loaded", "failed"}
  /\ server \in {"none", "listening", "broken", "draining", "closed"}
  /\ scraping \in BOOLEAN /\ gaveUp \in BOOLEAN /\ flushed \in BOOLEAN
  /\ exporter.scheme \in {"none", "http", "https"} /\ exporter.insecure \in BOOLEAN
  /\ provider \in {"none", "open", "closed"}
  /\ aggregation.kind \in {"none", "explicit", "exponential"}
  /\ recorded \in Nat /\ exported \in 0..recorded
  /\ main \in {"loading", "listen", "exporter", "provider", "instruments", "register",
               "waiting", "stopping", "draining", "cleanup", "returned"}
  /\ outcome \in {"running", "ok", "error", "killed"} /\ ctxDone \in BOOLEAN
  /\ next \in 0..(Len(config.targets) * Len(KindOrder))
  /\ DOMAIN doing \subseteq DOMAIN workers
  /\ \A n \in DOMAIN doing : doing[n] \in {"new", "checking", "idle", "exited"}

\* What the four layers together say of a key, by rank.
Effective(k) ==
  LET given == {s \in {<<3, flags[k]>>, <<2, env[k]>>, <<1, fromFile[k]>>, <<0, "default">>} :
                  s[2] # Unset /\ s # <<2, "blank">>}
  IN (CHOOSE s \in given : \A r \in given : r[1] <= s[1])[2]

(***********************************************************************************)
(* Flag over environment over file over default, as requirements.md:13 (FR7) has it, *)
(* also when the file changes while it is read: what is served for each key is the  *)
(* value of the highest layer that gives one, and an illegal value in a lower layer *)
(* neither stops the program nor reaches it (config.go:203-212).                    *)
(***********************************************************************************)
OverridesDecide ==
  /\ loader = "loaded" => config.settings = [k \in Keys |-> Effective(k)]
  /\ (loader = "failed" /\ file.syntax = "fine" /\ edits = 0) =>
       \/ \E k \in Keys : Effective(k) \notin LegalValues(k)
       \/ ~ValidBuckets(file.buckets)
       \/ \E i \in 1..Len(file.targets) : ~ValidTarget(file.targets[i])

Serving == main \in {"waiting", "stopping"}

\* The configured probes: target and kind.
Configured ==
  {c \in (1..Len(config.targets)) \X Kinds : c[2] \in DOMAIN config.targets[c[1]].probes}

NameIn(i, kind) == NameOf(config.targets[i], kind)

\* No target before has a probe of this name.
IsFirst(i, kind) == \A j \in 1..(i - 1) : ~(/\ config.targets[j].name = config.targets[i].name
                                            /\ kind \in DOMAIN config.targets[j].probes)

\* The probe runs, with what its own target says of it.
RunsAs(i, kind) ==
  LET t == config.targets[i]
      p == t.probes[kind]
  IN /\ NameIn(i, kind) \in DOMAIN doing
     /\ workers[NameIn(i, kind)] =
          [host |-> IF kind = "speedtest" THEN "" ELSE t.host, interval |-> p.interval,
           timeout |-> p.timeout, port |-> IF kind = "tcp" THEN p.port ELSE 0]

(***********************************************************************************)
(* Whatever two versions of the file were read, the workers of a serving agent are   *)
(* exactly the configured probes but those whose name an earlier target has taken,   *)
(* and each runs with the host, interval, timeout and port of its own target:        *)
(* Validate lets nothing through for which a constructor would put its own default   *)
(* (icmp.go:47, tcp.go:50), NewTicker would panic, or a port would not exist.        *)
(***********************************************************************************)
RunsAsConfigured ==
  Serving =>
    /\ \A c \in Configured : IsFirst(c[1], c[2]) =>
         LET p == config.targets[c[1]].probes[c[2]]
         IN /\ RunsAs(c[1], c[2])
            /\ p.interval > 0 /\ p.timeout > 0
            /\ c[2] = "tcp" => p.port \in Ports
    /\ \A n \in DOMAIN doing :
         \E c \in Configured : IsFirst(c[1], c[2]) /\ n = NameIn(c[1], c[2])

(***********************************************************************************)
(* "Run starts all configured network probes" (run.go:26): a serving agent runs each *)
(* probe of each target with what that target says of it, also where two targets     *)
(* have one name, which Validate accepts.                                           *)
(***********************************************************************************)
EveryProbeRuns == Serving => \A c \in Configured : RunsAs(c[1], c[2])

(***********************************************************************************)
(* Histogram boundaries are positive and increase, between any two places that have  *)
(* no NaN at or between them, whichever of the default, the first or the second      *)
(* reading of the file they come from (config.go:249, provider.go:93). A NaN passes  *)
(* both comparisons of Validate, and what stands before it is not compared with what *)
(* stands behind it: <<1, 5, NaN, 2>> reaches the SDK.                               *)
(***********************************************************************************)
BoundariesAreOrdered ==
  LET b == aggregation.boundaries IN
  \A i, j \in 1..Len(b) :
    i <= j /\ (\A k \in i..j : b[k] # NaN) => b[i] > 0 /\ (i < j => b[i] < b[j])

(***********************************************************************************)
(* After a graceful end whose last export reached the collector, the collector has  *)
(* every measurement of every worker: Stop waits for the workers before the provider *)
(* is shut down, and none of them measures afterwards (run.go:93 and 172).           *)
(***********************************************************************************)
NothingIsLost ==
  (main = "returned" /\ outcome = "ok" /\ flushed) => exported = recorded

(***********************************************************************************)
(* From wherever RunApp returns, no worker is left running and no provider is left   *)
(* open; the metrics server is left only where a later step of the setup failed     *)
(* (run.go:78, 91, 102).                                                            *)
(***********************************************************************************)
ReturnReleases ==
  main = "returned" =>
    /\ provider # "open"
    /\ \A n \in DOMAIN doing : doing[n] = "exited"
    /\ server # "closed" => outcome \in {"error", "killed"}

(***********************************************************************************)
(* A scrape that Prometheus has begun is answered by an open provider, unless it    *)
(* outlasts the three seconds of the server's shutdown or the setup has failed      *)
(* (run.go:93, 175).                                                                *)
(***********************************************************************************)
ScrapesAreAnswered ==
  (scraping /\ provider = "closed") => gaveUp \/ outcome = "error"

(***********************************************************************************)
(* What Lifetimes promises holds from the command line to the return of RunApp,      *)
(* from whichever step of the setup it returns early: workers are launched once,     *)
(* measure first, and have all left before the server and the provider are shut down *)
(* (run.go:168-181, scheduler.go:231). Agent implements Lifetimes as well, with the  *)
(* whole loop of every worker, which is why a worker may be as simple as it is here. *)
(***********************************************************************************)
Life == INSTANCE Lifetimes WITH
  asked <- ctxDone,
  stage <- CASE main \in {"waiting", "stopping"} -> "serving"
             [] main \in {"draining", "cleanup", "returned"} -> "over"
             [] OTHER -> "before"

WorkersLiveInOrder == Life!LifeSpec

(***********************************************************************************)
(* After the signal the run comes to its end, from whatever moment of the setup, of  *)
(* a check, or of a scrape it arrives at (run.go:44, 168-181).                       *)
(***********************************************************************************)
SignalEndsTheRun == ctxDone ~> (main = "returned")
=====================================================================================
