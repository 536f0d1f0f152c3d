------------------------------- MODULE StartupProofs -------------------------------
(***********************************************************************************)
(* Proofs about Startup, for every set of files, flags and environments and any     *)
(* number of targets, edits and measurements.                                       *)
(***********************************************************************************)
EXTENDS Startup, TLAPS

-------------------------------------------------------------------------------------
(* The end of the run: who is still there, and what the collector has.              *)

AllExited == \A n \in DOMAIN doing : doing[n] = "exited"

\* Workers exist only between Start and the end of Stop.
Quiet == main \notin {"waiting", "stopping"} => AllExited

\* Where the provider is open; it is closed by the last step only.
ProviderFollows ==
  /\ provider \in {"none", "open", "closed"}
  /\ provider = "open" <=> main \in {"instruments", "register", "waiting", "stopping",
                                     "draining", "cleanup"}
  /\ provider = "closed" => main = "returned" /\ outcome \in {"ok", "error"}

ServerFollows ==
  /\ main = "draining" => server \in {"draining"}
  /\ outcome = "ok" => server = "closed"
  /\ server = "closed" /\ scraping => gaveUp

OutcomeFollows ==
  /\ outcome \in {"running", "ok", "error", "killed"}
  /\ outcome = "running" <=> main \notin {"cleanup", "returned"}
  /\ main = "cleanup" => outcome # "killed"

Flushed == flushed => main = "returned" /\ exported = recorded

EndInv == Quiet /\ ProviderFollows /\ ServerFollows /\ OutcomeFollows /\ Flushed

LEMMA EndInv_Init == StartupInit => EndInv
  BY DEF StartupInit, TelemetryInit, EndInv, Quiet, AllExited, ProviderFollows,
         ServerFollows, OutcomeFollows, Flushed

LEMMA EndInv_Setup ==
  ASSUME EndInv, \/ Load \/ FileEdited \/ Signal \/ Outside
                 \/ Listen \/ ListenFails \/ CreateExporter \/ CreateExporterFails
                 \/ CreateProvider \/ CreateProviderFails
                 \/ CreateInstruments \/ CreateInstrumentsFails \/ RegisterNext
  PROVE  EndInv'
  <1> USE DEF EndInv, Quiet, AllExited, ProviderFollows, ServerFollows, OutcomeFollows,
              Flushed, Return, Goto, telemetryVars, serverVars, meterVars, appVars, configVars
  <1>1. CASE Load
    <2>1. /\ main = "loading"
          /\ \/ Return("error", FALSE)
             \/ Goto("listen")
             \/ UNCHANGED appVars
          /\ UNCHANGED telemetryVars
      BY <1>1 DEF Load
    <2> QED
      BY <2>1
  <1>2. CASE FileEdited
    BY <1>2 DEF FileEdited
  <1>3. CASE Signal
    BY <1>3 DEF Signal
  <1>4. CASE Outside
    BY <1>4 DEF Outside, ServeFails, ScrapeBegins, ScrapeEnds, Export
  <1>5. CASE Listen
    BY <1>5 DEF Listen, StartMetricsServer
  <1>6. CASE ListenFails
    BY <1>6 DEF ListenFails
  <1>7. CASE CreateExporter
    <2>1. main = "exporter" /\ Goto("provider") /\ UNCHANGED <<serverVars, meterVars>>
      BY <1>7 DEF CreateExporter, NewOTLPExporter
    <2> QED
      BY <2>1
  <1>8. CASE CreateExporterFails
    BY <1>8 DEF CreateExporterFails
  <1>9. CASE CreateProvider
    <2>1. /\ main = "provider" /\ Goto("instruments") /\ provider' = "open"
          /\ UNCHANGED <<serverVars, recorded, exported, flushed>>
      BY <1>9 DEF CreateProvider, NewProvider
    <2> QED
      BY <2>1
  <1>10. CASE CreateProviderFails
    BY <1>10 DEF CreateProviderFails
  <1>11. CASE CreateInstruments
    BY <1>11 DEF CreateInstruments
  <1>12. CASE CreateInstrumentsFails
    BY <1>12 DEF CreateInstrumentsFails
  <1>13. CASE RegisterNext
    <2>1. main = "register" /\ UNCHANGED <<telemetryVars, main, outcome, doing>>
      BY <1>13 DEF RegisterNext
    <2> QED
      BY <2>1
  <1> QED
    BY <1>1, <1>2, <1>3, <1>4, <1>5, <1>6, <1>7, <1>8, <1>9, <1>10, <1>11, <1>12, <1>13

LEMMA EndInv_Rest ==
  ASSUME EndInv, \/ StartWorkers \/ BeginStop \/ StopReturns \/ ServerIsDown \/ Cleanup
                 \/ \E n \in DOMAIN doing : WorkerStep(n)
  PROVE  EndInv'
  <1> USE DEF EndInv, Quiet, AllExited, ProviderFollows, ServerFollows, OutcomeFollows,
              Flushed, Return, Goto, telemetryVars, serverVars, meterVars, appVars, configVars
  <1>1. CASE StartWorkers
    BY <1>1 DEF StartWorkers
  <1>2. CASE BeginStop
    BY <1>2 DEF BeginStop
  <1>3. CASE StopReturns
    BY <1>3 DEF StopReturns, CloseListener
  <1>4. CASE ServerIsDown
    BY <1>4 DEF ServerIsDown, Drained, DrainTimesOut
  <1>5. CASE Cleanup
    <2>1. PICK reached \in BOOLEAN : ShutdownProvider(reached)
      BY <1>5 DEF Cleanup
    <2>2. flushed' => exported' = recorded'
      BY <2>1 DEF ShutdownProvider
    <2>3. /\ main = "cleanup" /\ Goto("returned")
          /\ provider' = "closed" /\ UNCHANGED serverVars
      BY <1>5, <2>1 DEF Cleanup, ShutdownProvider
    <2> QED
      BY <2>2, <2>3
  <1>6. ASSUME NEW n \in DOMAIN doing, WorkerStep(n) PROVE EndInv'
    <2>1. doing[n] # "exited" /\ main \in {"waiting", "stopping"}
      BY <1>6 DEF WorkerStep, FirstCheck, CheckOnTick, FinishCheck, WorkerExits
    <2>2. /\ UNCHANGED <<main, outcome, serverVars, provider, exported, flushed>>
      BY <1>6 DEF WorkerStep, FirstCheck, CheckOnTick, FinishCheck, WorkerExits, Record
    <2>3. ~flushed
      BY <2>1
    <2> QED
      BY <2>1, <2>2, <2>3
  <1> QED
    BY <1>1, <1>2, <1>3, <1>4, <1>5, <1>6

LEMMA EndInv_Inductive == EndInv /\ [StartupNext]_vars => EndInv'
  <1>1. CASE UNCHANGED vars
    BY <1>1 DEF vars, appVars, telemetryVars, serverVars, meterVars, EndInv, Quiet, AllExited,
                ProviderFollows, ServerFollows, OutcomeFollows, Flushed
  <1> QED
    BY <1>1, EndInv_Setup, EndInv_Rest DEF StartupNext, RunAppStep

LEMMA EndInvariant == StartupSpec => []EndInv
  BY EndInv_Init, EndInv_Inductive, PTL DEF StartupSpec

(***********************************************************************************)
(* A graceful end whose last export arrives leaves the collector with every          *)
(* measurement of every worker (run.go:93, 172).                                    *)
(***********************************************************************************)
THEOREM GracefulEndLosesNothing == StartupSpec => []NothingIsLost
  <1>1. EndInv => NothingIsLost
    BY DEF EndInv, Flushed, NothingIsLost
  <1> QED
    BY <1>1, EndInvariant, PTL

(***********************************************************************************)
(* Every return of RunApp leaves neither workers nor an open provider behind, and    *)
(* the metrics server only after a failed setup (run.go:78, 91, 102, 181).           *)
(***********************************************************************************)
THEOREM EveryReturnReleases == StartupSpec => []ReturnReleases
  <1>1. EndInv => ReturnReleases
    BY DEF EndInv, Quiet, AllExited, ProviderFollows, ServerFollows, OutcomeFollows,
           ReturnReleases
  <1> QED
    BY <1>1, EndInvariant, PTL

(***********************************************************************************)
(* In a graceful end a scrape loses its provider only by outlasting the shutdown of   *)
(* the server (run.go:93, 175).                                                     *)
(***********************************************************************************)
THEOREM ScrapesGetAnswers == StartupSpec => []ScrapesAreAnswered
  <1>1. EndInv => ScrapesAreAnswered
    BY DEF EndInv, ProviderFollows, ServerFollows, ScrapesAreAnswered
  <1> QED
    BY <1>1, EndInvariant, PTL

-------------------------------------------------------------------------------------
(* Startup implements Lifetimes: what RunApp does besides launching the workers and   *)
(* waiting for them is a stutter, or abandons a setup that has launched nobody.       *)

Stage == CASE main \in {"waiting", "stopping"} -> "serving"
           [] main \in {"draining", "cleanup", "returned"} -> "over"
           [] OTHER -> "before"

\* What Lifetimes offers to a step, in terms of Startup's variables.
LEMMA LifeSteps ==
  ASSUME \/ UNCHANGED <<doing, Stage, ctxDone>>
         \/ ctxDone' = TRUE /\ UNCHANGED <<doing, Stage>>
         \/ /\ Stage = "before" /\ Stage' = "over" /\ ctxDone' \in {ctxDone, TRUE}
            /\ UNCHANGED doing
         \/ /\ Stage = "before" /\ Stage' = "serving" /\ UNCHANGED ctxDone
            /\ doing' \in [DOMAIN doing' -> {"new"}]
         \/ /\ Stage = "serving" /\ Stage' = "over" /\ ctxDone /\ AllExited
            /\ UNCHANGED <<doing, ctxDone>>
         \/ \E n \in DOMAIN doing :
              /\ UNCHANGED <<Stage, ctxDone>>
              /\ \/ doing[n] \in {"new", "idle"} /\ Do(n, "checking")
                 \/ doing[n] = "checking" /\ Do(n, "idle")
                 \/ ctxDone /\ doing[n] = "idle" /\ Do(n, "exited")
  PROVE  Life!LifeNext \/ UNCHANGED Life!lifeVars
  BY DEF Life!LifeNext, Life!lifeVars, Life!Launch, Life!Ask, Life!Over, Life!Abandon,
         Life!Begin, Life!End, Life!Leave, Stage, AllExited, Do

\* Stop is called after the signal only.
SignalFirst == main = "stopping" => ctxDone

LEMMA SignalComesFirst == StartupSpec => []SignalFirst
  <1>1. StartupInit => SignalFirst
    BY DEF StartupInit, SignalFirst
  <1>2. SignalFirst /\ [StartupNext]_vars => SignalFirst'
    <2> SUFFICES ASSUME SignalFirst, [StartupNext]_vars, main' = "stopping"
                 PROVE  ctxDone'
      BY DEF SignalFirst
    <2> USE DEF SignalFirst, Goto, Return, appVars
    <2>1. CASE Load \/ FileEdited \/ Signal \/ Outside \/ UNCHANGED vars
      BY <2>1 DEF Load, FileEdited, Signal, Outside, vars
    <2>2. CASE RunAppStep
      BY <2>2 DEF RunAppStep, Listen, ListenFails, CreateExporter, CreateExporterFails,
                  CreateProvider, CreateProviderFails, CreateInstruments,
                  CreateInstrumentsFails, RegisterNext, StartWorkers, BeginStop,
                  StopReturns, ServerIsDown, Cleanup
    <2>3. ASSUME NEW n \in DOMAIN doing, WorkerStep(n)
          PROVE  ctxDone'
      BY <2>3 DEF WorkerStep, FirstCheck, CheckOnTick, FinishCheck, WorkerExits
    <2> QED
      BY <2>1, <2>2, <2>3 DEF StartupNext
  <1> QED
    BY <1>1, <1>2, PTL DEF StartupSpec

LEMMA SetupLives ==
  ASSUME \/ Load \/ FileEdited \/ Signal \/ Outside
         \/ Listen \/ ListenFails \/ CreateExporter \/ CreateExporterFails
         \/ CreateProvider \/ CreateProviderFails
         \/ CreateInstruments \/ CreateInstrumentsFails \/ RegisterNext
  PROVE  Life!LifeNext \/ UNCHANGED Life!lifeVars
  <1> USE DEF Return, Goto, appVars, Stage
  <1>1. CASE Load \/ Signal
    <2>1. UNCHANGED doing /\ (ctxDone' = ctxDone \/ ctxDone' = TRUE)
      BY <1>1 DEF Load, Signal
    <2>2. \/ UNCHANGED Stage
          \/ Stage = "before" /\ Stage' = "over"
      BY <1>1 DEF Load, Signal
    <2> QED
      BY <2>1, <2>2, LifeSteps
  <1>2. CASE \/ FileEdited \/ Outside \/ Listen \/ CreateExporter \/ CreateProvider
             \/ CreateInstruments \/ RegisterNext
    <2>1. UNCHANGED <<doing, ctxDone, Stage>>
      BY <1>2 DEF FileEdited, Outside, Listen, CreateExporter, CreateProvider,
                  CreateInstruments, RegisterNext
    <2> QED
      BY <2>1, LifeSteps
  <1>3. CASE ListenFails \/ CreateExporterFails \/ CreateProviderFails \/ CreateInstrumentsFails
    <2>1. UNCHANGED <<doing, ctxDone>> /\ Stage = "before" /\ Stage' = "over"
      BY <1>3 DEF ListenFails, CreateExporterFails, CreateProviderFails, CreateInstrumentsFails
    <2> QED
      BY <2>1, LifeSteps
  <1> QED
    BY <1>1, <1>2, <1>3

LEMMA RestLives ==
  ASSUME SignalFirst,
         \/ StartWorkers \/ BeginStop \/ StopReturns \/ ServerIsDown \/ Cleanup
         \/ \E n \in DOMAIN doing : WorkerStep(n)
  PROVE  Life!LifeNext \/ UNCHANGED Life!lifeVars
  <1> USE DEF Return, Goto, Stage
  <1>1. CASE StartWorkers
    <2>1. Stage = "before" /\ Stage' = "serving" /\ UNCHANGED ctxDone
      BY <1>1 DEF StartWorkers
    <2>2. doing' \in [DOMAIN doing' -> {"new"}]
      BY <1>1 DEF StartWorkers
    <2> QED
      BY <2>1, <2>2, LifeSteps
  <1>2. CASE BeginStop \/ ServerIsDown \/ Cleanup
    <2>1. UNCHANGED <<doing, ctxDone, Stage>>
      BY <1>2 DEF BeginStop, ServerIsDown, Cleanup
    <2> QED
      BY <2>1, LifeSteps
  <1>3. CASE StopReturns
    <2>1. /\ Stage = "serving" /\ Stage' = "over" /\ ctxDone /\ AllExited
          /\ UNCHANGED <<doing, ctxDone>>
      BY <1>3 DEF StopReturns, SignalFirst, AllExited
    <2> QED
      BY <2>1, LifeSteps
  <1>4. ASSUME NEW n \in DOMAIN doing, WorkerStep(n)
        PROVE  Life!LifeNext \/ UNCHANGED Life!lifeVars
    <2>1. UNCHANGED <<Stage, ctxDone>>
      BY <1>4 DEF WorkerStep, FirstCheck, CheckOnTick, FinishCheck, WorkerExits
    <2>2. \/ doing[n] \in {"new", "idle"} /\ Do(n, "checking")
          \/ doing[n] = "checking" /\ Do(n, "idle")
          \/ ctxDone /\ doing[n] = "idle" /\ Do(n, "exited")
      BY <1>4 DEF WorkerStep, FirstCheck, CheckOnTick, FinishCheck, WorkerExits
    <2> QED
      BY <2>1, <2>2, LifeSteps
  <1> QED
    BY <1>1, <1>2, <1>3, <1>4

(***********************************************************************************)
(* For any files and any number of workers: they are launched once, measure first,   *)
(* leave only after the signal, and have all left before anything they use is shut    *)
(* down, from whichever step RunApp returns (run.go:168-181, scheduler.go:231).      *)
(***********************************************************************************)
THEOREM StartupLivesInOrder == StartupSpec => WorkersLiveInOrder
  <1>1. StartupInit => Life!LifeInit
    BY DEF StartupInit, Life!LifeInit
  <1>2. SignalFirst /\ [StartupNext]_vars => [Life!LifeNext]_(Life!lifeVars)
    <2> SUFFICES ASSUME SignalFirst, [StartupNext]_vars
                 PROVE  Life!LifeNext \/ UNCHANGED Life!lifeVars
      OBVIOUS
    <2>1. CASE UNCHANGED vars
      <3>1. UNCHANGED <<doing, ctxDone, Stage>>
        BY <2>1 DEF vars, appVars, Stage
      <3> QED
        BY <3>1, LifeSteps
    <2> QED
      BY <2>1, SetupLives, RestLives DEF StartupNext, RunAppStep
  <1> QED
    BY <1>1, <1>2, SignalComesFirst, PTL
       DEF StartupSpec, WorkersLiveInOrder, Life!LifeSpec
=====================================================================================
