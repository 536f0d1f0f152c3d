# Formal model of stabsight

stabsight is a network monitoring agent: probes measure a set of targets at
their own intervals, a speedtest suspends all the others while it runs, a
traceroute is used to say where a degradation begins, and everything is
exported through OpenTelemetry. This directory holds TLA+ modules translated
from the Go source, TLC configurations that check them on small instances, and
proofs, checked by TLAPS, of the properties that matter most.

Paths below are relative to the repository; line numbers are those of the
commit the model was written against. `PROJECT.json` maps every definition
that models code to its lines.

## 1. The system

| Component | State it keeps | Operations | Interacts with |
|---|---|---|---|
| **Scheduler** `internal/scheduler` | `workers`, `running`, `paused`, `cancel` (under `mu`), `exclusiveMu`; per worker a `cmdChan` and an `ackChan` of capacity 1 | `RegisterWorker`, `Start`, `PauseAll`, `ResumeAll`, `ExecuteExclusive`, `Stop` | sends commands to probes and collects ACKs; called by speedtests and `RunApp` |
| **Probe worker loop** `icmp.go`, `dns.go`, `http.go`, `tcp.go`, `mtr.go` (`Start`) | where the goroutine is | first check, tick, command, pause loop, cancellation | receives from `cmdChan`, sends to `ackChan` |
| **Speedtest probe** `speedtest.go` | where the goroutine is | first measurement, tick, cancellation | calls `ExecuteExclusive` |
| **Agent life cycle** `cli/run.go` (`RunApp`) | signal context, telemetry provider, metrics server | setup, registration, `Start`, wait for the signal, `Stop`, cleanup | owns all of the above; gives MTR probes the `onResult` callback |
| **Measurement and jitter** `executeCheck` of four probes, `jitter.go`, `telemetry/metrics.go` | `JitterCalculator`, OTel instruments | check, `Compute`, `RecordRTT`, `RecordJitter`, `RecordPacketLoss` | the exporters collect concurrently |
| **MTR tracer** `mtr.go` | `lastResult` | `executeTrace`, `Trace`, `pingHop` | the network; `onResult` |
| **Diagnostic engine** `diagnostic/analyzer.go` | thresholds | `Analyze` | called by `onResult` |
| **ICMP echo** `icmp.go` (`RealPinger`), `mtr.go` (`pingHop`, `matchTimeExceeded`) | a socket, a sequence number, an identifier per request | `Ping`, `pingHop` | the network; every raw socket sees the packets of all |
| **DNS/HTTP/TCP clients** | none of their own | `Resolve`, `Do`, `Dial` | libraries |
| **Configuration** `config/config.go`, flags of `cli/root.go` | `Config` | `Load` (two reads of the file, merge of four layers), `Validate` | viper; its result decides which workers `RunApp` registers |
| **Telemetry export** `provider.go`, `prometheus.go`, `otlp.go` | meter provider, periodic exporter, HTTP server | construct, record, scrape, export, shut down | OTel SDK, Prometheus, the collector |
| **Logging**, **command line** | – | construction only | zerolog, cobra |

**What is hard here.**

* *The pause protocol.* `PauseAll` broadcasts `CmdPause`, waits for an ACK of
  each probe, `ResumeAll` broadcasts `CmdResume`. Each side reads `s.paused`
  in one critical section and acts on it after the lock is released; commands
  outlive the calls that sent them, in buffers; every blocking operation also
  listens to a context, and Go chooses at random among the ready cases.
* *Shutdown.* One cancellation reaches `RunApp`, the probes and the
  speedtests at once; `Stop` waits for all goroutines, which may be waiting
  for each other.
* *Failure half way.* A `PauseAll` that gives up after some of the ACKs; a
  `ResumeAll` that runs out of its five seconds; an error path that resumes
  under the Background context while it holds `exclusiveMu`.
* *Deadlines in deadlines.* A trace has `max_hops × timeout`, a hop has
  `timeout`, and reads go on until a packet matches.
* *Setup and cleanup.* Seven places at which `RunApp` returns early, each with
  other things acquired; at the end, workers, scrapes and the periodic exporter
  use the provider that a deferred call shuts down.
* *Two reads of one file.* viper reads the settings, `os.ReadFile` the targets
  and buckets; the file may be edited in between, and only the mixture is
  validated.
* *Whose answer is it?* Probes send echo requests with random identifiers at
  the same time, and answers are late, lost, doubled, and seen by every raw
  socket.
* *State left behind.* Channels reused by the next `Start`; label sets of a
  gauge that nothing overwrites; `lastResult`.

**What makes each component correct.** Scheduler and probes: while `fn` runs
every non-exclusive probe is in its pause loop; whenever no call is in
progress nobody is left paused; nobody waits for ever; nobody starves.
Measurement: jitter is the difference of consecutive RTTs, and a scrape finds
each RTT with its jitter. Tracer: silent hops alone do not exhaust
the deadline; only whole traces are published; a trace ends. Diagnosis: the
first faulty hop is blamed, and an anomaly is reported. Echo: a hop is named
after the answer to its own request. Configuration: the highest layer decides,
and every probe that `Validate` lets through runs as it was written. Telemetry and life
cycle: nothing measured is lost in a graceful end, everything acquired is
released, and the signal ends the run from anywhere.

The hazards, each at the line where it bites and with the properties that
watch it, are listed in `PROJECT.json` under `hazards`.

## 2. The modules

```
WorkerHandle ──┬── ProbeWorker ──┐
               └── Scheduler ────┼── Agent ───────── MCAgent
                                 │     ├── AgentProofs ── AgentRefinement
                                 │
                                 └── SchedulerAPI ── MCSchedulerAPI
                                       └── SchedulerAPIProofs
   ExclusiveAccess ◄─ refined by Agent and SchedulerAPI
   Lifetimes       ◄─ refined by Agent and Startup
Config ─────┬── Startup ── MCStartup
Telemetry ──┘     ├── StartupProofs
                  └── ConfigProofs
Diagnosis ── Traceroute ── TracerouteProofs
Echo ── MCEcho            Echo ── EchoProofs
Measurement ── MeasurementProofs
```

**WorkerHandle** is the pair of channels of `workerHandle`
(scheduler.go:11). Both have capacity one (scheduler.go:57), so `cmdChan[w]`
is a slot that holds a command or `Empty`, and `ackChan[w]` tells whether an
ACK waits. Exclusive workers have handles too, but `PauseAll` and `ResumeAll`
skip them, so `Probes` are the non-exclusive ones, numbered in the order of
`s.workers`.

**ProbeWorker** is the `Start` method of a probe. Its five copies (ICMP, DNS,
HTTP, TCP, MTR) differ in what a check does and in nothing else, so there is
one module; the map cites a different copy for different actions, to show that
they were all read. `probe[w]` is the location of the goroutine. The first
check comes before the select loop: a probe that is sent `CmdPause` right
after `Start` answers only after it has measured. The ticker may be ready at
every visit to the select, which over-approximates every interval. `CmdStop`
is left out: nothing in the program sends it.

**Scheduler** holds the methods, one action per critical section and per
channel operation. A critical section under `s.mu` contains no channel
operation and is therefore one action; between two of them everything is
interleaved. `pc[t]` is where a calling goroutine is, `next[t]` the handle its
loop has reached, `failed[t]` the error of its `PauseAll`. Each `select` with
`ctx.Done()` is two actions, both enabled when both cases are ready.

**Agent** is the deployed program: `RunApp` starts the scheduler once, waits
for the signal and stops it; probes run `ProbeWorker`; the speedtest probes
are the `Threads` that call `ExecuteExclusive`. All of them have contexts
derived from one, hence one `cancelled`. The loop in `Start` that launches the
goroutines is one action with its critical section: `PauseAll` is kept out by
the read lock, and a goroutine that is not launched cannot be told from one
that has not run yet. The context of the deferred `ResumeAll` has a timeout of
five seconds; `ResumeMayExpire` says whether it may elapse although no send is
blocked (a process that is suspended), otherwise it elapses only at a send
that finds a full buffer.

**SchedulerAPI** is the same `ProbeWorker` and `Scheduler` under another
environment, that of the package's own tests: clients call any of the three
methods under contexts that may end at any time, and an owner may stop the
scheduler and start it again under them.

**ExclusiveAccess** is the abstract specification: probes measure, a task
begins when none is measuring and no other task is in progress, none begins to
measure before the task ends, and after the shutdown is complete nothing uses
the network. It has no commands, ACKs, locks or program locations; `tasks` is a
set, which the specification keeps to at most one element. `Agent` and
`SchedulerAPI` implement it with `tasks` as the set of all callers that are
inside `fn`, read off their locations and not off `exclusiveMu`, so that a
second `fn` at once would show. In `SchedulerAPI` the callers are clients of
`ExecuteExclusive` whose contexts end at any time. There the end of the first run plays the part of the shutdown: afterwards
only the exclusion of the tasks from each other is left (section 5 says why).

**Lifetimes** is the other abstract specification: what `RunApp` is promised
about the goroutines that the scheduler launches. They are launched together
and once, each measures before anything else, none is interrupted inside a
measurement or leaves before the shutdown is asked for, and the run is over only
when all have left. `Agent` implements it with probes and speedtests whose
pauses it has in full (a speedtest is "checking" from `exclusiveMu.Lock()` to
its `Unlock`), `Startup` with everything `RunApp` does before and after. It is
what allows the workers of `Startup` to be as simple as they are.

**Measurement** is one check with each `Record` call as an action of its own,
since an exporter may collect between any two. The instruments are external:
the histograms are the sequences of their samples, the gauge keeps the last
value of every label set. `status_code` is the only label that varies within
a probe. Network results are `Outcomes`: an RTT, or a failure with or without
a status code. `Do` treats an expected code of 0 as "any of 2xx and 3xx", but
`NewHTTPProbe` never hands it 0 (http.go:60 and 76), so `ExpectedCode` is a code.

**Diagnosis** is `Analyze` as an operator, without wording and timestamps.

**Traceroute** is an MTR probe: `Trace`, `pingHop` up to which packet it
matches (the network's choice), `executeTrace`, and the callback of `RunApp`
with its call of `Analyze`. `Answers` is what `pingHop` may return: nothing, a
time exceeded from any address (the target's own included), which never sets
`reachedTarget`, or the target's echo reply, which does. Time passes in units: `Wait` inside a hop,
`Delay` between two (name resolution, sockets, a goroutine that is not
scheduled). Metrics of a hop are left out.

**Echo** is what `Traceroute` leaves to the network: which packet a socket gets
and which one is taken for the answer. Goroutines in `Ping` and `pingHop` have
requests in flight at the same time. `wire` is the identifier that the packet
carries, `id` the one that the program chose: an unprivileged Linux socket
replaces the one by its port, so they differ without raw sockets. Answers are
not messages with a life of their own: whatever a sent request can be answered
with may be read at any later time and any number of times, which is loss,
delay, reordering and duplication at once. A router quotes the request
truthfully, perhaps cut before the ICMP header. `Fresh` is the assumption on
`math/rand` and on ports: no two requests whose answers may still arrive carry
the same two numbers (both random, 2^16 each).

**Config** is `config.Load`. A setting is what `Validate` and `RunApp` can tell
apart: the default, another good value, the empty string, or text that means
nothing. viper's resolution is external and modelled by what it does: flag over
environment over file over default, an empty environment variable counting as
unset. `histogram_mode` has no flag because `root.go` declares none. A file has
settings, buckets and targets of its own, may be missing, malformed, or of the
wrong types for the second decoder only, and `Edit` replaces it between the two
reads. Durations and ports are integers. A bucket is a member of `Floats`, an
integer or `NaN`, and `NotAbove` is Go's `<=` on them, which `NaN` makes false:
`Validate` refuses a bucket when `NotAbove` says so, and so lets `NaN` through.

**Telemetry** is the pull side (an HTTP server with scrapes in progress and a
shutdown of three seconds), the push side (an exporter that may fail) and the
provider both read from. `InsecureOption` is whether `NewOTLPExporter` passes
`WithInsecure`. That is all the repository decides about TLS: the OTLP libraries
read environment variables of their own first, and none of that is modelled.
Measurements are counted: the SDK's aggregation is
cumulative, so an export carries all of them.

**Startup** is one run of the program: `Load`, then `RunApp` with each of its
steps and its early returns, registration probe by probe with refused names,
the signal at any moment, `Stop`, the shutdown of the server and the deferred
shutdown of the provider. Its workers only check and exit: the pauses, which
`Agent` has in full, delay them and change nothing else here. `Configured` are
the pairs of target and kind in the configuration, `IsFirst` those whose name no
earlier target has, `RunsAs` says that a worker runs under that name with the
host, interval, timeout and port that this very target gives. `RunsAsConfigured`
is about the first of each name and about there being no other worker;
`EveryProbeRuns` is about all of them and is not true (section 5).

Definitions whose comment begins with *Mutant* are not part of the model: each
is a plausible bug in the action that follows it, and shows that a property is
not vacuous. `PROJECT.json` says which property each one violates.

## 3. What TLC checks

| Run | Specification and bounds | Properties | What it shows |
|---|---|---|---|
| `agent_safety` | `AgentSpec`; 2 probes, 2 speedtests (symmetric) | `AgentTypeOK`, `AgentInv`, `Exclusive`, `NoStrandedProbe`, `ResumeNeverBlocks`, `ImplementsAccess`, `WorkersLiveInOrder`, `CallsGoTheWholeWay` | in every interleaving with the signal and the shutdown `fn` has the network for itself, nobody is left paused, no resume waits, no call returns early on a stale flag while the agent serves, and `Stop` waits for everybody; no deadlock |
| `agent_liveness` | `AgentFairSpec`; 1 probe, 2 speedtests | `ShutdownCompletes`, `ExecuteExclusiveReturns`, `SpeedtestsKeepRunning`, `ProbesKeepMeasuring` | from wherever everybody is, `Stop` gets to its end; every call returns; neither side starves the other |
| `api` | `APIFairSpec`; 1 probe, 2 clients of `ExecuteExclusive`, contexts end at any time, 2 starts | `APITypeOK`, `FnHasTheNetwork`, `ClientsHaveAccess`, `CallsReturn` | before the first `Stop` a `PauseAll` that fails half way never lets a `fn`, of this call or a later one, run beside a probe, and no check begins beside a `fn`; in every run one `fn` at a time is in progress, which the tasks show that are read off the callers; a call whose context has ended returns, also when the scheduler is stopped and started under it; no deadlock |
| `api_client` | 2 probes, 1 client that mixes the three methods | `PausedIsTruthful` | between calls `s.paused` describes every probe |
| `measurement` | HTTP, 4 checks, RTTs 0, 1, 3, codes 200 (expected), 301, 404, 500 | `MeasurementTypeOK`, `JitterIsConsecutive`, `SamplesArePaired` | FR5, across failures and changing labels; a scrape at any moment finds consistent histograms |
| `traceroute` | `TracerouteFairSpec`; 2 hops, 2 traces, hop timeout 2, overhead up to 2, 1 router | `TracerouteTypeOK`, `OnlyOverheadExhausts`, `PublishedIsWhole`, `BlameIsStable`, `TraceEnds` | see below |
| `startup` | `StartupFairSpec`; 9 files, 3 sets of flags, 3 environments, 1 edit, 2 measurements beyond the first checks | `StartupTypeOK`, `OverridesDecide`, `RunsAsConfigured`, `BoundariesAreOrdered`, `NothingIsLost`, `ReturnReleases`, `ScrapesAreAnswered`, `WorkersLiveInOrder`, `SignalEndsTheRun` | what runs is the first configured probe of each name, as it was configured, over both reads of the file; boundaries ascend where no NaN separates them; every end of the run releases what it must; a graceful one loses nothing; the signal ends the run |
| `echo` | `EchoSpec`; 1 pinger and 1 tracer of one target, 1 tracer of another; 3 requests | `EchoTypeOK`, `HopsAreOwn`, `ReachedIsReal`, `UnprivilegedPingsAreOwn` | with and without raw sockets a hop is named after the answer to its own request, and a trace ends only where its target answered |
| `agent_late_resume`, `api_partial_pause`, `traceroute_unreported`, `startup_dropped_probe` | | one each | what the source says of itself and the code does not do: section 5 |

`agent_safety`, `agent_liveness`, `api` and `traceroute` check for deadlock.
The runs that switch the check off may really stop: `measurement` and `echo`
at their bounds of checks and requests, `startup` when `RunApp` has returned,
and `api_client`, whose client has no context that ends and may wait for ever
for an ACK that a stopped scheduler will not bring. `traceroute` never
deadlocks because the ICMP probe goes on.

**Bounds, and why they are enough.**
`NumProbes = 2` is the least number at which a broadcast can be half done, with
one handle served and another not; `next[t]` then takes every kind of value
(before, between, after). `agent_liveness` and `api` use one probe:
what they add is who waits for whom, and the handles of two probes are
independent (`FnHasTheNetwork` is proved for any number of them, and its
inductive invariant was also model-checked with two). Two threads give contention for `exclusiveMu`; a third would
wait like the second. `MaxStarts = 2` is the least number at which a run finds
what an earlier run left. `MaxChecks = 4` allows a failure at every place
among two or three successes. RTT 0 is the value that could be mistaken for
"no RTT yet". `StatusCodes` has the default expected code and three others.
`HopTimeout = 2` is the least at which overhead of one unit is not a whole
timeout; `MaxOverhead = 2` reaches a whole one. With `MaxHops = 2` there is a
first hop, a last hop and a faulty hop behind a faulty hop; with `MaxTraces = 2`
a second trace finds what the first one left. 
`MaxEdits = 1` is the least at which the two reads of the file differ. The files
break each rule of `Validate` once, give a target twice with the second one
adding a probe and repeating one, and differ from each other in settings,
buckets and targets, so that a mixture can be told from either; one has the
buckets `<<1, 5, NaN, 2>>`, which pass, another `<<5, 5>>`, which do not. `startup_dropped_probe`
needs neither edits nor further measurements, so both bounds are 0. Flags and
environments override each other, carry an empty and an illegal value.
`MaxRecords = 2` leaves a measurement after the last periodic export.
`MaxRequests = 3` allows a request, a foreign one and a second request of the
same caller; `Numbers = {0, 1}` makes identifiers and sequence numbers collide
one at a time and has the identifier 0 that `matchTimeExceeded` treats
specially; `Ports = {1, 2}` has one that an identifier can equal.
The safety properties that are proved (section 4) hold for all values of these
constants.

**Fairness, and why the code justifies it.**
Weak fairness of a goroutine's next step: Go runs every goroutine that can
run. Strong fairness of `AcquireExclusive`: a `sync.Mutex` in starvation mode
is handed to the waiter that has waited longest. Strong fairness of `Tick`,
`ReceiveCommand`, `ObserveCancel`, `TriggerOnTick` and `SpeedtestExit`: a
`select` that is visited again and again chooses at random among the ready
cases, so a case that is ready each time is taken eventually. Weak fairness of
`FinishCheck` and `FinishExclusive`: every check has a timeout, and `fn` a
client with one; for the MTR probe `TraceEnds` shows it. In `Startup`, weak fairness
of `RunApp` and of the checks, strong fairness of `WorkerExits` (the same
`select`); a scrape need not end, because the shutdown of the server has a
timeout. `EndContext` in
`APIFairSpec` is the assumption of `CallsReturn` (every context ends). No
fairness is assumed of the signal, of the owner of the scheduler, of the
clients, of whoever edits the file, of Prometheus or of the collector, so every liveness property holds also if they never act.

## 4. What TLAPS proves

All theorems hold for every value of the constants that satisfies the named
assumptions. Those about the pauses of `Agent` assume `~ResumeMayExpire`:
without it `Exclusive` is false (section 5). Those about its types and about
the lives of its goroutines (`AgentLivesInOrder`) do not.

**`AgentProofs`.** `Exclusive` is not inductive: that no probe leaves its pause
loop follows only from there being no command in any buffer, which follows
from how the broadcasts and the collection of ACKs advance. `AgentInv`
strengthens it:

* `Mutex`: `exclusiveMu` is held exactly by the call that is past its `Lock`;
* `Rendezvous`: by the location of that call, the handles before `next[t]` and
  those from it on are each in one of three states: `Tidy` (nobody owes it
  anything), `Asked` (`CmdPause` sent, ACK not collected: still in the buffer,
  or about to be acknowledged, or acknowledged) and `Held` (paused, both
  channels empty). If nobody has the lock all of them are `Tidy`. `Tidy`
  includes the probe whose `CmdResume` is still in its buffer, so the next
  `PauseAll` has to wait for it to be taken;
* `PausedIsHeld`: `s.paused` is set exactly from the last ACK to the last
  `CmdResume`, so the early returns of `PauseAll` and `ResumeAll` are never
  taken while the agent serves;
* `NotStarted`, `Serving`, `Finished`: the life cycle.

`Rendezvous`, `PausedIsHeld` and `Serving` are claimed until the signal, after
which probes exit from anywhere. The proof: `TypeInductive`; `MutexPreserved`;
`WorkerKeepsPhase` (no step of a probe leaves its phase, `Held` being disturbed
by none); `WorkerPreserves`, `OthersPreserve` and `CallPreserves` (one case for
each action of a call) for `Rendezvous`; `FinishedPreserved`; `CancelledStays`.
`StepInv` combines them, and `Invariant`, `ExclusiveHolds`, `NoProbeIsStranded`
and `ResumeIsImmediate` follow.

`CallsAreComplete` is an action property from the same invariant. By the
location of the call that moves, `PausedIsHeld` decides `s.paused` and `Serving`
decides `s.running`, so each early return of `PauseAll` and `ResumeAll` is
disabled; `ResumeNeverBlocks` disables the expiry of the resume. It says more
than the invariant: that nothing is skipped on the way, where a flag that is
stale would make a method return nil at once.

`OuterInv` is what remains of the invariant for every `ResumeMayExpire`: the
lock, and the correspondence of the location of `RunApp` with the flags and with
who has been launched and who has left. `OuterInvariant` proves it.

**`AgentRefinement`.** `AgentImplementsAccess`: a probe is measuring while it
is inside a check, the tasks are all calls inside `fn`, the phase follows the
signal and the end of `Stop`. One lemma for each group of actions shows that its
steps map to steps or stutters: with `Mutex`, the step into `fn` finds no other
task, and with `Rendezvous` nobody measuring; with `Finished`, nothing begins after the end.

`AgentLivesInOrder`: the agent implements `Lifetimes`. `Activity` maps every
location of a probe or a speedtest to one of four stages. `OneWorkerMoves` says
what a step looks like if it changes the activity of one worker or of none, and
`MainStepLives`, `WorkerStepLives` and `SpeedtestStepLives` that each action of
the three kinds of goroutine is such a step. `OuterInv` is enough, so the theorem
holds whether or not a resume may expire.

**`TracerouteProofs`.** `OnlyOverheadExhaustsTraces` from `TimeInv`: the time
elapsed is at most the overhead plus one timeout for each hop done, and in the
current hop at most its own; two lemmas on products, since `Budget` is
`MaxHops * HopTimeout`. `PublishedTracesAreWhole` from `TraceInv`: hops are
numbered without gaps, and a trace that `reachedTarget` marks ends at the
target's address. That an address of the target without the mark means nothing
is the code's choice (mtr.go:403), and the property leaves it open.
`TracerouteTypeCorrect` needs `TimeInv` as well, since the type of the clock is
its bound. `BlameStaysPut`: the faulty hop that `Analyze` names is the least of
a set, and a least element exists (well-foundedness of the naturals) and stays
the same when larger ones are added. Two theorems sharpen the finding about
reports (section 5). `AnomaliesAreNeverNormal`: `Analyze` itself is right, a
loss or a latency at its threshold is never called normal, and the first faulty
hop is named if there is one. `NothingIsEverReported`: because `onResult` passes
zeros, `report` never says anything but "normal", on any network and with any
thresholds that `NewEngine` is given.

**`EchoProofs`.** For any number of callers, targets, requests and numbers.
None of the properties is inductive: that a match implies identity needs
`PairsAreDistinct` (no two requests carry the same wire identifier and sequence
number, which is `Fresh` accumulated over the run) and `RawSendsId` (a raw
socket sends what the program chose). `EchoInv` is these two with the
properties; `EchoInvariant` proves it, one lemma per action.

**`StartupProofs`.** `EndInv` ties five things to the location of `RunApp`:
`Quiet` (workers exist only from `Start` to the end of `Stop`),
`ProviderFollows` (where the provider is open), `ServerFollows` (a server
closed under a scrape has given up), `OutcomeFollows`, and `Flushed` (a last
export that succeeded had everything). `Quiet` is what `NothingIsLost` rests on:
no worker is left to record after the flush. From it `GracefulEndLosesNothing`,
`EveryReturnReleases` and `ScrapesGetAnswers`. `StartupLivesInOrder`: one run of
the program implements `Lifetimes`, with `SignalFirst` (`RunApp` goes beyond its
wait only after the signal) as its invariant, and two lemmas, `SetupLives` for
the steps before `Start` and `RestLives` for those after it.

**`ConfigProofs`.** For all files, flags and environments, any number of edits,
targets and probes. `PrecedenceHolds` from `LoadInv`: a configuration that was
loaded is the merge and is valid, one that was refused although the file is
fine and was not edited is the merge and is not; that `Merged` is the value of
the highest rank that gives one is the last step. `ProbesRunAsConfigured` from
`RegistrationInv`: the loop variable is a pair of target and kind
(`next = 6 * target + kind`, some arithmetic of division), every pair that was
passed has its worker (`PassedHaveWorkers`), every worker comes from such a
pair that is the first of its name (`WorkersHavePassed`, which makes the set of
workers exact), and the worker of a first pair is never replaced. `ConstructKeeps`
is where `Validate` comes in: a probe it has passed is built as it is configured.
`HistogramsAreOrdered`: `Validate` compares neighbours, and lets NaN through; the
property speaks of any two places that no NaN separates. Induction over the
places is done as a least counterexample. `StartupTypeCorrect` completes the run.

**`SchedulerAPIProofs`.** `FnHasTheNetworkForItself` assumes `Calls = {"exec"}`
and nothing about contexts. `Rendezvous` is false here, because calls give up:
a handle may be left with a command nobody waits for. `NetInv` says what
remains: whatever earlier calls have left, an ACK waits only for a probe that
is in its pause loop and is not being resumed (`Loose`), so an ACK tells the
truth whoever asked for it; a probe whose ACK this call has collected stays
where it is, even if a `CmdPause` of an earlier call still comes (`Caught`); at
most one client is inside (`OneInside`); a call that has failed never gets to
`fn` (`Unfailed`); `s.paused` is set exactly while a call that succeeded is on
its way through `fn` and `ResumeAll` (`PausedInside`).

`ClientsGetAccess`, under the same assumption, is the refinement of
`ExclusiveAccess`: `OwnerSimulates`, `WorkerSimulates` and `ClientSimulates` map
the steps of the owner, of a probe and of a client to abstract steps or
stutters. In the first run `Serving` and `CaughtSoFar` of `NetInv` give what the
abstract `Begin` of a task asks for; later only `OneInside` is needed, which says of all clients inside `fn` that
there is at most one: the mapping does not consult the lock.
`StoppedIsQuiet` (a scheduler that is not started has no probe that measures)
is why nothing can begin before the first `Start`.

`PausedTellsTheTruth` assumes `Patient`: contexts do not end, the scheduler is
started once, and there is one client that mixes the methods or any number of
clients that call `ExecuteExclusive`. Two clients that call `PauseAll` directly
are excluded because then the second waits for ever for an ACK the probe does not send
(section 5). `OneBusy` (one call at a time is past `exclusiveMu`) is all that the
rest of the proof needs of the two alternatives. `Tidy`, `Asked` and `Held` of
`Agent` are back, and `AgreementInv` says which handles are in which, by the
location and the position of the call. `UnfailedPausesAreUndone` follows: what
`api_partial_pause` refutes needs a context that ends.

**`MeasurementProofs`.** `JitterInv`: from `Compute` to `RecordRTT` the
calculator is one RTT ahead of the histogram, otherwise it holds its last
sample; `Measured`: the two steps in between happen only for an outcome that is
a success. `JitterIsOfConsecutiveRTTs` and `ScrapesFindPairs` follow.
`PlainGaugeIsCurrent` assumes `~IsHTTP`: for the other three probes, which have
one series, the loss gauge says between checks how the last one ended
(`GaugeIsCurrent`, defined beside the proof). For the HTTP probe nothing of the
kind holds, or is claimed by the repository (section 5).

**Only model-checked.** All liveness (`ShutdownCompletes`,
`ExecuteExclusiveReturns`, `SpeedtestsKeepRunning`, `ProbesKeepMeasuring`,
`CallsReturn`, `TraceEnds`, `SignalEndsTheRun`): fairness and `ENABLED` are out
of the prover's reach. Every invariant and every safety property of the
passing runs is proved, with the assumptions named above: `ClientsHaveAccess`
and `FnHasTheNetwork` for `Calls = {"exec"}`, `PausedIsTruthful` for `Patient`,
which are also the constants of their runs (`api`, `api_client`), and the
pauses of the agent for `~ResumeMayExpire`, as in `agent_safety`. There is no recursion in the model, so nothing
depends on induction over data.

## 5. Where the code differs from what it says

* **A late resume** (`agent_late_resume`). If the five seconds of the deferred
  `ResumeAll` elapse after some of its sends, it returns with `s.paused` set
  (scheduler.go:197). The next `PauseAll` takes everybody for paused
  (scheduler.go:135) and the next speedtest runs beside the probes that were
  resumed. `ResumeNeverBlocks` shows that no send blocks, so this takes a
  process that does not run for five seconds at that point.
* **A pause that fails half way is not undone** (`api_partial_pause`).
  "Attempt resume in case of partial pause failure" (scheduler.go:216) calls
  `ResumeAll`, which returns at once because `s.paused` was never set. Probes
  that had acknowledged stay paused until a later call succeeds. In the agent
  a `PauseAll` fails only through the shutdown, which ends the pause as well.
* **No anomaly is reported** (`traceroute_unreported`). `RunApp` calls
  `Analyze(targetName, 0, 0, res)` (run.go:144); with a loss and a latency of
  zero it returns "normal" before it looks at the hops.
* **A probe is dropped** (`startup_dropped_probe`). "Run starts all configured
  network probes" (run.go:26). Of two targets with one name, which `Validate`
  accepts, the second loses the probes that the first has too: `RegisterWorker`
  refuses the name and `RunApp` warns (run.go:115). `RunsAsConfigured` says what
  is left of the sentence.

Observed while modelling, without a run of their own:

* *Scheduler.* ACKs outlive a run: `Stop` leaves the channels as they are and
  `Start` reuses them, so an old ACK is taken for an answer and `fn` runs
  beside a probe; and a `PauseAll` that is still collecting ACKs when the
  scheduler is stopped and started sets `s.paused` for the new run
  (scheduler.go:167), beside whose probes its `fn` then runs. This is why
  `FnHasTheNetwork` speaks of the first run; `RunApp` starts once. Two clients that call `PauseAll` concurrently both see
  `s.paused` unset, the probe answers one `CmdPause` and drops the other
  (icmp.go:117), and the second caller waits until its context ends.
  `CallsReturn` does not hold for clients that mix `ExecuteExclusive` with
  direct `PauseAll`, since the error path resumes under the Background context
  and may wait for the buffer of a probe that has exited.
* *Echo.* `Ping` accepts a reply whose sequence number *or* identifier matches
  (icmp.go:296) and does not compare the sender; a raw socket sees every reply,
  so a ping may take the answer to another probe. `UnprivilegedPingsAreOwn` is
  therefore about unprivileged sockets; without that restriction TLC finds it
  violated.
* *Setup.* The early returns after the metrics server was started leave it
  running (run.go:78, 91, 102), which matters only because `ReturnReleases` has
  to say so: the process ends. The periodic OTLP reader, which has no state in
  the model before the provider owns it, is left in the same way when
  `NewProvider` fails (run.go:91). An error of `Serve` is dropped
  (prometheus.go:84); the agent goes on without `/metrics`.
* *Configuration.* FR7 (specs/requirements.md:13) wants the path of the file to
  be overridable by an environment variable; it has a flag only, while
  `histogram_mode` has an environment variable and no flag. Settings and targets may
  come from two versions of the file (config.go:174 and 182). Buckets "must be
  strictly monotonically increasing" (config.go:255), but a bucket `.nan` passes
  `Validate`, since no comparison with NaN is true, and what stands before it is
  not compared with what stands behind it: `<<1, 5, NaN, 2>>` reaches the SDK.
  `BoundariesAreOrdered` says what does hold.
* *Telemetry.* `NewOTLPExporter` never asks for TLS, it only leaves out
  `WithInsecure` (otlp.go:70-79, 89-97). What the libraries then do depends on
  variables that they read themselves: `OTEL_EXPORTER_OTLP_INSECURE` and
  `OTEL_EXPORTER_OTLP_METRICS_INSECURE`, the certificates, and the scheme of
  `OTEL_EXPORTER_OTLP_ENDPOINT` (README.md:40), whose host gives way to the
  endpoint that `RunApp` always passes. An endpoint `https://` may therefore be
  plaintext, and no property speaks of TLS. Without such variables an
  endpoint `host:4318` without a scheme means HTTP with TLS, `host:4317` gRPC
  without. NFR3 asks for exponential histograms, the default is explicit.
* *Measurement and diagnosis.* The loss of an HTTP check is recorded under the
  status code of its outcome, or none (http.go:175): after a failure the series
  of the success keeps its 0.0, and when checks succeed again the series of the
  failure keeps its 1.0. Nothing in the repository says otherwise (metrics.go:61
  gives the range only). The loss series of a hop is labelled with the
  address that answered or `*` (mtr.go:217), with the same effect; the ICMP `count` of the configuration is not used; a latency
  anomaly with a trace that has no faulty hop is classified as
  `transit_route_loss`; a check that the shutdown interrupts is recorded as a
  loss.

## 6. What is not modelled, and why

* `RegisterWorker` concurrent with other methods, `Start` and `Stop` from
  several goroutines, among them the gap between `Unlock` and `RLock` in `Start`
  (scheduler.go:112). `RunApp` calls all three from one goroutine, so the agent
  cannot meet these cases.
* DNS, HTTP and TCP clients: thin wrappers of libraries, their results are the
  `Outcomes` of `Measurement`. Name resolution is an outcome like a timeout.
* The OTel SDK, viper and the kernel: external, modelled by what the code relies
  on. Resource attributes, `/healthz`, logging, the `version` command and the
  exit code: I/O and construction.
* RTT histograms of single hops, and the metrics of a speedtest: one `Record`
  call each, with no state of the program behind it.
* `CmdStop`, which nothing sends, and `JitterCalculator.Reset`, which nothing
  calls; how long `fn` takes (`FetchUserInfo` and `FetchServers` do not take the
  context, speedtest.go:172, so `Stop` may have to wait for their timeouts).

## 7. Plan

1. *Done.* WorkerHandle, ProbeWorker, Scheduler, Agent with ExclusiveAccess;
   SchedulerAPI; Measurement; Diagnosis and Traceroute.
2. *Done.* Echo; Config, Telemetry and Startup.
3. *Done.* The proofs of section 4: every safety property of the passing runs,
   and the refinements of `ExclusiveAccess` and `Lifetimes`.
4. **Lifecycle**: `Start`, `Stop` and `RegisterWorker` from several goroutines,
   with `s.mu` and the `WaitGroup` as state: does `Stop` wait for every
   goroutine that `Start` launches when the window at scheduler.go:112 is open.
5. **PauseAll by several clients**: `SchedulerAPI` with two clients that call it
   directly, and what still holds of `s.paused` then.
6. **More runs of the scheduler**: what an owner would have to do between `Stop`
   and `Start` (drain the channels, wait for the calls) for `FnHasTheNetwork` to
   hold in every run, as an assumption of the theorem.
