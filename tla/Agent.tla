-------------------------------- MODULE Agent -------------------------------
(***************************************************************************)
(* The deployed program: RunApp (internal/cli/run.go:55) registers the     *)
(* probes, starts the Scheduler once, waits for the signal and stops it;   *)
(* the non-exclusive probes run the loop of ProbeWorker; each speedtest    *)
(* probe (internal/probes/speedtest.go) is a goroutine of Threads that     *)
(* calls ExecuteExclusive, at first immediately and then at every tick.    *)
(*                                                                         *)
(* There is one context: RunApp's, from which Start derives the one of the *)
(* workers, and which they hand on to ExecuteExclusive.  The model has one *)
(* `cancelled' for all of them.  ResumeAll alone runs under contexts of    *)
(* its own: the Background context after a PauseAll that failed, else one  *)
(* that expires after 5 seconds.                                           *)
(***************************************************************************)
EXTENDS ProbeWorker, Scheduler

\* May the 5 seconds of the deferred ResumeAll elapse although no send of it
\* is blocked?  (The process may be suspended, or short of CPU.)  If not,
\* they elapse only while a send waits for a full buffer.
CONSTANT ResumeMayExpire

ASSUME ResumeMayExpireAssumption == ResumeMayExpire \in BOOLEAN

VARIABLE main           \* where RunApp is

agentVars == <<probe, cmdChan, ackChan, running, paused, cancelled,
               exclusiveMu, pc, next, failed, main>>

MainLocations ==
  { "registered",       \* the workers are registered, Start is next
    "serving",          \* at <-ctx.Done()
    "stopping",         \* in Stop, at wg.Wait()
    "done" }            \* Stop has returned

SpeedtestLocations ==
  CallLocations \cup { "registered", "launched", "exited" }

AgentTypeOK ==
  /\ HandleTypeOK
  /\ WorkerTypeOK
  /\ SchedTypeOK
  /\ pc \in [Threads -> SpeedtestLocations]
  /\ main \in MainLocations

AgentInit ==
  /\ HandleInit
  /\ WorkerInit
  /\ SchedInit
  /\ cancelled = FALSE
  /\ pc = [t \in Threads |-> "registered"]
  /\ main = "registered"

-----------------------------------------------------------------------------
(* RunApp *)

\* Start: its critical section, and the loop that launches the goroutines.
\* The loop holds the read lock of s.mu, so no PauseAll gets in before its
\* end, and a goroutine that is not launched yet cannot be told from one
\* that has not run yet: one action.
StartAgent ==
  /\ main = "registered"
  /\ StartScheduler(cancelled)
  /\ probe' = [w \in Probes |-> "launched"]
  /\ pc' = [t \in Threads |-> "launched"]
  /\ main' = "serving"
  /\ UNCHANGED <<cmdChan, ackChan, exclusiveMu, next, failed>>

\* SIGINT or SIGTERM, at any time.  It cancels the contexts of everybody at
\* once: RunApp is only one of those who see it.
Signal ==
  /\ main # "done"
  /\ ~cancelled
  /\ cancelled' = TRUE
  /\ UNCHANGED <<workerVars, running, paused, callVars, main>>

StopAgent ==
  /\ main = "serving"
  /\ cancelled
  /\ StopScheduler
  /\ main' = "stopping"
  /\ UNCHANGED <<workerVars, callVars>>

\* Mutant: the exclusive workers are not counted in the WaitGroup.
StopReturnsForProbes ==
  /\ main = "stopping"
  /\ \A w \in Probes : probe[w] = "exited"
  /\ main' = "done"
  /\ UNCHANGED <<workerVars, schedVars>>

\* wg.Wait() returns.
StopReturns ==
  /\ main = "stopping"
  /\ \A w \in Probes : probe[w] = "exited"
  /\ \A t \in Threads : pc[t] = "exited"
  /\ main' = "done"
  /\ UNCHANGED <<workerVars, schedVars>>

RunAppStep == StartAgent \/ StopAgent \/ StopReturns

\* The end of the program is not a deadlock.
Terminated ==
  /\ main = "done"
  /\ UNCHANGED agentVars

-----------------------------------------------------------------------------
(* The goroutine of a speedtest probe *)

\* triggerMeasurement: the first one at once, whatever the context says, the
\* others when the ticker fires.
TriggerFirst(t) ==
  /\ pc[t] = "launched"
  /\ GoTo(t, "lock")
  /\ UNCHANGED <<stateVars, exclusiveMu, next, failed, workerVars, main>>

TriggerOnTick(t) ==
  /\ pc[t] = "idle"
  /\ GoTo(t, "lock")
  /\ UNCHANGED <<stateVars, exclusiveMu, next, failed, workerVars, main>>

SpeedtestExit(t) ==
  /\ pc[t] = "idle"
  /\ cancelled
  /\ GoTo(t, "exited")
  /\ UNCHANGED <<stateVars, exclusiveMu, next, failed, workerVars, main>>

\* The context of ResumeAll.
ResumeCtxDone(t) ==
  /\ ~failed[t]
  /\ next[t] <= NumProbes
  /\ ResumeMayExpire \/ SendBlocked(next[t])

\* The steps of a call that has the lock.
CallStep(t) ==
  /\ \/ PauseAllEnter(t, "run", "resumeEnter")
     \/ BroadcastPause(t)
     \/ StartCollecting(t)
     \/ CollectAck(t)
     \/ PauseAllCancelled(t, cancelled, "resumeEnter")
     \/ PauseAllFinish(t, "run")
     \/ FinishExclusive(t)
     \/ ResumeAllEnter(t, "unlock")
     \/ BroadcastResume(t)
     \/ ResumeAllCancelled(t, ResumeCtxDone(t), "unlock")
     \/ ResumeAllFinish(t, "unlock")
     \/ UnlockExclusive(t)
  /\ UNCHANGED <<probe, main>>

AcquireExclusive(t) ==
  /\ LockExclusive(t)
  /\ UNCHANGED <<probe, main>>

WorkerStep(w) ==
  /\ ProbeStep(w, cancelled)
  /\ UNCHANGED <<schedVars, main>>

AgentNext ==
  \/ RunAppStep
  \/ Signal
  \/ Terminated
  \/ \E t \in Threads : \/ TriggerFirst(t)
                        \/ TriggerOnTick(t)
                        \/ SpeedtestExit(t)
                        \/ AcquireExclusive(t)
                        \/ CallStep(t)
  \/ \E w \in Probes : WorkerStep(w)

AgentSpec == AgentInit /\ [][AgentNext]_agentVars

\* Go runs every goroutine that can run; sync.Mutex hands itself over to a
\* waiter that has been passed over (strong fairness of the lock); a select
\* that is visited again and again takes each of its ready cases some time
\* (strong fairness of the tick and of ctx.Done()); fn and every check end.
\* Nothing obliges a signal to arrive.
AgentFairness ==
  /\ WF_agentVars(RunAppStep)
  /\ \A w \in Probes : /\ ProbeFairness(w)
                       /\ SF_workerVars(ObserveCancel(w, cancelled))
  /\ \A t \in Threads : /\ WF_agentVars(TriggerFirst(t))
                        /\ SF_agentVars(TriggerOnTick(t))
                        /\ SF_agentVars(SpeedtestExit(t))
                        /\ SF_agentVars(AcquireExclusive(t))
                        /\ WF_agentVars(CallStep(t))

AgentFairSpec == AgentSpec /\ AgentFairness

-----------------------------------------------------------------------------
(* Safety *)

\* The locations of a call that holds exclusiveMu.
Inside == CallLocations \ {"idle", "lock"}

\* What PauseAll is for: while fn runs every probe sits in its pauseLoop, so
\* nothing else measures (FR4), from the first instruction of fn to its last,
\* until the shutdown begins.
Exclusive ==
  ~cancelled =>
    \A t \in Threads : pc[t] = "run" => \A w \in Probes : probe[w] = "paused"

\* ExecuteExclusive "automatically resumes all paused probes upon completion"
\* (scheduler.go:210): whenever no call of it is in progress, no probe is
\* stranded in its pause and no handle keeps a trace of an earlier pause.
NoStrandedProbe ==
  ~cancelled /\ exclusiveMu = NoThread => \A w \in Probes : Tidy(w)

\* The deferred ResumeAll is given 5 seconds.  While the agent serves it
\* needs none of them: it never finds a full buffer.
ResumeNeverBlocks ==
  ~cancelled =>
    \A t \in Threads : pc[t] = "resumeSend" /\ next[t] <= NumProbes
                         => cmdChan[next[t]] = Empty

-----------------------------------------------------------------------------
(* The inductive invariant *)

\* exclusiveMu is held exactly by the call that is past its Lock.
Mutex == \A t \in Threads : pc[t] \in Inside <=> exclusiveMu = t

\* Where each handle is, by the location of the call that has the lock.
Rendezvous ==
  /\ \A t \in Threads :
       /\ pc[t] = "pauseSend" =>
            \A w \in Probes : IF w < next[t] THEN Asked(w) ELSE Tidy(w)
       /\ pc[t] = "pauseWait" =>
            \A w \in Probes : IF w < next[t] THEN Held(w) ELSE Asked(w)
       /\ pc[t] \in {"run", "resumeEnter"} => \A w \in Probes : Held(w)
       /\ pc[t] = "resumeSend" =>
            \A w \in Probes : IF w < next[t] THEN Tidy(w) ELSE Held(w)
       /\ pc[t] \in {"pauseEnter", "unlock"} => \A w \in Probes : Tidy(w)
  /\ exclusiveMu = NoThread => \A w \in Probes : Tidy(w)

\* s.paused is set exactly from the last ACK to the last CmdResume.
PausedIsHeld ==
  paused <=> \E t \in Threads : pc[t] \in {"run", "resumeEnter", "resumeSend"}

\* Nothing runs before Start, which launches everybody.
NotStarted ==
  /\ main = "registered" =>
       /\ ~running /\ ~paused
       /\ \A t \in Threads : pc[t] = "registered"
  /\ \A w \in Probes : main = "registered" <=> probe[w] = "registered"

\* After it, and until a signal comes, the Scheduler is running.
Serving == main = "registered" \/ (main = "serving" /\ running)

\* Nothing runs after Stop.
Finished ==
  main = "done" => /\ \A w \in Probes : probe[w] = "exited"
                   /\ \A t \in Threads : pc[t] = "exited"

AgentInv ==
  /\ AgentTypeOK
  /\ Mutex
  /\ NotStarted
  /\ Finished
  /\ ~cancelled => Rendezvous /\ PausedIsHeld /\ Serving

-----------------------------------------------------------------------------
(* Refinement and liveness *)

\* The agent implements ExclusiveAccess: the probes inside a check are
\* measuring, the calls inside fn, whoever holds the lock, are the tasks in
\* progress.
Access == INSTANCE ExclusiveAccess WITH
  Probes    <- Probes,
  Tasks     <- Threads,
  measuring <- {w \in Probes : probe[w] = "check"},
  tasks     <- {t \in Threads : pc[t] = "run"},
  phase     <- IF main = "done" THEN "closed"
               ELSE IF cancelled THEN "closing" ELSE "open"

\* Every step of the agent is a step of ExclusiveAccess, or none.
ImplementsAccess == Access!AccessSpec

\* What each goroutine does for Lifetimes: from its trigger to the Unlock a
\* speedtest is checking, a probe only inside its check.
Activity(worker) ==
  CASE worker[1] = "probe" ->
         (LET at == probe[worker[2]]
          IN  CASE at = "launched" -> "new"
                [] at = "check"    -> "checking"
                [] at = "exited"   -> "exited"
                [] OTHER           -> "idle")
    [] worker[1] = "speedtest" ->
         (LET at == pc[worker[2]]
          IN  CASE at = "launched" -> "new"
                [] at = "idle"     -> "idle"
                [] at = "exited"   -> "exited"
                [] OTHER           -> "checking")

Workers == ({"probe"} \X Probes) \cup ({"speedtest"} \X Threads)

Life == INSTANCE Lifetimes WITH
  doing <- IF main = "registered" THEN <<>>
           ELSE [worker \in Workers |-> Activity(worker)],
  asked <- cancelled,
  stage <- CASE main = "registered" -> "before"
             [] main = "done"       -> "over"
             [] OTHER               -> "serving"

\* However the pauses and the lock delay them, the goroutines live as
\* Lifetimes says: each measures at least once, none leaves in the middle of
\* a check or of an ExecuteExclusive or before the signal, and Stop returns
\* after the last of them (scheduler.go:231).  Startup builds on this.
WorkersLiveInOrder == Life!LifeSpec

\* The way of a call of ExecuteExclusive, if nothing goes wrong.
FullCycle ==
  [lock        |-> "pauseEnter", pauseEnter |-> "pauseSend",
   pauseSend   |-> "pauseWait",  pauseWait  |-> "run",
   run         |-> "resumeEnter", resumeEnter |-> "resumeSend",
   resumeSend  |-> "unlock",     unlock     |-> "idle"]

\* While the agent serves, every call goes the whole way: it never takes one
\* of the early returns of PauseAll and ResumeAll (scheduler.go:131, 135, 180),
\* whose flags are shared with the other calls and outlive them, and leaves
\* no broadcast and no wait for ACKs before the last handle.
CallsGoTheWholeWay ==
  [][~cancelled =>
       \A t \in Threads :
         pc[t] \in DOMAIN FullCycle /\ pc'[t] # pc[t] =>
           /\ pc'[t] = FullCycle[pc[t]]
           /\ pc[t] \in {"pauseSend", "pauseWait", "resumeSend"} =>
                next[t] > NumProbes]_agentVars

\* Stop "terminates all running workers gracefully and waits for their
\* goroutines to exit" (scheduler.go:231): after a signal, wherever every
\* goroutine is, RunApp gets to the end of Stop.
ShutdownCompletes == cancelled ~> main = "done"

\* A measurement that has been triggered ends: neither the lock, nor a probe
\* that does not answer, nor the shutdown holds ExecuteExclusive for ever.
ExecuteExclusiveReturns ==
  \A t \in Threads : pc[t] = "lock" ~> pc[t] \in {"idle", "exited"}

\* However often the speedtests pause it, a probe measures again and again
\* until the shutdown.
ProbesKeepMeasuring ==
  \A w \in Probes : []<>(probe[w] = "check" \/ cancelled)

\* And the probes do not keep the speedtests out for ever.
SpeedtestsKeepRunning ==
  \A t \in Threads : []<>(pc[t] = "run" \/ cancelled)

=============================================================================
