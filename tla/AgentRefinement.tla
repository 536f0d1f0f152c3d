--------------------------- MODULE AgentRefinement --------------------------
(***************************************************************************)
(* The agent implements ExclusiveAccess, for every number of probes and    *)
(* every set of speedtests.  The argument uses AgentInv twice: when a      *)
(* check begins no fn is in progress, and when fn begins every probe is    *)
(* held.                                                                   *)
(***************************************************************************)
EXTENDS AgentProofs

\* The state of ExclusiveAccess that the agent is in.
Measuring == {w \in Probes : probe[w] = "check"}
InFn == {t \in Threads : pc[t] = "run"}
Phase == IF main = "done" THEN "closed"
         ELSE IF cancelled THEN "closing" ELSE "open"

\* What the abstract next-state relation says, in terms of that state.
LEMMA AbstractNext ==
  /\ Access!AccessNext <=>
       \/ \E p \in Probes :
            \/ /\ Phase # "closed"
               /\ Phase = "open" => InFn = {}
               /\ Measuring' = Measuring \cup {p}
               /\ UNCHANGED <<InFn, Phase>>
            \/ Measuring' = Measuring \ {p} /\ UNCHANGED <<InFn, Phase>>
       \/ \E t \in Threads :
            /\ Phase # "closed"
            /\ InFn = {}
            /\ Phase = "open" => Measuring = {}
            /\ InFn' = {t}
            /\ UNCHANGED <<Measuring, Phase>>
       \/ \E t \in Threads :
            InFn' = InFn \ {t} /\ UNCHANGED <<Measuring, Phase>>
       \/ Phase = "open" /\ Phase' = "closing" /\ UNCHANGED <<Measuring, InFn>>
       \/ /\ Phase = "closing" /\ Measuring = {} /\ InFn = {}
          /\ Phase' = "closed" /\ UNCHANGED <<Measuring, InFn>>
  /\ UNCHANGED Access!accessVars <=> UNCHANGED <<Measuring, InFn, Phase>>
BY DEF Access!AccessNext, Access!BeginMeasurement, Access!EndMeasurement,
       Access!BeginTask, Access!EndTask, Access!BeginClosing, Access!Close,
       Access!accessVars, Measuring, InFn, Phase

\* A step of RunApp or the signal begins or completes the closing.
LEMMA MainStepSimulates ==
  ASSUME AgentInv, AgentInv', RunAppStep \/ Signal \/ Terminated
  PROVE  Access!AccessNext \/ UNCHANGED Access!accessVars
<1>1. CASE StartAgent
  <2>1. /\ Measuring = {} /\ Measuring' = {}
        /\ \A t \in Threads : pc[t] # "run" /\ pc'[t] # "run"
        /\ main # "done" /\ main' # "done"
        /\ cancelled' = cancelled
    BY <1>1 DEF StartAgent, StartScheduler, Measuring, AgentInv, NotStarted
  <2>2. UNCHANGED <<Measuring, InFn, Phase>>
    BY <2>1 DEF InFn, Phase
  <2>3. QED
    BY <2>2, AbstractNext
<1>2. CASE Signal
  <2>1. /\ UNCHANGED <<Measuring, InFn>>
        /\ Phase = "open" /\ Phase' = "closing"
    BY <1>2 DEF Signal, workerVars, callVars, Measuring, InFn, Phase
  <2>2. QED
    BY <2>1, AbstractNext
<1>3. CASE StopAgent
  <2>1. UNCHANGED <<Measuring, InFn, Phase>>
    BY <1>3 DEF StopAgent, StopScheduler, workerVars, callVars, Measuring,
                InFn, Phase
  <2>2. QED
    BY <2>1, AbstractNext
<1>4. CASE StopReturns
  <2>1. UNCHANGED <<Measuring, InFn>>
    BY <1>4 DEF StopReturns, workerVars, schedVars, Measuring, InFn
  <2>2. Measuring = {} /\ InFn = {}
    BY <1>4 DEF StopReturns, Measuring, InFn
  <2>3. Phase = "closing" /\ Phase' = "closed"
    BY <1>4 DEF StopReturns, Phase, AgentInv, AgentTypeOK, SchedTypeOK,
                Serving
  <2>4. QED
    BY <2>1, <2>2, <2>3, AbstractNext
<1>5. CASE Terminated
  <2>1. UNCHANGED <<Measuring, InFn, Phase>>
    BY <1>5 DEF Terminated, agentVars, Measuring, InFn, Phase
  <2>2. QED
    BY <2>1, AbstractNext
<1>6. QED
  BY <1>1, <1>2, <1>3, <1>4, <1>5 DEF RunAppStep

\* A step of a probe begins a measurement, ends one, or is not seen.
LEMMA WorkerStepSimulates ==
  ASSUME AgentInv, NEW w \in Probes, WorkerStep(w)
  PROVE  Access!AccessNext \/ UNCHANGED Access!accessVars
<1> USE DEF AgentInv, AgentTypeOK, WorkerTypeOK
<1>1. UNCHANGED <<InFn, Phase>>
  BY DEF WorkerStep, schedVars, InFn, Phase
<1>2. CASE FirstCheck(w) \/ Tick(w)
  <2>1. /\ probe[w] \in {"launched", "select"}
        /\ probe' = [probe EXCEPT ![w] = "check"]
    BY <1>2 DEF FirstCheck, Tick, Moves
  <2>2. Measuring' = Measuring \cup {w}
    BY <2>1 DEF Measuring
  <2>3. Phase # "closed"
    BY <2>1 DEF Phase, Finished
  <2>4. Phase = "open" => InFn = {}
    <3>1. ASSUME ~cancelled
          PROVE  \A t \in Threads : pc[t] # "run"
      BY <2>1, <3>1 DEF Rendezvous, Held
    <3>2. QED
      BY <3>1 DEF Phase, InFn
  <2>5. QED
    BY <1>1, <2>2, <2>3, <2>4, AbstractNext
<1>3. CASE FinishCheck(w)
  <2>1. Measuring' = Measuring \ {w}
    BY <1>3 DEF FinishCheck, Moves, Measuring
  <2>2. QED
    BY <1>1, <2>1, AbstractNext
<1>4. CASE \/ ReceiveCommand(w) \/ Acknowledge(w)
           \/ ReceiveWhilePaused(w) \/ ObserveCancel(w, cancelled)
  <2>1. /\ probe[w] # "check"
        /\ \E loc \in ProbeLocations \ {"check"} :
             probe' = [probe EXCEPT ![w] = loc]
    BY <1>4 DEF ReceiveCommand, Acknowledge, ReceiveWhilePaused,
                ObserveCancel, Moves, ProbeLocations
  <2>2. Measuring' = Measuring
    BY <2>1 DEF Measuring
  <2>3. QED
    BY <1>1, <2>2, AbstractNext
<1>5. QED
  BY <1>2, <1>3, <1>4 DEF WorkerStep, ProbeStep

\* A step of a speedtest begins a task, ends one, or is not seen.
LEMMA SpeedtestStepSimulates ==
  ASSUME AgentInv, AgentInv', NEW t \in Threads,
         \/ TriggerFirst(t) \/ TriggerOnTick(t) \/ SpeedtestExit(t)
         \/ AcquireExclusive(t) \/ CallStep(t)
  PROVE  Access!AccessNext \/ UNCHANGED Access!accessVars
<1> USE DEF AgentInv
<1> DEFINE InCall ==
      \/ PauseAllEnter(t, "run", "resumeEnter") \/ BroadcastPause(t)
      \/ StartCollecting(t) \/ CollectAck(t)
      \/ PauseAllCancelled(t, cancelled, "resumeEnter")
      \/ PauseAllFinish(t, "run") \/ FinishExclusive(t)
      \/ ResumeAllEnter(t, "unlock") \/ BroadcastResume(t)
      \/ ResumeAllCancelled(t, ResumeCtxDone(t), "unlock")
      \/ ResumeAllFinish(t, "unlock") \/ UnlockExclusive(t)
<1>1. UNCHANGED <<probe, main, cancelled>> /\ pc[t] # "exited"
  BY DEF TriggerFirst, TriggerOnTick, SpeedtestExit, AcquireExclusive,
         LockExclusive, CallStep, PauseAllEnter, BroadcastPause,
         StartCollecting, CollectAck, PauseAllCancelled, PauseAllFinish,
         FinishExclusive, ResumeAllEnter, BroadcastResume,
         ResumeAllCancelled, ResumeAllFinish, UnlockExclusive, stateVars,
         workerVars
<1>2. UNCHANGED <<Measuring, Phase>> /\ Phase # "closed"
  BY <1>1 DEF Measuring, Phase, Finished
<1>3. \E loc \in SpeedtestLocations : pc' = [pc EXCEPT ![t] = loc]
  <2>1. pc' = pc => pc' = [pc EXCEPT ![t] = pc[t]]
    BY DEF AgentTypeOK
  <2>2. pc[t] \in SpeedtestLocations
    BY DEF AgentTypeOK
  <2>3. CASE TriggerFirst(t) \/ TriggerOnTick(t) \/ SpeedtestExit(t)
             \/ AcquireExclusive(t)
    BY <2>3 DEF TriggerFirst, TriggerOnTick, SpeedtestExit,
                AcquireExclusive, LockExclusive, GoTo, SpeedtestLocations,
                CallLocations
  <2>4. CASE InCall
    BY <2>1, <2>2, <2>4
       DEF PauseAllEnter, BroadcastPause, StartCollecting, CollectAck,
           PauseAllCancelled, PauseAllFinish, FinishExclusive,
           ResumeAllEnter, BroadcastResume, ResumeAllCancelled,
           ResumeAllFinish, UnlockExclusive, GoTo, PauseFails,
           SpeedtestLocations, CallLocations
  <2>5. QED
    BY <2>3, <2>4 DEF CallStep
<1>4. \A u \in Threads : u # t => pc'[u] = pc[u]
  BY <1>3 DEF AgentTypeOK
<1>5. CASE pc[t] # "run" /\ pc'[t] # "run"
  <2>1. InFn' = InFn
    BY <1>4, <1>5 DEF InFn
  <2>2. QED
    BY <1>2, <2>1, AbstractNext
<1>6. CASE pc[t] = "run" /\ pc'[t] # "run"
  <2>1. InFn' = InFn \ {t}
    BY <1>4, <1>6 DEF InFn
  <2>2. QED
    BY <1>2, <2>1, AbstractNext
<1>7. CASE pc[t] # "run" /\ pc'[t] = "run"
  <2>1. \A u \in Threads : pc[u] # "run"
    BY <1>4, <1>7 DEF Mutex, Inside, CallLocations
  <2>2. InFn = {}
    BY <2>1 DEF InFn
  <2>3. InFn' = {t}
    BY <1>4, <1>7, <2>1 DEF InFn
  <2>4. Phase = "open" => Measuring = {}
    <3>1. ASSUME ~cancelled'
          PROVE  \A w \in Probes : probe'[w] = "paused"
      BY <1>7, <3>1 DEF Rendezvous, Held
    <3>2. QED
      BY <1>1, <3>1 DEF Phase, Measuring
  <2>5. QED
    BY <1>2, <2>2, <2>3, <2>4, AbstractNext
<1>8. CASE pc[t] = "run" /\ pc'[t] = "run"
  <2>1. InFn' = InFn
    BY <1>4, <1>8 DEF InFn
  <2>2. QED
    BY <1>2, <2>1, AbstractNext
<1>9. QED
  BY <1>5, <1>6, <1>7, <1>8

\* The promise of ExecuteExclusive is kept at every step of the agent, and
\* during the shutdown nothing but its lapse is seen: a check begins only
\* while no fn is in progress, fn begins only while no check is, one fn at a
\* time, and when Stop has returned nobody uses the network.
THEOREM AgentImplementsAccess ==
  ASSUME ~ResumeMayExpire
  PROVE  AgentSpec => ImplementsAccess
<1>1. AgentInit => Access!AccessInit
  BY DEF AgentInit, WorkerInit, SchedInit, Access!AccessInit
<1>2. AgentInv /\ AgentInv' /\ [AgentNext]_agentVars
        => [Access!AccessNext]_(Access!accessVars)
  <2> SUFFICES ASSUME AgentInv, AgentInv', [AgentNext]_agentVars
               PROVE  Access!AccessNext \/ UNCHANGED Access!accessVars
    OBVIOUS
  <2>1. CASE UNCHANGED agentVars
    <3>1. UNCHANGED <<Measuring, InFn, Phase>>
      BY <2>1 DEF agentVars, Measuring, InFn, Phase
    <3>2. QED
      BY <3>1, AbstractNext
  <2>2. CASE AgentNext
    BY <2>2, MainStepSimulates, WorkerStepSimulates, SpeedtestStepSimulates
       DEF AgentNext
  <2>3. QED
    BY <2>1, <2>2
<1>3. QED
  BY <1>1, <1>2, Invariant, PTL
     DEF AgentSpec, ImplementsAccess, Access!AccessSpec

-----------------------------------------------------------------------------
(* The agent implements Lifetimes, also if the 5 seconds of a ResumeAll do  *)
(* elapse in the middle of its broadcast: a call that has gone wrong is     *)
(* longer or shorter, and still one measurement.                            *)

\* The state of Lifetimes that the agent is in.
Doing == IF main = "registered" THEN <<>>
         ELSE [worker \in Workers |-> Activity(worker)]
Stage == CASE main = "registered" -> "before"
           [] main = "done"       -> "over"
           [] OTHER               -> "serving"

\* What Lifetimes offers to a step, in terms of that state.
LEMMA LifeSteps ==
  ASSUME \/ UNCHANGED <<Doing, Stage, cancelled>>
         \/ cancelled' = TRUE /\ UNCHANGED <<Doing, Stage>>
         \/ /\ Stage = "before" /\ Stage' = "serving" /\ UNCHANGED cancelled
            /\ Doing' \in [DOMAIN Doing' -> {"new"}]
         \/ /\ Stage = "serving" /\ Stage' = "over" /\ cancelled
            /\ \A worker \in DOMAIN Doing : Doing[worker] = "exited"
            /\ UNCHANGED <<Doing, cancelled>>
         \/ \E worker \in DOMAIN Doing, to \in {"checking", "idle", "exited"} :
              /\ UNCHANGED <<Stage, cancelled>>
              /\ Doing' = [Doing EXCEPT ![worker] = to]
              /\ \/ Doing[worker] \in {"new", "idle"} /\ to = "checking"
                 \/ Doing[worker] = "checking" /\ to = "idle"
                 \/ cancelled /\ Doing[worker] = "idle" /\ to = "exited"
  PROVE  Life!LifeNext \/ UNCHANGED Life!lifeVars
BY DEF Life!LifeNext, Life!lifeVars, Life!Launch, Life!Ask, Life!Over, Life!Begin,
       Life!End, Life!Leave, Doing, Stage

\* A step that moves one worker, as Lifetimes sees it.
LEMMA OneWorkerMoves ==
  ASSUME main # "registered", UNCHANGED <<main, cancelled>>, NEW worker \in Workers,
         \A other \in Workers : other # worker => Activity(other)' = Activity(other),
         \/ Activity(worker)' = Activity(worker)
         \/ Activity(worker) \in {"new", "idle"} /\ Activity(worker)' = "checking"
         \/ Activity(worker) = "checking" /\ Activity(worker)' = "idle"
         \/ cancelled /\ Activity(worker) = "idle" /\ Activity(worker)' = "exited"
  PROVE  Life!LifeNext \/ UNCHANGED Life!lifeVars
<1> DEFINE to == Activity(worker)'
<1>1. /\ Doing = [v \in Workers |-> Activity(v)]
      /\ Doing' = [v \in Workers |-> Activity(v)']
  BY DEF Doing, Workers
<1>2. UNCHANGED Stage
  BY DEF Stage
<1>3. CASE to = Activity(worker)
  <2>1. \A v \in Workers : Activity(v)' = Activity(v)
    BY <1>3
  <2>2. Doing' = Doing
    BY <1>1, <2>1
  <2>3. QED
    BY <1>2, <2>2, LifeSteps
<1>4. CASE to # Activity(worker)
  <2>1. Doing' = [Doing EXCEPT ![worker] = to]
    BY <1>1
  <2>2. worker \in DOMAIN Doing /\ Doing[worker] = Activity(worker)
    BY <1>1
  <2>3. to \in {"checking", "idle", "exited"}
    BY <1>4
  <2>4. QED
    BY <1>2, <1>4, <2>1, <2>2, <2>3, LifeSteps
<1>5. QED
  BY <1>3, <1>4

LEMMA MainStepLives ==
  ASSUME OuterInv, RunAppStep \/ Signal \/ Terminated
  PROVE  Life!LifeNext \/ UNCHANGED Life!lifeVars
<1> USE DEF OuterInv, AgentTypeOK, MainLocations
<1>1. CASE StartAgent
  <2>1. /\ main = "registered" /\ main' = "serving" /\ cancelled' = cancelled
        /\ probe' = [w \in Probes |-> "launched"] /\ pc' = [t \in Threads |-> "launched"]
    BY <1>1 DEF StartAgent, StartScheduler
  <2>2. Doing' = [worker \in Workers |-> Activity(worker)']
    BY <2>1 DEF Doing, Workers
  <2>3. \A worker \in Workers : Activity(worker)' = "new"
    BY <2>1 DEF Workers, Activity
  <2>4. Doing' \in [DOMAIN Doing' -> {"new"}]
    BY <2>2, <2>3
  <2>5. Stage = "before" /\ Stage' = "serving"
    BY <2>1 DEF Stage
  <2>6. QED
    BY <2>1, <2>4, <2>5, LifeSteps
<1>2. CASE Signal
  <2>1. cancelled' = TRUE /\ UNCHANGED <<main, probe, pc>>
    BY <1>2 DEF Signal, workerVars, callVars
  <2>2. UNCHANGED <<Doing, Stage>>
    BY <2>1 DEF Doing, Stage, Activity, Workers
  <2>3. QED
    BY <2>1, <2>2, LifeSteps
<1>3. CASE StopAgent
  <2>1. /\ cancelled /\ cancelled' = TRUE /\ main = "serving" /\ main' = "stopping"
        /\ UNCHANGED <<probe, pc>>
    BY <1>3 DEF StopAgent, StopScheduler, workerVars, callVars
  <2>2. UNCHANGED <<Doing, Stage>>
    BY <2>1 DEF Doing, Stage, Activity, Workers
  <2>3. QED
    BY <2>1, <2>2, LifeSteps
<1>4. CASE StopReturns
  <2>1. /\ main = "stopping" /\ main' = "done" /\ UNCHANGED <<probe, pc, cancelled>>
        /\ \A w \in Probes : probe[w] = "exited"
        /\ \A t \in Threads : pc[t] = "exited"
    BY <1>4 DEF StopReturns, workerVars, schedVars
  <2>2. UNCHANGED Doing /\ Stage = "serving" /\ Stage' = "over" /\ cancelled
    BY <2>1 DEF Doing, Stage, Activity, Workers, StopIsAsked
  <2>3. \A worker \in Workers : Activity(worker) = "exited"
    BY <2>1 DEF Activity, Workers
  <2>4. Doing = [worker \in Workers |-> Activity(worker)]
    BY <2>1 DEF Doing
  <2>5. \A worker \in DOMAIN Doing : Doing[worker] = "exited"
    BY <2>3, <2>4
  <2>6. QED
    BY <2>1, <2>2, <2>5, LifeSteps
<1>5. CASE Terminated
  <2>1. UNCHANGED <<Doing, Stage, cancelled>>
    BY <1>5 DEF Terminated, agentVars, Doing, Stage, Activity, Workers
  <2>2. QED
    BY <2>1, LifeSteps
<1>6. QED
  BY <1>1, <1>2, <1>3, <1>4, <1>5 DEF RunAppStep

LEMMA WorkerStepLives ==
  ASSUME OuterInv, NEW w \in Probes, WorkerStep(w)
  PROVE  Life!LifeNext \/ UNCHANGED Life!lifeVars
<1> USE DEF OuterInv, AgentTypeOK, WorkerTypeOK
<1> DEFINE worker == <<"probe", w>>
<1>1. UNCHANGED <<main, cancelled, pc>>
  BY DEF WorkerStep, schedVars
<1>2. \/ probe[w] = "launched" /\ probe' = [probe EXCEPT ![w] = "check"]
      \/ probe[w] = "check" /\ probe' = [probe EXCEPT ![w] = "select"]
      \/ probe[w] = "select" /\ probe' = [probe EXCEPT ![w] = "check"]
      \/ /\ probe[w] \in {"select", "ack", "paused"}
         /\ \E to \in {"select", "ack", "paused"} : probe' = [probe EXCEPT ![w] = to]
      \/ /\ probe[w] \in {"select", "ack", "paused"} /\ cancelled
         /\ probe' = [probe EXCEPT ![w] = "exited"]
  BY DEF WorkerStep, ProbeStep, FirstCheck, FinishCheck, Tick, ReceiveCommand,
         Acknowledge, ReceiveWhilePaused, ObserveCancel, Moves
<1>3. main # "registered"
  BY <1>2 DEF NotStarted
<1>4. worker \in Workers
  BY DEF Workers
<1>5. \A other \in Workers : other # worker => Activity(other)' = Activity(other)
  BY <1>1, <1>2 DEF Workers, Activity
<1>6. \/ Activity(worker)' = Activity(worker)
      \/ Activity(worker) \in {"new", "idle"} /\ Activity(worker)' = "checking"
      \/ Activity(worker) = "checking" /\ Activity(worker)' = "idle"
      \/ cancelled /\ Activity(worker) = "idle" /\ Activity(worker)' = "exited"
  BY <1>2 DEF Activity
<1>7. QED
  BY <1>1, <1>3, <1>4, <1>5, <1>6, OneWorkerMoves

LEMMA SpeedtestStepLives ==
  ASSUME OuterInv, NEW t \in Threads,
         \/ TriggerFirst(t) \/ TriggerOnTick(t) \/ SpeedtestExit(t)
         \/ AcquireExclusive(t) \/ CallStep(t)
  PROVE  Life!LifeNext \/ UNCHANGED Life!lifeVars
<1> USE DEF OuterInv, AgentTypeOK
<1> DEFINE worker == <<"speedtest", t>>
           Within == CallLocations \ {"idle"}
<1>1. UNCHANGED <<main, cancelled, probe>>
  BY DEF TriggerFirst, TriggerOnTick, SpeedtestExit, AcquireExclusive,
         LockExclusive, CallStep, PauseAllEnter, BroadcastPause,
         StartCollecting, CollectAck, PauseAllCancelled, PauseAllFinish,
         FinishExclusive, ResumeAllEnter, BroadcastResume,
         ResumeAllCancelled, ResumeAllFinish, UnlockExclusive, stateVars,
         workerVars
<1>2. \/ pc[t] \in {"launched", "idle"} /\ pc' = [pc EXCEPT ![t] = "lock"]
      \/ pc[t] = "idle" /\ cancelled /\ pc' = [pc EXCEPT ![t] = "exited"]
      \/ pc[t] \in Within /\ \E to \in Within : pc' = [pc EXCEPT ![t] = to]
      \/ pc[t] = "unlock" /\ pc' = [pc EXCEPT ![t] = "idle"]
  <2>1. pc' = pc => pc' = [pc EXCEPT ![t] = pc[t]]
    OBVIOUS
  <2>2. CASE TriggerFirst(t) \/ TriggerOnTick(t) \/ SpeedtestExit(t)
             \/ AcquireExclusive(t)
    BY <2>2 DEF TriggerFirst, TriggerOnTick, SpeedtestExit, AcquireExclusive,
                LockExclusive, GoTo, CallLocations
  <2>3. CASE CallStep(t) /\ UnlockExclusive(t)
    BY <2>3 DEF UnlockExclusive, GoTo
  <2>4. CASE CallStep(t) /\ ~UnlockExclusive(t)
    BY <2>1, <2>4
       DEF CallStep, PauseAllEnter, BroadcastPause, StartCollecting, CollectAck,
           PauseAllCancelled, PauseAllFinish, FinishExclusive, ResumeAllEnter,
           BroadcastResume, ResumeAllCancelled, ResumeAllFinish, GoTo, PauseFails,
           CallLocations
  <2>5. QED
    BY <2>2, <2>3, <2>4
<1>3. main # "registered"
  BY <1>2 DEF NotStarted, CallLocations
<1>4. worker \in Workers
  BY DEF Workers
<1>5. \A other \in Workers : other # worker => Activity(other)' = Activity(other)
  BY <1>1, <1>2 DEF Workers, Activity
<1>6. \/ Activity(worker)' = Activity(worker)
      \/ Activity(worker) \in {"new", "idle"} /\ Activity(worker)' = "checking"
      \/ Activity(worker) = "checking" /\ Activity(worker)' = "idle"
      \/ cancelled /\ Activity(worker) = "idle" /\ Activity(worker)' = "exited"
  BY <1>2 DEF Activity, CallLocations
<1>7. QED
  BY <1>1, <1>3, <1>4, <1>5, <1>6, OneWorkerMoves

\* Stop waits for every goroutine that Start has launched, each of which has
\* measured at least once and is not inside a check or an ExecuteExclusive
\* when it leaves: for any number of probes and speedtests, whatever becomes
\* of the pauses (scheduler.go:231, and the loops of the probes).
THEOREM AgentLivesInOrder == AgentSpec => WorkersLiveInOrder
<1>1. AgentInit => Life!LifeInit
  BY DEF AgentInit, Life!LifeInit
<1>2. OuterInv /\ [AgentNext]_agentVars => [Life!LifeNext]_(Life!lifeVars)
  <2> SUFFICES ASSUME OuterInv, [AgentNext]_agentVars
               PROVE  Life!LifeNext \/ UNCHANGED Life!lifeVars
    OBVIOUS
  <2>1. CASE UNCHANGED agentVars
    <3>1. UNCHANGED <<Doing, Stage, cancelled>>
      BY <2>1 DEF agentVars, Doing, Stage, Activity, Workers
    <3>2. QED
      BY <3>1, LifeSteps
  <2>2. CASE AgentNext
    BY <2>2, MainStepLives, WorkerStepLives, SpeedtestStepLives DEF AgentNext
  <2>3. QED
    BY <2>1, <2>2
<1>3. QED
  BY <1>1, <1>2, OuterInvariant, PTL
     DEF AgentSpec, WorkersLiveInOrder, Life!LifeSpec

=============================================================================
