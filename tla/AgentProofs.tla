----------------------------- MODULE AgentProofs ----------------------------
(***************************************************************************)
(* Proofs about Agent for every number of probes and every set of          *)
(* speedtests: type correctness, the inductive invariant AgentInv, and     *)
(* from it the three safety properties of Agent.                           *)
(***************************************************************************)
EXTENDS Agent, TLAPS

-----------------------------------------------------------------------------
(* Type correctness *)

\* No step of RunApp or of the signal leaves the types.
LEMMA MainStepType ==
  ASSUME AgentTypeOK, RunAppStep \/ Signal \/ Terminated
  PROVE  AgentTypeOK'
<1> USE DEF AgentTypeOK, HandleTypeOK, WorkerTypeOK, SchedTypeOK,
            SpeedtestLocations, CallLocations, ProbeLocations, MainLocations
<1>1. CASE StartAgent
  BY <1>1 DEF StartAgent, StartScheduler
<1>2. CASE StopAgent
  BY <1>2 DEF StopAgent, StopScheduler, workerVars, callVars
<1>3. CASE StopReturns
  BY <1>3 DEF StopReturns, workerVars, schedVars
<1>4. CASE Signal
  BY <1>4 DEF Signal, workerVars, callVars
<1>5. CASE Terminated
  BY <1>5 DEF Terminated, agentVars
<1>6. QED
  BY <1>1, <1>2, <1>3, <1>4, <1>5 DEF RunAppStep

\* No step of a probe leaves the types.
LEMMA WorkerStepType ==
  ASSUME AgentTypeOK, NEW w \in Probes, WorkerStep(w)
  PROVE  AgentTypeOK'
<1> USE DEF AgentTypeOK, HandleTypeOK, WorkerTypeOK, SchedTypeOK,
            WorkerStep, schedVars, handleVars, Moves, TakeCommand, SendAck
<1>1. CASE FirstCheck(w)
  BY <1>1 DEF FirstCheck, ProbeLocations
<1>2. CASE FinishCheck(w)
  BY <1>2 DEF FinishCheck, ProbeLocations
<1>3. CASE Tick(w)
  BY <1>3 DEF Tick, ProbeLocations
<1>4. CASE ReceiveCommand(w)
  BY <1>4 DEF ReceiveCommand, ProbeLocations
<1>5. CASE Acknowledge(w)
  BY <1>5 DEF Acknowledge, ProbeLocations
<1>6. CASE ReceiveWhilePaused(w)
  BY <1>6 DEF ReceiveWhilePaused, ProbeLocations
<1>7. CASE ObserveCancel(w, cancelled)
  BY <1>7 DEF ObserveCancel, ProbeLocations
<1>8. QED
  BY <1>1, <1>2, <1>3, <1>4, <1>5, <1>6, <1>7 DEF ProbeStep

\* No step of a speedtest outside ExecuteExclusive leaves the types, nor does
\* the acquisition of the lock.
LEMMA TriggerStepType ==
  ASSUME AgentTypeOK, NEW t \in Threads,
         \/ TriggerFirst(t) \/ TriggerOnTick(t)
         \/ SpeedtestExit(t) \/ AcquireExclusive(t)
  PROVE  AgentTypeOK'
<1> USE DEF AgentTypeOK, HandleTypeOK, WorkerTypeOK, SchedTypeOK,
            SpeedtestLocations, CallLocations,
            stateVars, workerVars, handleVars, GoTo
<1>1. CASE TriggerFirst(t)
  BY <1>1 DEF TriggerFirst
<1>2. CASE TriggerOnTick(t)
  BY <1>2 DEF TriggerOnTick
<1>3. CASE SpeedtestExit(t)
  BY <1>3 DEF SpeedtestExit
<1>4. CASE AcquireExclusive(t)
  BY <1>4 DEF AcquireExclusive, LockExclusive
<1>5. QED
  BY <1>1, <1>2, <1>3, <1>4

\* No step of a call that has the lock leaves the types: the loops of
\* PauseAll and ResumeAll do not run past the last handle.
LEMMA CallStepType ==
  ASSUME AgentTypeOK, NEW t \in Threads, CallStep(t)
  PROVE  AgentTypeOK'
<1> USE NumProbesAssumption
    DEF AgentTypeOK, HandleTypeOK, WorkerTypeOK, SchedTypeOK,
        SpeedtestLocations, CallLocations, Probes, Empty,
        stateVars, handleVars, GoTo, PauseFails
<1>0. probe' = probe /\ main' = main
  BY DEF CallStep
<1>1. CASE PauseAllEnter(t, "run", "resumeEnter")
  <2>1. pc' \in [Threads -> SpeedtestLocations]
    BY <1>1 DEF PauseAllEnter
  <2>2. /\ next' \in [Threads -> 1 .. NumProbes + 1]
        /\ failed' \in [Threads -> BOOLEAN]
    <3>1. CASE pc' = [pc EXCEPT ![t] = "pauseSend"] /\ running /\ ~paused
      BY <1>1, <3>1 DEF PauseAllEnter
    <3>2. CASE ~running
      BY <1>1, <3>2 DEF PauseAllEnter
    <3>3. CASE running /\ paused
      BY <1>1, <3>3 DEF PauseAllEnter
    <3>4. QED
      BY <1>1, <3>1, <3>2, <3>3 DEF PauseAllEnter
  <2>3. UNCHANGED <<running, paused, cancelled, exclusiveMu, cmdChan, ackChan>>
    BY <1>1 DEF PauseAllEnter
  <2>4. QED
    BY <1>0, <2>1, <2>2, <2>3
<1>2. CASE BroadcastPause(t)
  BY <1>0, <1>2 DEF BroadcastPause, SendCommand, CmdPause
<1>3. CASE StartCollecting(t)
  BY <1>0, <1>3 DEF StartCollecting
<1>4. CASE CollectAck(t)
  BY <1>0, <1>4 DEF CollectAck, TakeAck
<1>5. CASE PauseAllCancelled(t, cancelled, "resumeEnter")
  BY <1>0, <1>5 DEF PauseAllCancelled
<1>6. CASE PauseAllFinish(t, "run")
  BY <1>0, <1>6 DEF PauseAllFinish
<1>7. CASE FinishExclusive(t)
  BY <1>0, <1>7 DEF FinishExclusive
<1>8. CASE ResumeAllEnter(t, "unlock")
  <2>1. CASE ~running \/ ~paused
    BY <1>0, <1>8, <2>1 DEF ResumeAllEnter
  <2>2. CASE running /\ paused
    <3>1. next' \in [Threads -> 1 .. NumProbes + 1]
      BY <1>8, <2>2 DEF ResumeAllEnter
    <3>2. pc' \in [Threads -> SpeedtestLocations]
      BY <1>8, <2>2 DEF ResumeAllEnter
    <3>3. QED
      BY <1>0, <1>8, <3>1, <3>2 DEF ResumeAllEnter
  <2>3. QED
    BY <2>1, <2>2
<1>9. CASE BroadcastResume(t)
  BY <1>0, <1>9 DEF BroadcastResume, SendCommand, CmdResume
<1>10. CASE ResumeAllCancelled(t, ResumeCtxDone(t), "unlock")
  BY <1>0, <1>10 DEF ResumeAllCancelled
<1>11. CASE ResumeAllFinish(t, "unlock")
  BY <1>0, <1>11 DEF ResumeAllFinish
<1>12. CASE UnlockExclusive(t)
  BY <1>0, <1>12 DEF UnlockExclusive
<1>13. QED
  BY <1>1, <1>2, <1>3, <1>4, <1>5, <1>6, <1>7, <1>8, <1>9, <1>10, <1>11,
     <1>12 DEF CallStep

\* The types hold at the start and after every step.
LEMMA TypeInductive ==
  /\ AgentInit => AgentTypeOK
  /\ AgentTypeOK /\ [AgentNext]_agentVars => AgentTypeOK'
<1>1. AgentInit => AgentTypeOK
  <2>1. 1 \in 1 .. NumProbes + 1
    BY NumProbesAssumption
  <2>2. SchedInit /\ cancelled = FALSE => SchedTypeOK
    BY <2>1 DEF SchedInit, SchedTypeOK
  <2>3. HandleInit => HandleTypeOK
    BY DEF HandleInit, HandleTypeOK
  <2>4. QED
    BY <2>2, <2>3
       DEF AgentInit, WorkerInit, AgentTypeOK, WorkerTypeOK, ProbeLocations,
           SpeedtestLocations, MainLocations
<1>2. AgentTypeOK /\ UNCHANGED agentVars => AgentTypeOK'
  BY DEF agentVars, AgentTypeOK, HandleTypeOK, WorkerTypeOK, SchedTypeOK
<1>3. AgentTypeOK /\ AgentNext => AgentTypeOK'
  BY MainStepType, WorkerStepType, TriggerStepType, CallStepType
     DEF AgentNext
<1>4. QED
  BY <1>1, <1>2, <1>3

\* The agent never leaves its types: in particular no broadcast of the
\* Scheduler indexes a handle that is not there.
THEOREM TypeCorrect == AgentSpec => []AgentTypeOK
BY TypeInductive, PTL DEF AgentSpec

-----------------------------------------------------------------------------
(* The inductive invariant *)

\* What every step leaves true whether or not the shutdown has begun: the
\* lock has one owner, and nothing moves before Start.
LEMMA MutexPreserved ==
  ASSUME AgentTypeOK, Mutex, NotStarted, AgentNext
  PROVE  Mutex' /\ NotStarted'
<1> USE NoThreadAssumption
    DEF AgentTypeOK, SchedTypeOK, Mutex, NotStarted, Inside, CallLocations
<1>1. CASE RunAppStep \/ Signal \/ Terminated
  BY <1>1 DEF RunAppStep, StartAgent, StartScheduler, StopAgent,
              StopScheduler, StopReturns, Signal, Terminated, agentVars,
              workerVars, schedVars, callVars
<1>2. ASSUME NEW w \in Probes, WorkerStep(w)
      PROVE  Mutex' /\ NotStarted'
  <2>1. /\ probe[w] # "registered"
        /\ \E loc \in ProbeLocations \ {"registered"} :
             probe' = [probe EXCEPT ![w] = loc]
    BY <1>2 DEF WorkerStep, ProbeStep, FirstCheck, FinishCheck, Tick,
                ReceiveCommand, Acknowledge, ReceiveWhilePaused,
                ObserveCancel, Moves, ProbeLocations
  <2>2. QED
    BY <1>2, <2>1 DEF WorkerStep, WorkerTypeOK, schedVars
<1>3. ASSUME NEW t \in Threads,
             TriggerFirst(t) \/ TriggerOnTick(t) \/ SpeedtestExit(t)
      PROVE  Mutex' /\ NotStarted'
  BY <1>3 DEF TriggerFirst, TriggerOnTick, SpeedtestExit, GoTo, stateVars,
              workerVars
<1>4. ASSUME NEW t \in Threads, AcquireExclusive(t)
      PROVE  Mutex' /\ NotStarted'
  BY <1>4 DEF AcquireExclusive, LockExclusive, GoTo, stateVars
<1>5. ASSUME NEW t \in Threads, CallStep(t)
      PROVE  Mutex' /\ NotStarted'
  <2>1. CASE UnlockExclusive(t)
    BY <1>5, <2>1 DEF UnlockExclusive, CallStep, GoTo, stateVars
  <2>2. CASE ~UnlockExclusive(t)
    <3>1. /\ exclusiveMu' = exclusiveMu
          /\ pc[t] \in Inside
          /\ main' = main /\ probe' = probe
      BY <1>5, <2>2
         DEF CallStep, PauseAllEnter, BroadcastPause, StartCollecting,
             CollectAck, PauseAllCancelled, PauseAllFinish, FinishExclusive,
             ResumeAllEnter, BroadcastResume, ResumeAllCancelled,
             ResumeAllFinish
    <3>2. \E loc \in Inside : pc' = [pc EXCEPT ![t] = loc]
      <4>1. pc' = pc => pc' = [pc EXCEPT ![t] = pc[t]]
        OBVIOUS
      <4>2. QED
        BY <1>5, <2>2, <3>1, <4>1
           DEF CallStep, PauseAllEnter, BroadcastPause, StartCollecting,
               CollectAck, PauseAllCancelled, PauseAllFinish,
               FinishExclusive, ResumeAllEnter, BroadcastResume,
               ResumeAllCancelled, ResumeAllFinish, GoTo, PauseFails
    <3>3. main # "registered"
      BY <3>1
    <3>4. QED
      BY <3>1, <3>2, <3>3
  <2>3. QED
    BY <2>1, <2>2
<1>6. QED
  BY <1>1, <1>2, <1>3, <1>4, <1>5 DEF AgentNext

\* One step of a probe answers the Scheduler and nothing else: an idle handle
\* stays idle, a probe that was asked stays asked until its ACK is collected,
\* a held probe cannot move.
LEMMA WorkerKeepsPhase ==
  ASSUME AgentTypeOK, ~cancelled, NEW w \in Probes, WorkerStep(w),
         NEW v \in Probes
  PROVE  /\ Tidy(v) => Tidy(v)'
         /\ Asked(v) => Asked(v)'
         /\ Held(v) => Held(v)'
<1> USE DEF AgentTypeOK, HandleTypeOK, WorkerTypeOK, WorkerStep, Tidy, Asked,
            Held, handleVars, Moves, TakeCommand, SendAck,
            CmdPause, CmdResume, Empty
<1>1. CASE FirstCheck(w)
  BY <1>1 DEF FirstCheck
<1>2. CASE FinishCheck(w)
  BY <1>2 DEF FinishCheck
<1>3. CASE Tick(w)
  BY <1>3 DEF Tick
<1>4. CASE ReceiveCommand(w)
  BY <1>4 DEF ReceiveCommand
<1>5. CASE Acknowledge(w)
  BY <1>5 DEF Acknowledge
<1>6. CASE ReceiveWhilePaused(w)
  BY <1>6 DEF ReceiveWhilePaused
<1>7. CASE ObserveCancel(w, cancelled)
  BY <1>7 DEF ObserveCancel
<1>8. QED
  BY <1>1, <1>2, <1>3, <1>4, <1>5, <1>6, <1>7 DEF ProbeStep

\* So no step of a probe disturbs a call in progress.
LEMMA WorkerPreserves ==
  ASSUME AgentInv, ~cancelled, NEW w \in Probes, WorkerStep(w)
  PROVE  Rendezvous' /\ PausedIsHeld' /\ Serving'
<1>1. \A v \in Probes : /\ Tidy(v) => Tidy(v)'
                        /\ Asked(v) => Asked(v)'
                        /\ Held(v) => Held(v)'
  BY WorkerKeepsPhase DEF AgentInv
<1>2. UNCHANGED <<schedVars, main>>
  BY DEF WorkerStep
<1>3. Rendezvous'
  BY <1>1, <1>2 DEF AgentInv, Rendezvous, schedVars
<1>4. QED
  BY <1>2, <1>3 DEF AgentInv, PausedIsHeld, Serving, schedVars

\* Nor does a step of RunApp before the shutdown, of a speedtest outside its
\* call, or the acquisition of the lock.
LEMMA OthersPreserve ==
  ASSUME AgentInv, ~cancelled, ~cancelled',
         \/ RunAppStep \/ Signal \/ Terminated
         \/ \E t \in Threads : \/ TriggerFirst(t) \/ TriggerOnTick(t)
                               \/ SpeedtestExit(t) \/ AcquireExclusive(t)
  PROVE  Rendezvous' /\ PausedIsHeld' /\ Serving'
<1> USE DEF AgentInv, AgentTypeOK, SchedTypeOK
<1>1. CASE StartAgent
  <2>1. /\ \A t \in Threads : pc'[t] = "launched"
        /\ \A w \in Probes : probe'[w] = "launched"
        /\ UNCHANGED <<cmdChan, ackChan, exclusiveMu, paused>>
        /\ running' /\ main' = "serving"
    BY <1>1 DEF StartAgent, StartScheduler, NotStarted
  <2>2. exclusiveMu = NoThread
    BY <1>1 DEF StartAgent, NotStarted, Mutex, Inside, CallLocations
  <2>3. \A w \in Probes : Tidy(w)'
    BY <2>1, <2>2 DEF Rendezvous, Tidy
  <2>4. ~paused
    BY <1>1 DEF StartAgent, NotStarted
  <2>5. QED
    BY <2>1, <2>3, <2>4 DEF Rendezvous, PausedIsHeld, Serving
<1>2. CASE StopAgent \/ StopReturns \/ Signal
  BY <1>2 DEF StopAgent, StopReturns, Signal, Serving
<1>3. CASE Terminated
  BY <1>3 DEF Terminated, agentVars, Serving
<1>4. ASSUME NEW t \in Threads,
             TriggerFirst(t) \/ TriggerOnTick(t) \/ SpeedtestExit(t)
      PROVE  Rendezvous' /\ PausedIsHeld' /\ Serving'
  <2>1. /\ pc[t] \in {"launched", "idle"}
        /\ \E loc \in {"lock", "exited"} : pc' = [pc EXCEPT ![t] = loc]
        /\ UNCHANGED <<workerVars, stateVars, exclusiveMu, next, main>>
    BY <1>4 DEF TriggerFirst, TriggerOnTick, SpeedtestExit, GoTo
  <2>2. \A u \in Threads : /\ pc'[u] = pc[u] \/ pc'[u] \in {"lock", "exited"}
                           /\ pc[u] \in {"run", "resumeEnter", "resumeSend"}
                                => pc'[u] = pc[u]
    BY <2>1
  <2>3. \A w \in Probes : /\ Tidy(w)' <=> Tidy(w)
                          /\ Asked(w)' <=> Asked(w)
                          /\ Held(w)' <=> Held(w)
    BY <2>1 DEF workerVars, Tidy, Asked, Held
  <2>4. Rendezvous'
    BY <2>1, <2>2, <2>3 DEF Rendezvous
  <2>5. QED
    BY <2>1, <2>2, <2>4 DEF PausedIsHeld, Serving, stateVars
<1>5. ASSUME NEW t \in Threads, AcquireExclusive(t)
      PROVE  Rendezvous' /\ PausedIsHeld' /\ Serving'
  <2>1. /\ exclusiveMu = NoThread /\ exclusiveMu' = t
        /\ pc[t] = "lock" /\ pc' = [pc EXCEPT ![t] = "pauseEnter"]
        /\ UNCHANGED <<workerVars, stateVars, next, main>>
    BY <1>5 DEF AcquireExclusive, LockExclusive, GoTo, workerVars, handleVars
  <2>2. \A w \in Probes : Tidy(w)'
    BY <2>1 DEF Rendezvous, workerVars, Tidy
  <2>3. \A u \in Threads : pc[u] \notin Inside
    BY <2>1, NoThreadAssumption DEF Mutex
  <2>4. \A u \in Threads : pc'[u] = pc[u] \/ pc'[u] = "pauseEnter"
    BY <2>1
  <2>5. Rendezvous'
    BY <2>1, <2>2, <2>3, <2>4, NoThreadAssumption
       DEF Rendezvous, Inside, CallLocations
  <2>6. QED
    BY <2>1, <2>3, <2>4, <2>5
       DEF PausedIsHeld, Serving, stateVars, Inside, CallLocations
<1>6. QED
  BY <1>1, <1>2, <1>3, <1>4, <1>5 DEF RunAppStep

\* The heart of the argument: each step of the call that holds the lock takes
\* the handles from one phase of the rendezvous to the next.  No other call
\* is inside, so only the phase of t matters.
LEMMA CallPreserves ==
  ASSUME ~ResumeMayExpire, AgentInv, ~cancelled, NEW t \in Threads, CallStep(t)
  PROVE  Rendezvous' /\ PausedIsHeld' /\ Serving'
<1> USE NumProbesAssumption, NoThreadAssumption
<1> DEFINE Paused(loc) == loc \in {"run", "resumeEnter", "resumeSend"}
           Phase(n, loc) ==
             /\ loc = "pauseSend" =>
                  \A w \in Probes : IF w < n THEN Asked(w) ELSE Tidy(w)
             /\ loc = "pauseWait" =>
                  \A w \in Probes : IF w < n THEN Held(w) ELSE Asked(w)
             /\ loc \in {"run", "resumeEnter"} => \A w \in Probes : Held(w)
             /\ loc = "resumeSend" =>
                  \A w \in Probes : IF w < n THEN Tidy(w) ELSE Held(w)
             /\ loc \in {"pauseEnter", "unlock", "idle"} =>
                  \A w \in Probes : Tidy(w)
<1>1. /\ pc[t] \in Inside /\ exclusiveMu = t
      /\ UNCHANGED <<probe, main, running, cancelled>>
  BY DEF CallStep, PauseAllEnter, BroadcastPause, StartCollecting, CollectAck,
         PauseAllCancelled, PauseAllFinish, FinishExclusive, ResumeAllEnter,
         BroadcastResume, ResumeAllCancelled, ResumeAllFinish,
         UnlockExclusive, AgentInv, Mutex, Inside, CallLocations, stateVars
<1>2. /\ Phase(next[t], pc[t])
      /\ paused <=> Paused(pc[t])
      /\ running /\ Serving
      /\ \A u \in Threads : u # t => pc[u] \notin Inside
  <2>1. \A u \in Threads : u # t => pc[u] \notin Inside
    BY <1>1 DEF AgentInv, Mutex
  <2>2. Phase(next[t], pc[t])
    BY <1>1 DEF AgentInv, Rendezvous, Inside
  <2>3. paused <=> Paused(pc[t])
    BY <1>1, <2>1 DEF AgentInv, PausedIsHeld, Inside, CallLocations
  <2>4. running /\ Serving
    BY <1>1 DEF AgentInv, Serving, NotStarted, Inside, CallLocations
  <2>5. QED
    BY <2>1, <2>2, <2>3, <2>4
\* It is enough that t moves to a location whose phase the handles are in.
<1>3. ASSUME NEW loc \in Inside \cup {"idle"}, NEW n \in Nat,
             pc' = [pc EXCEPT ![t] = loc], next' = [next EXCEPT ![t] = n],
             exclusiveMu' = IF loc = "idle" THEN NoThread ELSE exclusiveMu,
             Phase(n, loc)', paused' <=> Paused(loc)
      PROVE  Rendezvous' /\ PausedIsHeld' /\ Serving'
  <2>1. /\ pc'[t] = loc /\ next'[t] = n
        /\ \A u \in Threads : u # t => pc'[u] = pc[u] /\ pc'[u] \notin Inside
    BY <1>2, <1>3 DEF AgentInv, AgentTypeOK, SchedTypeOK
  <2>2. Rendezvous'
    BY <1>1, <1>3, <2>1 DEF Rendezvous, Inside, CallLocations
  <2>3. PausedIsHeld'
    BY <1>3, <2>1 DEF PausedIsHeld, Inside, CallLocations
  <2>4. QED
    BY <1>1, <1>2, <2>2, <2>3 DEF Serving
<1>4. next[t] \in Nat /\ next = [next EXCEPT ![t] = next[t]]
      /\ pc = [pc EXCEPT ![t] = pc[t]]
  BY DEF AgentInv, AgentTypeOK, SchedTypeOK
<1>5. UNCHANGED handleVars =>
        \A w \in Probes : /\ Tidy(w)' <=> Tidy(w)
                          /\ Asked(w)' <=> Asked(w)
                          /\ Held(w)' <=> Held(w)
  BY <1>1 DEF handleVars, Tidy, Asked, Held
<1> USE DEF Inside, CallLocations
\* The steps that touch no handle.
<1>6. CASE PauseAllEnter(t, "run", "resumeEnter")
  <2>1. /\ pc[t] = "pauseEnter" /\ ~paused /\ ~paused'
        /\ pc' = [pc EXCEPT ![t] = "pauseSend"]
        /\ next' = [next EXCEPT ![t] = 1]
        /\ UNCHANGED <<exclusiveMu, handleVars>>
    BY <1>2, <1>6 DEF PauseAllEnter, GoTo, stateVars
  <2>2. Phase(1, "pauseSend")'
    BY <1>2, <1>5, <2>1 DEF Probes
  <2>3. QED
    BY <1>3, <2>1, <2>2
<1>7. CASE StartCollecting(t)
  <2>1. /\ pc[t] = "pauseSend" /\ next[t] > NumProbes
        /\ pc' = [pc EXCEPT ![t] = "pauseWait"]
        /\ next' = [next EXCEPT ![t] = 1]
        /\ UNCHANGED <<paused, exclusiveMu, handleVars>>
    BY <1>7 DEF StartCollecting, GoTo, stateVars
  <2>2. \A w \in Probes : w < next[t] /\ ~(w < 1)
    BY <1>4, <2>1 DEF Probes
  <2>3. Phase(1, "pauseWait")'
    BY <1>2, <1>5, <2>1, <2>2
  <2>4. QED
    BY <1>2, <1>3, <2>1, <2>3
<1>8. CASE PauseAllFinish(t, "run")
  <2>1. /\ pc[t] = "pauseWait" /\ next[t] > NumProbes /\ paused'
        /\ pc' = [pc EXCEPT ![t] = "run"]
        /\ UNCHANGED <<next, exclusiveMu, handleVars>>
    BY <1>8 DEF PauseAllFinish, GoTo
  <2>2. \A w \in Probes : w < next[t]
    BY <1>4, <2>1 DEF Probes
  <2>3. Phase(next[t], "run")'
    BY <1>2, <1>5, <2>1, <2>2
  <2>4. QED
    BY <1>3, <1>4, <2>1, <2>3
<1>9. CASE FinishExclusive(t)
  <2>1. /\ pc[t] = "run" /\ pc' = [pc EXCEPT ![t] = "resumeEnter"]
        /\ UNCHANGED <<paused, next, exclusiveMu, handleVars>>
    BY <1>9 DEF FinishExclusive, GoTo, stateVars
  <2>2. Phase(next[t], "resumeEnter")'
    BY <1>2, <1>5, <2>1
  <2>3. QED
    BY <1>2, <1>3, <1>4, <2>1, <2>2
<1>10. CASE ResumeAllEnter(t, "unlock")
  <2>1. /\ pc[t] = "resumeEnter" /\ paused
        /\ pc' = [pc EXCEPT ![t] = "resumeSend"]
        /\ next' = [next EXCEPT ![t] = 1]
        /\ UNCHANGED <<paused, exclusiveMu, handleVars>>
    BY <1>2, <1>10 DEF ResumeAllEnter, GoTo, stateVars
  <2>2. \A w \in Probes : ~(w < 1)
    BY DEF Probes
  <2>3. Phase(1, "resumeSend")'
    BY <1>2, <1>5, <2>1, <2>2
  <2>4. QED
    BY <1>3, <2>1, <2>3
<1>11. CASE ResumeAllFinish(t, "unlock")
  <2>1. /\ pc[t] = "resumeSend" /\ next[t] > NumProbes /\ ~paused'
        /\ pc' = [pc EXCEPT ![t] = "unlock"]
        /\ UNCHANGED <<next, exclusiveMu, handleVars>>
    BY <1>11 DEF ResumeAllFinish, GoTo
  <2>2. \A w \in Probes : w < next[t]
    BY <1>4, <2>1 DEF Probes
  <2>3. Phase(next[t], "unlock")'
    BY <1>2, <1>5, <2>1, <2>2
  <2>4. QED
    BY <1>3, <1>4, <2>1, <2>3
<1>12. CASE UnlockExclusive(t)
  <2>1. /\ pc[t] = "unlock" /\ pc' = [pc EXCEPT ![t] = "idle"]
        /\ exclusiveMu' = NoThread
        /\ UNCHANGED <<paused, next, handleVars>>
    BY <1>12 DEF UnlockExclusive, GoTo, stateVars
  <2>2. Phase(next[t], "idle")'
    BY <1>2, <1>5, <2>1
  <2>3. QED
    BY <1>2, <1>3, <1>4, <2>1, <2>2
\* Before the shutdown nothing cancels PauseAll, and the send of a CmdResume
\* finds an empty buffer, so the 5 seconds do not elapse.
<1>13. CASE PauseAllCancelled(t, cancelled, "resumeEnter")
  BY <1>13 DEF PauseAllCancelled
<1>14. CASE ResumeAllCancelled(t, ResumeCtxDone(t), "unlock")
  <2>1. /\ pc[t] = "resumeSend" /\ next[t] \in Probes
        /\ SendBlocked(next[t])
    BY <1>4, <1>14
       DEF ResumeAllCancelled, ResumeCtxDone, AgentInv, AgentTypeOK,
           SchedTypeOK, Probes
  <2>2. Held(next[t])
    BY <1>2, <1>4, <2>1
  <2>3. QED
    BY <2>1, <2>2 DEF Held, SendBlocked
\* The steps that touch one handle, that of the n-th probe.
<1>n. PICK n \in Nat : n = next[t]
  BY <1>4
<1>15. CASE BroadcastPause(t)
  <2>1. /\ pc[t] = "pauseSend" /\ n \in Probes
        /\ cmdChan[n] = Empty
        /\ cmdChan' = [cmdChan EXCEPT ![n] = CmdPause]
        /\ next' = [next EXCEPT ![t] = n + 1]
        /\ UNCHANGED <<paused, exclusiveMu, pc, ackChan>>
    BY <1>n, <1>15 DEF BroadcastPause, SendCommand, AgentInv, AgentTypeOK,
                 SchedTypeOK, Probes, stateVars
  <2>2. Asked(n)'
    <3>1. Tidy(n)
      BY <1>2, <1>n, <2>1
    <3>2. probe[n] \in {"registered", "launched", "check", "select"}
      BY <2>1, <3>1
         DEF Tidy, AgentInv, AgentTypeOK, WorkerTypeOK, ProbeLocations,
             CmdResume, Empty
    <3>3. probe[n] # "registered"
      BY <1>1, <2>1 DEF AgentInv, NotStarted
    <3>4. QED
      BY <1>1, <2>1, <3>1, <3>2, <3>3
         DEF Tidy, Asked, AgentInv, AgentTypeOK, HandleTypeOK
  <2>3. \A w \in Probes : w # n => /\ Asked(w)' <=> Asked(w)
                                   /\ Tidy(w)' <=> Tidy(w)
    BY <1>1, <2>1 DEF Asked, Tidy, AgentInv, AgentTypeOK, HandleTypeOK
  <2>4. \A w \in Probes : IF w < n THEN Asked(w) ELSE Tidy(w)
    BY <1>2, <1>n, <2>1
  <2>5. \A w \in Probes : IF w < n + 1 THEN Asked(w)' ELSE Tidy(w)'
    BY <2>2, <2>3, <2>4 DEF Probes
  <2>6. Phase(n + 1, "pauseSend")'
    BY <2>5
  <2>7. pc' = [pc EXCEPT ![t] = "pauseSend"] /\ n + 1 \in Nat
    BY <1>4, <2>1
  <2>8. paused' <=> Paused("pauseSend")
    BY <1>2, <2>1
  <2>9. QED
    BY <1>3, <2>1, <2>6, <2>7, <2>8
<1>16. CASE CollectAck(t)
  <2>1. /\ pc[t] = "pauseWait" /\ n \in Probes
        /\ ackChan[n]
        /\ ackChan' = [ackChan EXCEPT ![n] = FALSE]
        /\ next' = [next EXCEPT ![t] = n + 1]
        /\ UNCHANGED <<paused, exclusiveMu, pc, cmdChan>>
    BY <1>n, <1>16 DEF CollectAck, TakeAck, AgentInv, AgentTypeOK,
                 SchedTypeOK, Probes, stateVars
  <2>2. Held(n)'
    <3>1. Asked(n)
      BY <1>2, <1>n, <2>1
    <3>2. QED
      BY <1>1, <2>1, <3>1
         DEF Asked, Held, AgentInv, AgentTypeOK, HandleTypeOK
  <2>3. \A w \in Probes : w # n => /\ Held(w)' <=> Held(w)
                                   /\ Asked(w)' <=> Asked(w)
    BY <1>1, <2>1 DEF Held, Asked, AgentInv, AgentTypeOK, HandleTypeOK
  <2>4. \A w \in Probes : IF w < n THEN Held(w) ELSE Asked(w)
    BY <1>2, <1>n, <2>1
  <2>5. \A w \in Probes : IF w < n + 1 THEN Held(w)' ELSE Asked(w)'
    BY <2>2, <2>3, <2>4 DEF Probes
  <2>6. Phase(n + 1, "pauseWait")'
    BY <2>5
  <2>7. pc' = [pc EXCEPT ![t] = "pauseWait"] /\ n + 1 \in Nat
    BY <1>4, <2>1
  <2>8. paused' <=> Paused("pauseWait")
    BY <1>2, <2>1
  <2>9. QED
    BY <1>3, <2>1, <2>6, <2>7, <2>8
<1>17. CASE BroadcastResume(t)
  <2>1. /\ pc[t] = "resumeSend" /\ n \in Probes
        /\ cmdChan' = [cmdChan EXCEPT ![n] = CmdResume]
        /\ next' = [next EXCEPT ![t] = n + 1]
        /\ UNCHANGED <<paused, exclusiveMu, pc, ackChan>>
    BY <1>n, <1>17 DEF BroadcastResume, SendCommand, AgentInv, AgentTypeOK,
                       SchedTypeOK, Probes, stateVars
  <2>2. Tidy(n)'
    <3>1. Held(n)
      BY <1>2, <1>n, <2>1
    <3>2. QED
      BY <1>1, <2>1, <3>1
         DEF Held, Tidy, AgentInv, AgentTypeOK, HandleTypeOK, CmdPause,
             CmdResume
  <2>3. \A w \in Probes : w # n => /\ Tidy(w)' <=> Tidy(w)
                                   /\ Held(w)' <=> Held(w)
    BY <1>1, <2>1 DEF Tidy, Held, AgentInv, AgentTypeOK, HandleTypeOK
  <2>4. \A w \in Probes : IF w < n THEN Tidy(w) ELSE Held(w)
    BY <1>2, <1>n, <2>1
  <2>5. \A w \in Probes : IF w < n + 1 THEN Tidy(w)' ELSE Held(w)'
    BY <2>2, <2>3, <2>4 DEF Probes
  <2>6. Phase(n + 1, "resumeSend")'
    BY <2>5
  <2>7. pc' = [pc EXCEPT ![t] = "resumeSend"] /\ n + 1 \in Nat
    BY <1>4, <2>1
  <2>8. paused' <=> Paused("resumeSend")
    BY <1>2, <2>1
  <2>9. QED
    BY <1>3, <2>1, <2>6, <2>7, <2>8
<1>18. QED
  BY <1>6, <1>7, <1>8, <1>9, <1>10, <1>11, <1>12, <1>13, <1>14, <1>15,
     <1>16, <1>17 DEF CallStep

\* Who has exited stays so, and Stop waits for everybody.
LEMMA FinishedPreserved ==
  ASSUME AgentTypeOK, Finished, AgentNext
  PROVE  Finished'
<1> USE DEF Finished
<1>1. CASE RunAppStep \/ Signal \/ Terminated
  BY <1>1 DEF RunAppStep, StartAgent, StopAgent, StopReturns, Signal,
              Terminated, agentVars, workerVars, schedVars, callVars
<1>2. ASSUME NEW w \in Probes, WorkerStep(w)
      PROVE  Finished'
  <2>1. probe[w] # "exited"
    BY <1>2 DEF WorkerStep, ProbeStep, FirstCheck, FinishCheck, Tick,
                ReceiveCommand, Acknowledge, ReceiveWhilePaused,
                ObserveCancel, Moves
  <2>2. QED
    BY <1>2, <2>1 DEF WorkerStep
<1>3. ASSUME NEW t \in Threads,
             \/ TriggerFirst(t) \/ TriggerOnTick(t) \/ SpeedtestExit(t)
             \/ AcquireExclusive(t) \/ CallStep(t)
      PROVE  Finished'
  <2>1. pc[t] # "exited"
    BY <1>3 DEF TriggerFirst, TriggerOnTick, SpeedtestExit, AcquireExclusive,
                LockExclusive, CallStep, PauseAllEnter, BroadcastPause,
                StartCollecting, CollectAck, PauseAllCancelled,
                PauseAllFinish, FinishExclusive, ResumeAllEnter,
                BroadcastResume, ResumeAllCancelled, ResumeAllFinish,
                UnlockExclusive
  <2>2. main' = main
    BY <1>3 DEF TriggerFirst, TriggerOnTick, SpeedtestExit, AcquireExclusive,
                CallStep
  <2>3. QED
    BY <2>1, <2>2
<1>4. QED
  BY <1>1, <1>2, <1>3 DEF AgentNext

\* The context of the workers is never un-cancelled: the agent is started
\* once.
LEMMA CancelledStays ==
  ASSUME AgentTypeOK, AgentNext
  PROVE  cancelled => cancelled'
<1>1. CASE RunAppStep \/ Signal \/ Terminated
  BY <1>1 DEF RunAppStep, StartAgent, StartScheduler, StopAgent,
              StopScheduler, StopReturns, Signal, Terminated, agentVars,
              schedVars
<1>2. ASSUME NEW w \in Probes, WorkerStep(w)
      PROVE  cancelled' = cancelled
  BY <1>2 DEF WorkerStep, schedVars
<1>3. ASSUME NEW t \in Threads,
             \/ TriggerFirst(t) \/ TriggerOnTick(t) \/ SpeedtestExit(t)
             \/ AcquireExclusive(t) \/ CallStep(t)
      PROVE  cancelled' = cancelled
  BY <1>3 DEF TriggerFirst, TriggerOnTick, SpeedtestExit, AcquireExclusive,
              LockExclusive, CallStep, PauseAllEnter, BroadcastPause,
              StartCollecting, CollectAck, PauseAllCancelled,
              PauseAllFinish, FinishExclusive, ResumeAllEnter,
              BroadcastResume, ResumeAllCancelled, ResumeAllFinish,
              UnlockExclusive, stateVars
<1>4. QED
  BY <1>1, <1>2, <1>3 DEF AgentNext

\* The invariant holds before Start.
LEMMA InitInv == AgentInit => AgentInv
<1> SUFFICES ASSUME AgentInit PROVE AgentInv
  OBVIOUS
<1> USE DEF AgentInit, HandleInit, WorkerInit, SchedInit
<1>1. AgentTypeOK
  BY TypeInductive
<1>2. Mutex /\ NotStarted /\ Finished
  BY NoThreadAssumption
     DEF Mutex, NotStarted, Finished, Inside, CallLocations
<1>3. Rendezvous /\ PausedIsHeld /\ Serving
  BY DEF Rendezvous, PausedIsHeld, Serving, Tidy, CmdPause, Empty
<1>4. QED
  BY <1>1, <1>2, <1>3 DEF AgentInv

\* And every step preserves it.
LEMMA StepInv ==
  ASSUME ~ResumeMayExpire, AgentInv, [AgentNext]_agentVars
  PROVE  AgentInv'
<1>1. CASE AgentNext
  <2>1. AgentTypeOK' /\ Mutex' /\ NotStarted' /\ Finished'
    BY <1>1, TypeInductive, MutexPreserved, FinishedPreserved DEF AgentInv
  <2>2. ASSUME ~cancelled'
        PROVE  Rendezvous' /\ PausedIsHeld' /\ Serving'
    <3>1. ~cancelled
      BY <1>1, <2>2, CancelledStays DEF AgentInv
    <3>2. QED
      BY <1>1, <2>2, <3>1, WorkerPreserves, OthersPreserve, CallPreserves
         DEF AgentNext
  <2>3. QED
    BY <2>1, <2>2 DEF AgentInv
<1>2. CASE UNCHANGED agentVars
  BY <1>2
     DEF agentVars, AgentInv, AgentTypeOK, HandleTypeOK, WorkerTypeOK,
         SchedTypeOK, Mutex, NotStarted, Finished, Rendezvous, PausedIsHeld,
         Serving, Tidy, Asked, Held
<1>3. QED
  BY <1>1, <1>2

\* As long as the 5 seconds of ResumeAll elapse only while a send is blocked,
\* the state of every handle is determined by how far the call that holds the
\* lock has come, whatever the probes do.
THEOREM Invariant ==
  ASSUME ~ResumeMayExpire
  PROVE  AgentSpec => []AgentInv
<1>1. AgentInv /\ [AgentNext]_agentVars => AgentInv'
  BY StepInv
<1>2. QED
  BY <1>1, InitInv, PTL DEF AgentSpec

\* What does not depend on the 5 seconds: who has the lock, who has been
\* launched, and that Stop is called after the signal.
StopIsAsked == main = "stopping" => cancelled

OuterInv == AgentTypeOK /\ Mutex /\ NotStarted /\ Finished /\ StopIsAsked

LEMMA OuterInvariant == AgentSpec => []OuterInv
<1>1. AgentInit => OuterInv
  BY InitInv DEF AgentInit, AgentInv, OuterInv, StopIsAsked
<1>2. OuterInv /\ [AgentNext]_agentVars => OuterInv'
  <2> SUFFICES ASSUME OuterInv, [AgentNext]_agentVars
               PROVE  OuterInv'
    OBVIOUS
  <2>1. CASE AgentNext
    <3>1. AgentTypeOK' /\ Mutex' /\ NotStarted' /\ Finished'
      BY <2>1, TypeInductive, MutexPreserved, FinishedPreserved DEF OuterInv
    <3>2. main' = "stopping" => main = "stopping" \/ cancelled
      BY <2>1 DEF AgentNext, RunAppStep, StartAgent, StopAgent, StopReturns, Signal,
                  Terminated, agentVars, TriggerFirst, TriggerOnTick, SpeedtestExit,
                  AcquireExclusive, CallStep, WorkerStep
    <3>3. QED
      BY <2>1, <3>1, <3>2, CancelledStays DEF OuterInv, StopIsAsked
  <2>2. CASE UNCHANGED agentVars
    BY <2>2 DEF agentVars, OuterInv, AgentTypeOK, HandleTypeOK, WorkerTypeOK,
                SchedTypeOK, Mutex, NotStarted, Finished, StopIsAsked
  <2>3. QED
    BY <2>1, <2>2
<1>3. QED
  BY <1>1, <1>2, PTL DEF AgentSpec

\* FR4: while an exclusive task runs, every other probe is paused, for any
\* number of probes and of speedtests.
THEOREM ExclusiveHolds ==
  ASSUME ~ResumeMayExpire
  PROVE  AgentSpec => []Exclusive
<1>1. AgentInv => Exclusive
  BY DEF AgentInv, Rendezvous, Held, Exclusive
<1>2. QED
  BY <1>1, Invariant, PTL

\* ExecuteExclusive leaves no probe paused, no ACK uncollected and no
\* CmdPause unanswered behind.
THEOREM NoProbeIsStranded ==
  ASSUME ~ResumeMayExpire
  PROVE  AgentSpec => []NoStrandedProbe
<1>1. AgentInv => NoStrandedProbe
  BY DEF AgentInv, Rendezvous, NoStrandedProbe
<1>2. QED
  BY <1>1, Invariant, PTL

\* No send of the deferred ResumeAll finds a full buffer, so its 5 seconds
\* are never spent waiting for a probe.
THEOREM ResumeIsImmediate ==
  ASSUME ~ResumeMayExpire
  PROVE  AgentSpec => []ResumeNeverBlocks
<1>1. AgentInv => ResumeNeverBlocks
  <2> SUFFICES ASSUME AgentInv, ~cancelled, NEW t \in Threads,
                      pc[t] = "resumeSend", next[t] <= NumProbes
               PROVE  cmdChan[next[t]] = Empty
    BY DEF ResumeNeverBlocks
  <2>1. next[t] \in Probes /\ ~(next[t] < next[t])
    BY NumProbesAssumption DEF AgentInv, AgentTypeOK, SchedTypeOK, Probes
  <2>2. Held(next[t])
    BY <2>1 DEF AgentInv, Rendezvous
  <2>3. QED
    BY <2>2 DEF Held
<1>2. QED
  BY <1>1, Invariant, PTL

-----------------------------------------------------------------------------
(* The way of a call *)

\* No call that the agent makes while it serves returns early: s.running and
\* s.paused are as the way of the call supposes, whatever the other
\* speedtests and the probes do (scheduler.go:131, 135 and 180).
THEOREM CallsAreComplete ==
  ASSUME ~ResumeMayExpire
  PROVE  AgentSpec => CallsGoTheWholeWay
<1> DEFINE Step(t) ==
      /\ pc'[t] = FullCycle[pc[t]]
      /\ pc[t] \in {"pauseSend", "pauseWait", "resumeSend"} => next[t] > NumProbes
<1>1. ASSUME AgentInv, [AgentNext]_agentVars, ~cancelled, NEW t \in Threads,
             pc[t] \in DOMAIN FullCycle, pc'[t] # pc[t]
      PROVE  Step(t)
  <2> USE <1>1 DEF AgentInv, AgentTypeOK, SchedTypeOK
  <2>1. pc[t] \in CallLocations \ {"idle"}
    BY DEF FullCycle, CallLocations
  <2>2. main # "registered" /\ running
    BY <2>1 DEF NotStarted, Serving, CallLocations
  <2>3. /\ pc[t] = "pauseEnter" => ~paused
        /\ pc[t] = "resumeEnter" => paused
    BY DEF PausedIsHeld, Mutex, Inside, CallLocations
  <2>4. ~UNCHANGED agentVars /\ ~RunAppStep /\ ~Signal /\ ~Terminated
    BY <2>2 DEF agentVars, RunAppStep, StartAgent, StopAgent, StopReturns, Signal,
                Terminated, workerVars, schedVars, callVars
  <2>5. ~\E w \in Probes : WorkerStep(w)
    BY DEF WorkerStep, schedVars
  <2>6. ASSUME NEW u \in Threads, u # t,
               \/ TriggerFirst(u) \/ TriggerOnTick(u) \/ SpeedtestExit(u)
               \/ AcquireExclusive(u) \/ CallStep(u)
        PROVE  FALSE
    BY <2>6 DEF TriggerFirst, TriggerOnTick, SpeedtestExit, AcquireExclusive,
                LockExclusive, CallStep, PauseAllEnter, BroadcastPause, StartCollecting,
                CollectAck, PauseAllCancelled, PauseAllFinish, FinishExclusive,
                ResumeAllEnter, BroadcastResume, ResumeAllCancelled, ResumeAllFinish,
                UnlockExclusive, GoTo, PauseFails
  <2>7. ~TriggerFirst(t) /\ ~TriggerOnTick(t) /\ ~SpeedtestExit(t)
    BY <2>1 DEF TriggerFirst, TriggerOnTick, SpeedtestExit, CallLocations
  <2>8. CASE AcquireExclusive(t)
    BY <2>8 DEF AcquireExclusive, LockExclusive, GoTo, FullCycle
  <2>9. CASE CallStep(t)
    <3>1. ~PauseAllCancelled(t, cancelled, "resumeEnter")
      BY DEF PauseAllCancelled
    <3>2. ~ResumeAllCancelled(t, ResumeCtxDone(t), "unlock")
      <4>1. SUFFICES ASSUME pc[t] = "resumeSend", next[t] <= NumProbes
                     PROVE  ~ResumeCtxDone(t)
        BY DEF ResumeAllCancelled
      <4>2. next[t] \in Probes /\ ~(next[t] < next[t])
        BY <4>1, NumProbesAssumption DEF Probes
      <4>3. Held(next[t])
        BY <4>1, <4>2 DEF Rendezvous
      <4>4. QED
        BY <4>3 DEF ResumeCtxDone, SendBlocked, Held
    <3>3. ~BroadcastPause(t) /\ ~CollectAck(t) /\ ~BroadcastResume(t)
      BY DEF BroadcastPause, CollectAck, BroadcastResume
    <3>4. \/ PauseAllEnter(t, "run", "resumeEnter") \/ StartCollecting(t)
          \/ PauseAllFinish(t, "run") \/ FinishExclusive(t)
          \/ ResumeAllEnter(t, "unlock") \/ ResumeAllFinish(t, "unlock")
          \/ UnlockExclusive(t)
      BY <2>9, <3>1, <3>2, <3>3 DEF CallStep
    <3>5. QED
      <4> USE DEF GoTo, FullCycle
      <4>1. CASE PauseAllEnter(t, "run", "resumeEnter")
        BY <2>2, <2>3, <4>1 DEF PauseAllEnter
      <4>2. CASE ResumeAllEnter(t, "unlock")
        BY <2>2, <2>3, <4>2 DEF ResumeAllEnter
      <4>3. CASE StartCollecting(t) \/ PauseAllFinish(t, "run") \/ ResumeAllFinish(t, "unlock")
        BY <4>3 DEF StartCollecting, PauseAllFinish, ResumeAllFinish
      <4>4. CASE FinishExclusive(t) \/ UnlockExclusive(t)
        BY <4>4 DEF FinishExclusive, UnlockExclusive
      <4>5. QED
        BY <3>4, <4>1, <4>2, <4>3, <4>4
  <2>10. QED
    BY <2>4, <2>5, <2>6, <2>7, <2>8, <2>9 DEF AgentNext
<1>2. AgentInv /\ [AgentNext]_agentVars
        => [~cancelled =>
              \A t \in Threads :
                pc[t] \in DOMAIN FullCycle /\ pc'[t] # pc[t] => Step(t)]_agentVars
  BY <1>1
<1>3. QED
  BY <1>2, Invariant, PTL DEF AgentSpec, CallsGoTheWholeWay

=============================================================================
