------------------------- MODULE SchedulerAPIProofs -------------------------
(***************************************************************************)
(* Proofs about SchedulerAPI for every number of probes and every set of   *)
(* clients: type correctness; that fn has the network for itself from the  *)
(* first Start to the first Stop, whatever becomes of the contexts of the  *)
(* calls, if the clients call ExecuteExclusive only; that such clients get *)
(* what ExclusiveAccess promises, through every later run as well; and,    *)
(* where contexts do not end, that s.paused tells the truth between calls, *)
(* for one client that mixes all three methods and for any number of       *)
(* clients that only call ExecuteExclusive.                                *)
(***************************************************************************)
EXTENDS SchedulerAPI, TLAPS

-----------------------------------------------------------------------------
(* Type correctness *)

LEMMA OwnerStepType ==
  ASSUME APITypeOK, StartAPI \/ StopAPI \/ StopAPIReturns
  PROVE  APITypeOK'
<1> USE DEF APITypeOK, HandleTypeOK, WorkerTypeOK, SchedTypeOK, ProbeLocations
<1>1. CASE StartAPI
  <2>1. /\ UNCHANGED <<cmdChan, ackChan, exclusiveMu, pc, next, failed, call, ctxDone>>
        /\ running' = TRUE /\ paused' = FALSE /\ cancelled' = FALSE
        /\ owner' = "started" /\ probe' = [w \in Probes |-> "launched"]
    BY <1>1 DEF StartAPI, StartScheduler, handleVars, callVars, clientVars
  <2>2. starts' \in 0 .. MaxStarts
    BY <1>1, CallsAssumption DEF StartAPI
  <2>3. QED
    BY <2>1, <2>2
<1>2. CASE StopAPI
  BY <1>2 DEF StopAPI, StopScheduler, workerVars, callVars, clientVars
<1>3. CASE StopAPIReturns
  BY <1>3 DEF StopAPIReturns, workerVars, schedVars, clientVars
<1>4. QED
  BY <1>1, <1>2, <1>3

LEMMA APIWorkerStepType ==
  ASSUME APITypeOK, NEW w \in Probes, APIWorkerStep(w)
  PROVE  APITypeOK'
<1> USE DEF APITypeOK, HandleTypeOK, WorkerTypeOK, SchedTypeOK, APIWorkerStep,
            schedVars, ownerVars, clientVars, handleVars, Moves, TakeCommand,
            SendAck
<1>1. CASE FirstCheck(w)
  BY <1>1 DEF FirstCheck, ProbeLocations
<1>2. CASE FinishCheck(w)
  BY <1>2 DEF FinishCheck, ProbeLocations
<1>3. CASE Tick(w)
  BY <1>3 DEF Tick, ProbeLocations
<1>4. CASE ReceiveCommand(w)
  BY <1>4 DEF ReceiveCommand, ProbeLocations
<1>5. CASE Acknowledge(w)
  BY <1>5 DEF Acknowledge, ProbeLocations
<1>6. CASE ReceiveWhilePaused(w)
  BY <1>6 DEF ReceiveWhilePaused, ProbeLocations
<1>7. CASE ObserveCancel(w, cancelled)
  BY <1>7 DEF ObserveCancel, ProbeLocations
<1>8. QED
  BY <1>1, <1>2, <1>3, <1>4, <1>5, <1>6, <1>7 DEF ProbeStep

\* A call begins, its context ends, or it gets the lock.
LEMMA CallBeginsType ==
  ASSUME APITypeOK, NEW t \in Threads,
         (\E c \in Calls : Call(t, c)) \/ EndContext(t) \/ AcquireAPI(t)
  PROVE  APITypeOK'
<1> USE DEF APITypeOK, HandleTypeOK, WorkerTypeOK, SchedTypeOK, CallLocations,
            stateVars, workerVars, handleVars, ownerVars, clientVars, GoTo
<1>1. ASSUME NEW c \in Calls, Call(t, c)
      PROVE  APITypeOK'
  <2>1. c \in AllCalls /\ FirstLocation[c] \in {"lock", "pauseEnter", "resumeEnter"}
    BY CallsAssumption DEF AllCalls, FirstLocation
  <2>2. QED
    BY <1>1, <2>1 DEF Call
<1>2. CASE EndContext(t)
  BY <1>2 DEF EndContext, schedVars
<1>3. CASE AcquireAPI(t)
  BY <1>3 DEF AcquireAPI, LockExclusive
<1>4. QED
  BY <1>1, <1>2, <1>3

\* No loop of PauseAll and ResumeAll runs past the last handle.
LEMMA ClientStepType ==
  ASSUME APITypeOK, NEW t \in Threads, ClientStep(t)
  PROVE  APITypeOK'
<1> USE NumProbesAssumption
    DEF APITypeOK, HandleTypeOK, WorkerTypeOK, SchedTypeOK, CallLocations,
        Probes, Empty, stateVars, handleVars, GoTo, PauseFails
<1>0. UNCHANGED <<probe, owner, starts, call, ctxDone>>
  BY DEF ClientStep, ownerVars, clientVars
<1>a. /\ InExec(t, "run") \in CallLocations /\ InExec(t, "resumeEnter") \in CallLocations
      /\ InExec(t, "unlock") \in CallLocations
  BY DEF InExec
<1>1. CASE PauseAllEnter(t, InExec(t, "run"), InExec(t, "resumeEnter"))
  <2>1. pc' \in [Threads -> CallLocations]
    BY <1>1, <1>a DEF PauseAllEnter
  <2>2. /\ next' \in [Threads -> 1 .. NumProbes + 1]
        /\ failed' \in [Threads -> BOOLEAN]
    <3>1. CASE running /\ ~paused
      <4>1. next' = [next EXCEPT ![t] = 1] /\ failed' = failed
        BY <1>1, <3>1 DEF PauseAllEnter
      <4>2. QED
        BY <4>1
    <3>2. CASE ~running
      BY <1>1, <3>2 DEF PauseAllEnter
    <3>3. CASE running /\ paused
      BY <1>1, <3>3 DEF PauseAllEnter
    <3>4. QED
      BY <3>1, <3>2, <3>3
  <2>3. UNCHANGED <<running, paused, cancelled, exclusiveMu, cmdChan, ackChan>>
    BY <1>1 DEF PauseAllEnter
  <2>4. QED
    BY <1>0, <2>1, <2>2, <2>3
<1>2. CASE BroadcastPause(t)
  BY <1>0, <1>2 DEF BroadcastPause, SendCommand, CmdPause
<1>3. CASE StartCollecting(t)
  BY <1>0, <1>3 DEF StartCollecting
<1>4. CASE CollectAck(t)
  BY <1>0, <1>4 DEF CollectAck, TakeAck
<1>5. CASE PauseAllCancelled(t, ctxDone[t], InExec(t, "resumeEnter"))
  BY <1>0, <1>5, <1>a DEF PauseAllCancelled
<1>6. CASE PauseAllFinish(t, InExec(t, "run"))
  BY <1>0, <1>6, <1>a DEF PauseAllFinish
<1>7. CASE FinishExclusive(t)
  BY <1>0, <1>7 DEF FinishExclusive
<1>8. CASE ResumeAllEnter(t, InExec(t, "unlock"))
  <2>1. next' \in [Threads -> 1 .. NumProbes + 1]
    <3>1. next' = next \/ next' = [next EXCEPT ![t] = 1]
      BY <1>8 DEF ResumeAllEnter
    <3>2. CASE next' = next
      BY <3>2
    <3>3. CASE next' = [next EXCEPT ![t] = 1]
      BY <3>3
    <3>4. QED
      BY <3>1, <3>2, <3>3
  <2>2. pc' \in [Threads -> CallLocations]
    BY <1>8, <1>a DEF ResumeAllEnter
  <2>3. UNCHANGED <<running, paused, cancelled, exclusiveMu, failed, cmdChan, ackChan>>
    BY <1>8 DEF ResumeAllEnter
  <2>4. QED
    BY <1>0, <2>1, <2>2, <2>3
<1>9. CASE BroadcastResume(t)
  BY <1>0, <1>9 DEF BroadcastResume, SendCommand, CmdResume
<1>10. CASE ResumeAllCancelled(t, ResumeCtxDone(t), InExec(t, "unlock"))
  BY <1>0, <1>10, <1>a DEF ResumeAllCancelled
<1>11. CASE ResumeAllFinish(t, InExec(t, "unlock"))
  BY <1>0, <1>11, <1>a DEF ResumeAllFinish
<1>12. CASE UnlockExclusive(t)
  BY <1>0, <1>12 DEF UnlockExclusive
<1>13. QED
  BY <1>1, <1>2, <1>3, <1>4, <1>5, <1>6, <1>7, <1>8, <1>9, <1>10, <1>11,
     <1>12 DEF ClientStep

\* However the owner and the clients mix the methods, the scheduler never
\* leaves its types: no broadcast indexes a handle that is not there.
THEOREM APITypeCorrect == APISpec => []APITypeOK
<1>1. APIInit => APITypeOK
  <2>1. 1 \in 1 .. NumProbes + 1
    BY NumProbesAssumption
  <2>2. SchedInit /\ cancelled = FALSE => SchedTypeOK
    BY <2>1 DEF SchedInit, SchedTypeOK
  <2>3. HandleInit => HandleTypeOK
    BY DEF HandleInit, HandleTypeOK
  <2>4. 0 \in 0 .. MaxStarts /\ [Threads -> Calls] \subseteq [Threads -> AllCalls]
    BY CallsAssumption
  <2>5. QED
    BY <2>2, <2>3, <2>4
       DEF APIInit, WorkerInit, APITypeOK, WorkerTypeOK, ProbeLocations,
           CallLocations
<1>2. APITypeOK /\ [APINext]_apiVars => APITypeOK'
  <2>1. APITypeOK /\ UNCHANGED apiVars => APITypeOK'
    BY DEF apiVars, APITypeOK, HandleTypeOK, WorkerTypeOK, SchedTypeOK
  <2>2. QED
    BY <2>1, OwnerStepType, APIWorkerStepType, CallBeginsType, ClientStepType
       DEF APINext
<1>3. QED
  BY <1>1, <1>2, PTL DEF APISpec

-----------------------------------------------------------------------------
(* The inductive invariant.  A PauseAll that fails half way leaves commands *)
(* and ACKs behind, so the handles are in fewer definite states than those  *)
(* of Agent; what is left is that an ACK tells the truth.                   *)

\* Between the calls: an ACK waits only for a probe that is in its pauseLoop
\* and not being resumed.
Loose(w) ==
  /\ ackChan[w] => probe[w] = "paused"
  /\ cmdChan[w] = CmdResume => probe[w] = "paused" /\ ~ackChan[w]

\* The ACK of w has been collected.  A CmdPause of an earlier call may still
\* come, and w will ignore it.
Caught(w) == probe[w] = "paused" /\ ~ackChan[w] /\ cmdChan[w] # CmdResume

Inside == CallLocations \ {"idle", "lock"}

ExecOnly == \A t \in Threads : call[t] = "exec"

OneInside == \A t \in Threads : pc[t] \in Inside <=> exclusiveMu = t

\* Where a call has not failed, and where s.paused is set.
Unfailed ==
  \A t \in Threads :
    pc[t] \in {"pauseEnter", "pauseSend", "pauseWait", "run", "resumeSend"} =>
      ~failed[t]

Resuming(t) == pc[t] \in {"run", "resumeSend"} \/ (pc[t] = "resumeEnter" /\ ~failed[t])

PausedInside == paused <=> \E t \in Threads : Resuming(t)

\* Before the first Start nothing has been sent.
Untouched ==
  /\ ~running /\ ~paused /\ owner = "stopped"
  /\ \A w \in Probes : probe[w] = "registered" /\ cmdChan[w] = Empty /\ ~ackChan[w]
  /\ \A t \in Threads : pc[t] \notin {"pauseSend", "pauseWait", "run", "resumeSend"}

CaughtSoFar(t, w) ==
  /\ pc[t] = "pauseWait" /\ w < next[t] => Caught(w)
  /\ Resuming(t) /\ pc[t] # "resumeSend" => Caught(w)
  /\ pc[t] = "resumeSend" /\ w >= next[t] => Caught(w)

Serving ==
  /\ running /\ owner = "started"
  /\ \A w \in Probes : probe[w] # "registered"
  /\ \A w \in Probes : Loose(w)
  /\ \A t \in Threads, w \in Probes : CaughtSoFar(t, w)

NetInv ==
  /\ ExecOnly
  /\ OneInside
  /\ starts = 0 \/ FirstRun => Unfailed /\ PausedInside
  /\ starts = 0 => Untouched
  /\ FirstRun => Serving

-----------------------------------------------------------------------------
(* Its preservation *)

\* The methods return into ExecuteExclusive, and the lock keeps other calls
\* outside.
LEMMA OnlyOneInside ==
  ASSUME NetInv, NEW t \in Threads, pc[t] \in Inside
  PROVE  \A u \in Threads : u # t => pc[u] \notin Inside /\ ~Resuming(u)
BY DEF NetInv, OneInside, Resuming, Inside, CallLocations

LEMMA OwnerPreserves ==
  ASSUME APITypeOK, NetInv, StartAPI \/ StopAPI \/ StopAPIReturns
  PROVE  NetInv'
<1> USE DEF APITypeOK, SchedTypeOK
<1>1. UNCHANGED <<exclusiveMu, pc, next, failed, call>>
  BY DEF StartAPI, StopAPI, StopAPIReturns, callVars, schedVars, clientVars
<1>2. ExecOnly' /\ OneInside'
  BY <1>1 DEF NetInv, ExecOnly, OneInside
<1>3. CASE StartAPI
  <2>1. /\ starts' = starts + 1 /\ owner' = "started" /\ running' /\ ~paused'
        /\ UNCHANGED <<cmdChan, ackChan>> /\ probe' = [w \in Probes |-> "launched"]
    BY <1>3 DEF StartAPI, StartScheduler, handleVars
  <2>2. CASE starts = 0
    <3>1. Untouched /\ Unfailed /\ PausedInside
      BY <2>2 DEF NetInv
    <3>2. \A t \in Threads : ~Resuming(t)
      BY <3>1 DEF Untouched, PausedInside
    <3>3. Unfailed' /\ PausedInside'
      BY <1>1, <2>1, <3>1, <3>2 DEF Unfailed, PausedInside, Resuming
    <3>4. \A t \in Threads, w \in Probes : CaughtSoFar(t, w)'
      BY <1>1, <3>1, <3>2 DEF CaughtSoFar, Untouched, Resuming
    <3>5. \A w \in Probes : Loose(w)' /\ probe'[w] # "registered"
      BY <2>1, <3>1 DEF Untouched, Loose, Empty, CmdResume
    <3>6. Serving'
      BY <2>1, <3>4, <3>5 DEF Serving
    <3>7. QED
      BY <1>2, <2>1, <2>2, <3>3, <3>6 DEF NetInv
  <2>3. CASE starts # 0
    BY <1>2, <2>1, <2>3 DEF NetInv, FirstRun
  <2>4. QED
    BY <2>2, <2>3
<1>4. CASE StopAPI \/ StopAPIReturns
  <2>1. starts' = starts /\ starts # 0 /\ ~FirstRun'
    BY <1>4 DEF StopAPI, StopScheduler, StopAPIReturns, schedVars, NetInv, Untouched,
                FirstRun, Serving
  <2>2. QED
    BY <1>2, <2>1 DEF NetInv
<1>5. QED
  BY <1>3, <1>4

\* A probe never acknowledges a pause that it leaves again on its own.
LEMMA WorkerKeepsNet ==
  ASSUME APITypeOK, NetInv, NEW w \in Probes, APIWorkerStep(w)
  PROVE  NetInv'
<1>1. UNCHANGED <<exclusiveMu, pc, next, failed, call, running, paused, cancelled,
                  owner, starts>>
  BY DEF APIWorkerStep, schedVars, ownerVars, clientVars
<1>2. ExecOnly' /\ OneInside' /\ (Unfailed => Unfailed') /\ (PausedInside => PausedInside')
  BY <1>1 DEF NetInv, ExecOnly, OneInside, Unfailed, PausedInside, Resuming
<1>3. CASE starts = 0
  <2>1. probe[w] = "registered"
    BY <1>3 DEF NetInv, Untouched
  <2>2. QED
    BY <2>1 DEF APIWorkerStep, ProbeStep, FirstCheck, FinishCheck, Tick, Moves,
                ReceiveCommand, Acknowledge, ReceiveWhilePaused, ObserveCancel
<1>4. CASE FirstRun
  <2> USE DEF APITypeOK, HandleTypeOK, WorkerTypeOK, ProbeLocations, Loose, Caught,
              Moves, TakeCommand, SendAck, handleVars, Empty, CmdPause, CmdResume
  <2>1. \A v \in Probes : Loose(v) /\ probe[v] # "registered"
    BY <1>4 DEF NetInv, Serving
  <2>2. ~cancelled
    BY <1>4 DEF FirstRun
  <2>3. \A v \in Probes : /\ Loose(v)' /\ probe'[v] # "registered"
                          /\ Caught(v) => Caught(v)'
    <3>1. CASE FirstCheck(w) \/ FinishCheck(w) \/ Tick(w)
      BY <2>1, <3>1 DEF FirstCheck, FinishCheck, Tick
    <3>2. CASE ReceiveCommand(w)
      BY <2>1, <3>2 DEF ReceiveCommand
    <3>3. CASE Acknowledge(w)
      BY <2>1, <3>3 DEF Acknowledge
    <3>4. CASE ReceiveWhilePaused(w)
      BY <2>1, <3>4 DEF ReceiveWhilePaused
    <3>5. QED
      BY <2>2, <3>1, <3>2, <3>3, <3>4 DEF APIWorkerStep, ProbeStep, ObserveCancel
  <2> HIDE DEF Loose, Caught
  <2>4. Serving'
    BY <1>1, <1>4, <2>3 DEF NetInv, Serving, CaughtSoFar, Resuming
  <2>5. QED
    BY <1>1, <1>2, <1>4, <2>4 DEF NetInv, FirstRun
<1>5. CASE ~(starts = 0 \/ FirstRun)
  BY <1>1, <1>2, <1>5 DEF NetInv, FirstRun
<1>6. QED
  BY <1>3, <1>4, <1>5

\* A call begins, its context ends, or it gets the lock.
LEMMA CallBeginKeepsNet ==
  ASSUME APITypeOK, NetInv, Calls = {"exec"}, NEW t \in Threads,
         (\E c \in Calls : Call(t, c)) \/ EndContext(t) \/ AcquireAPI(t)
  PROVE  NetInv'
<1> USE DEF APITypeOK, SchedTypeOK, GoTo
<1>1. UNCHANGED <<running, paused, cancelled, owner, starts, probe, cmdChan, ackChan, next>>
  BY DEF Call, EndContext, AcquireAPI, LockExclusive, stateVars, workerVars, handleVars,
         schedVars, ownerVars
<1>2. \/ pc' = pc /\ failed' = failed /\ exclusiveMu' = exclusiveMu
      \/ /\ pc[t] = "idle" /\ pc' = [pc EXCEPT ![t] = "lock"]
         /\ failed' = failed /\ exclusiveMu' = exclusiveMu
      \/ /\ pc[t] = "lock" /\ pc' = [pc EXCEPT ![t] = "pauseEnter"]
         /\ failed' = [failed EXCEPT ![t] = FALSE]
         /\ exclusiveMu = NoThread /\ exclusiveMu' = t
  BY DEF Call, EndContext, AcquireAPI, LockExclusive, FirstLocation, schedVars
<1>3. ExecOnly'
  BY DEF NetInv, ExecOnly, Call, EndContext, AcquireAPI, clientVars
<1>4. OneInside'
  BY <1>2, NoThreadAssumption DEF NetInv, OneInside, Inside, CallLocations
<1>5. Unfailed => Unfailed'
  BY <1>2 DEF Unfailed
<1>6. \A u \in Threads : /\ Resuming(u)' <=> Resuming(u)
                         /\ pc'[u] = "pauseWait" <=> pc[u] = "pauseWait"
                         /\ pc'[u] = "resumeSend" <=> pc[u] = "resumeSend"
                         /\ pc'[u] = "pauseSend" <=> pc[u] = "pauseSend"
                         /\ pc'[u] = "run" <=> pc[u] = "run"
  BY <1>2 DEF Resuming
<1>7. PausedInside => PausedInside'
  BY <1>1, <1>6 DEF PausedInside
<1>8. Untouched => Untouched'
  BY <1>1, <1>6 DEF Untouched
<1>9. Serving => Serving'
  BY <1>1, <1>6 DEF Serving, CaughtSoFar, Loose, Caught
<1>10. QED
  BY <1>1, <1>3, <1>4, <1>5, <1>7, <1>8, <1>9 DEF NetInv, FirstRun

\* A step of a call, with the places it returns to.
ExecStep(t) ==
  \/ PauseAllEnter(t, "run", "resumeEnter")
  \/ BroadcastPause(t)
  \/ StartCollecting(t)
  \/ CollectAck(t)
  \/ PauseAllCancelled(t, ctxDone[t], "resumeEnter")
  \/ PauseAllFinish(t, "run")
  \/ FinishExclusive(t)
  \/ ResumeAllEnter(t, "unlock")
  \/ BroadcastResume(t)
  \/ ResumeAllCancelled(t, ResumeCtxDone(t), "unlock")
  \/ ResumeAllFinish(t, "unlock")
  \/ UnlockExclusive(t)

LEMMA ClientStepIsExec ==
  ASSUME NetInv, NEW t \in Threads, ClientStep(t)
  PROVE  ExecStep(t) /\ UNCHANGED <<probe, owner, starts, call, ctxDone>>
<1>1. call[t] = "exec"
  BY DEF NetInv, ExecOnly
<1>2. /\ InExec(t, "run") = "run" /\ InExec(t, "resumeEnter") = "resumeEnter"
      /\ InExec(t, "unlock") = "unlock"
  BY <1>1 DEF InExec
<1>3. QED
  BY <1>2 DEF ClientStep, ExecStep, ownerVars, clientVars

\* Only the owner of the lock moves, and only it stops being inside.
LEMMA ExecKeepsLock ==
  ASSUME APITypeOK, NetInv, NEW t \in Threads, ExecStep(t)
  PROVE  /\ OneInside' /\ UNCHANGED <<running, cancelled>>
         /\ pc[t] \in Inside /\ \A u \in Threads : u # t => pc'[u] = pc[u]
<1> USE NoThreadAssumption DEF APITypeOK, SchedTypeOK, GoTo, PauseFails, stateVars
<1>1. CASE UnlockExclusive(t)
  BY <1>1 DEF UnlockExclusive, NetInv, OneInside, Inside, CallLocations
<1>2. ASSUME ~UnlockExclusive(t)
      PROVE  /\ pc[t] \in Inside /\ exclusiveMu' = exclusiveMu
             /\ UNCHANGED <<running, cancelled>>
             /\ pc' = pc \/ \E loc \in Inside : pc' = [pc EXCEPT ![t] = loc]
  BY <1>2 DEF ExecStep, PauseAllEnter, BroadcastPause, StartCollecting, CollectAck,
              PauseAllCancelled, PauseAllFinish, FinishExclusive, ResumeAllEnter,
              BroadcastResume, ResumeAllCancelled, ResumeAllFinish, Inside, CallLocations
<1>3. QED
  BY <1>1, <1>2 DEF NetInv, OneInside

\* Before the first Start a call fails at once and resumes nobody.
LEMMA ExecBeforeStart ==
  ASSUME APITypeOK, NetInv, starts = 0, NEW t \in Threads, ExecStep(t),
         UNCHANGED <<probe, owner, starts, call, ctxDone>>
  PROVE  Untouched' /\ Unfailed' /\ PausedInside'
<1> USE DEF APITypeOK, SchedTypeOK, GoTo, PauseFails, stateVars, handleVars
<1>1. Untouched /\ Unfailed /\ PausedInside
  BY DEF NetInv
<1>2. \A u \in Threads : pc[u] = "resumeEnter" => failed[u]
  BY <1>1 DEF Untouched, PausedInside, Resuming
<1>3. \/ PauseAllEnter(t, "run", "resumeEnter") \/ ResumeAllEnter(t, "unlock")
      \/ UnlockExclusive(t)
  BY <1>1 DEF ExecStep, Untouched, BroadcastPause, StartCollecting, CollectAck,
              PauseAllCancelled, PauseAllFinish, FinishExclusive, BroadcastResume,
              ResumeAllCancelled, ResumeAllFinish
<1>4. /\ UNCHANGED <<running, paused, cmdChan, ackChan>>
      /\ \/ pc' = [pc EXCEPT ![t] = "resumeEnter"] /\ failed' = [failed EXCEPT ![t] = TRUE]
         \/ pc' = [pc EXCEPT ![t] = "unlock"] /\ failed' = failed
         \/ pc' = [pc EXCEPT ![t] = "idle"] /\ failed' = failed
  BY <1>1, <1>3 DEF Untouched, PauseAllEnter, ResumeAllEnter, UnlockExclusive
<1>5. \A u \in Threads :
        /\ pc'[u] \notin {"pauseSend", "pauseWait", "run", "resumeSend"}
        /\ pc'[u] = "resumeEnter" => failed'[u]
        /\ pc'[u] = "pauseEnter" => ~failed'[u]
  BY <1>1, <1>2, <1>4 DEF Untouched, Unfailed
<1>6. Untouched'
  BY <1>1, <1>4, <1>5 DEF Untouched
<1>7. QED
  BY <1>5, <1>6 DEF Untouched, Unfailed, PausedInside, Resuming

\* What has to be shown of a step of t while the scheduler serves: of the
\* others nobody is inside.
LEMMA ServingStep ==
  ASSUME APITypeOK, NetInv, FirstRun, NEW t \in Threads, ExecStep(t),
         UNCHANGED <<probe, owner, starts, call, ctxDone>>,
         \A w \in Probes : Loose(w)' /\ CaughtSoFar(t, w)',
         (pc'[t] \in {"pauseEnter", "pauseSend", "pauseWait", "run", "resumeSend"}) =>
           ~failed'[t],
         \A u \in Threads : u # t => failed'[u] = failed[u],
         paused' <=> Resuming(t)'
  PROVE  Serving' /\ Unfailed' /\ PausedInside'
<1>1. /\ pc[t] \in Inside /\ \A u \in Threads : u # t => pc'[u] = pc[u]
      /\ UNCHANGED <<running, cancelled>>
  BY ExecKeepsLock
<1>2. \A u \in Threads : u # t => pc'[u] \notin Inside /\ ~Resuming(u)'
  BY <1>1, OnlyOneInside DEF Resuming, Inside, CallLocations
<1>3. \A u \in Threads, w \in Probes : CaughtSoFar(u, w)'
  BY <1>2 DEF CaughtSoFar, Inside, CallLocations
<1>4. Serving'
  BY <1>1, <1>3 DEF NetInv, Serving
<1>5. Unfailed'
  BY <1>2 DEF Unfailed, Inside, CallLocations
<1>6. PausedInside'
  BY <1>2 DEF PausedInside
<1>7. QED
  BY <1>4, <1>5, <1>6

\* The pause: commands are sent, ACKs collected, or the context ends.
LEMMA PauseWhileServing ==
  ASSUME APITypeOK, NetInv, FirstRun, NEW t \in Threads, ExecStep(t),
         UNCHANGED <<probe, owner, starts, call, ctxDone>>,
         \/ PauseAllEnter(t, "run", "resumeEnter")
         \/ BroadcastPause(t)
         \/ StartCollecting(t)
         \/ CollectAck(t)
         \/ PauseAllCancelled(t, ctxDone[t], "resumeEnter")
         \/ PauseAllFinish(t, "run")
  PROVE  Serving' /\ Unfailed' /\ PausedInside'
<1> USE NumProbesAssumption
    DEF APITypeOK, HandleTypeOK, SchedTypeOK, GoTo, PauseFails, stateVars, handleVars,
        Probes
<1>1. Serving /\ Unfailed /\ PausedInside
  BY DEF NetInv, FirstRun
<1>2. running /\ \A w \in Probes : Loose(w) /\ CaughtSoFar(t, w)
  BY <1>1 DEF Serving
<1>3. pc[t] \in {"pauseEnter", "pauseSend", "pauseWait"} /\ ~failed[t]
  BY <1>1 DEF Unfailed, PauseAllEnter, BroadcastPause, StartCollecting, CollectAck,
              PauseAllCancelled, PauseAllFinish
<1>4. ~paused
  BY <1>1, <1>3, OnlyOneInside DEF PausedInside, Resuming, Inside, CallLocations
<1>5. CASE PauseAllEnter(t, "run", "resumeEnter")
  <2>1. /\ pc' = [pc EXCEPT ![t] = "pauseSend"] /\ UNCHANGED <<failed, paused, cmdChan, ackChan>>
    BY <1>2, <1>4, <1>5 DEF PauseAllEnter
  <2>2. \A w \in Probes : Loose(w)' /\ CaughtSoFar(t, w)'
    BY <1>2, <2>1 DEF Loose, CaughtSoFar, Resuming
  <2>3. QED
    BY <1>3, <1>4, <2>1, <2>2, ServingStep DEF Resuming
<1>6. CASE BroadcastPause(t)
  <2>1. /\ pc' = pc /\ pc[t] = "pauseSend" /\ UNCHANGED <<failed, paused, ackChan>>
        /\ cmdChan' = [cmdChan EXCEPT ![next[t]] = CmdPause]
    BY <1>6 DEF BroadcastPause, SendCommand
  <2>2. \A w \in Probes : Loose(w)' /\ CaughtSoFar(t, w)'
    BY <1>2, <2>1 DEF Loose, CaughtSoFar, Resuming, CmdPause, CmdResume
  <2>3. QED
    BY <1>3, <1>4, <2>1, <2>2, ServingStep DEF Resuming
<1>7. CASE StartCollecting(t)
  <2>1. /\ pc' = [pc EXCEPT ![t] = "pauseWait"] /\ next' = [next EXCEPT ![t] = 1]
        /\ UNCHANGED <<failed, paused, cmdChan, ackChan>>
    BY <1>7 DEF StartCollecting
  <2>2. \A w \in Probes : Loose(w)' /\ CaughtSoFar(t, w)'
    BY <1>2, <2>1 DEF Loose, CaughtSoFar, Resuming
  <2>3. QED
    BY <1>3, <1>4, <2>1, <2>2, ServingStep DEF Resuming
<1>8. CASE CollectAck(t)
  <2>1. /\ pc' = pc /\ pc[t] = "pauseWait" /\ UNCHANGED <<failed, paused, cmdChan>>
        /\ next[t] \in Probes /\ ackChan[next[t]]
        /\ ackChan' = [ackChan EXCEPT ![next[t]] = FALSE]
        /\ next' = [next EXCEPT ![t] = next[t] + 1]
    BY <1>8 DEF CollectAck, TakeAck
  <2>2. \A w \in Probes : Loose(w)' /\ (w < next'[t] => Caught(w)')
    <3> SUFFICES ASSUME NEW w \in Probes PROVE Loose(w)' /\ (w < next'[t] => Caught(w)')
      OBVIOUS
    <3>1. CASE w = next[t]
      BY <1>2, <2>1, <3>1 DEF Loose, Caught
    <3>2. CASE w # next[t]
      BY <1>2, <2>1, <3>2 DEF Loose, Caught, CaughtSoFar
    <3>3. QED
      BY <3>1, <3>2
  <2>3. \A w \in Probes : CaughtSoFar(t, w)'
    BY <2>1, <2>2 DEF CaughtSoFar, Resuming
  <2>4. QED
    BY <1>3, <1>4, <2>1, <2>2, <2>3, ServingStep DEF Resuming
<1>9. CASE PauseAllCancelled(t, ctxDone[t], "resumeEnter")
  <2>1. /\ pc' = [pc EXCEPT ![t] = "resumeEnter"] /\ failed' = [failed EXCEPT ![t] = TRUE]
        /\ UNCHANGED <<paused, cmdChan, ackChan>>
    BY <1>9 DEF PauseAllCancelled
  <2>2. \A w \in Probes : Loose(w)' /\ CaughtSoFar(t, w)'
    BY <1>2, <2>1 DEF Loose, CaughtSoFar, Resuming
  <2>3. QED
    BY <1>4, <2>1, <2>2, ServingStep DEF Resuming
<1>10. CASE PauseAllFinish(t, "run")
  <2>1. /\ pc[t] = "pauseWait" /\ next[t] > NumProbes /\ pc' = [pc EXCEPT ![t] = "run"]
        /\ paused' /\ UNCHANGED <<failed, cmdChan, ackChan>>
    BY <1>10 DEF PauseAllFinish
  <2>2. \A w \in Probes : Caught(w)
    BY <1>2, <2>1 DEF CaughtSoFar
  <2>3. \A w \in Probes : Loose(w)' /\ CaughtSoFar(t, w)'
    BY <2>1, <2>2 DEF Loose, Caught, CaughtSoFar
  <2>4. QED
    BY <1>3, <2>1, <2>3, ServingStep DEF Resuming
<1>11. QED
  BY <1>5, <1>6, <1>7, <1>8, <1>9, <1>10

\* The resume: a probe that is held takes its command without delay, so that
\* the five seconds never elapse; after a failed pause there is nothing to do.
LEMMA ResumeWhileServing ==
  ASSUME APITypeOK, NetInv, FirstRun, NEW t \in Threads, ExecStep(t),
         UNCHANGED <<probe, owner, starts, call, ctxDone>>,
         \/ FinishExclusive(t)
         \/ ResumeAllEnter(t, "unlock")
         \/ BroadcastResume(t)
         \/ ResumeAllCancelled(t, ResumeCtxDone(t), "unlock")
         \/ ResumeAllFinish(t, "unlock")
         \/ UnlockExclusive(t)
  PROVE  Serving' /\ Unfailed' /\ PausedInside'
<1> USE NumProbesAssumption
    DEF APITypeOK, HandleTypeOK, SchedTypeOK, GoTo, stateVars, handleVars, Probes
<1>1. Serving /\ Unfailed /\ PausedInside
  BY DEF NetInv, FirstRun
<1>2. running /\ \A w \in Probes : Loose(w) /\ CaughtSoFar(t, w)
  BY <1>1 DEF Serving
<1>3. paused <=> Resuming(t)
  <2>1. pc[t] \in Inside
    BY ExecKeepsLock
  <2>2. QED
    BY <1>1, <2>1, OnlyOneInside DEF PausedInside
<1>4. CASE FinishExclusive(t)
  <2>1. /\ pc[t] = "run" /\ pc' = [pc EXCEPT ![t] = "resumeEnter"] /\ ~failed[t]
        /\ UNCHANGED <<failed, paused, cmdChan, ackChan>>
    BY <1>1, <1>4 DEF FinishExclusive, Unfailed
  <2>2. \A w \in Probes : Loose(w)' /\ CaughtSoFar(t, w)'
    BY <1>2, <2>1 DEF Loose, Caught, CaughtSoFar, Resuming
  <2>3. QED
    BY <1>3, <2>1, <2>2, ServingStep DEF Resuming
<1>5. CASE ResumeAllEnter(t, "unlock")
  <2>1. CASE paused
    <3>1. /\ pc[t] = "resumeEnter" /\ pc' = [pc EXCEPT ![t] = "resumeSend"] /\ ~failed[t]
          /\ UNCHANGED <<failed, paused, cmdChan, ackChan>>
      BY <1>2, <1>3, <1>5, <2>1 DEF ResumeAllEnter, Resuming
    <3>2. \A w \in Probes : Loose(w)' /\ CaughtSoFar(t, w)'
      BY <1>2, <3>1 DEF Loose, Caught, CaughtSoFar, Resuming
    <3>3. QED
      BY <2>1, <3>1, <3>2, ServingStep DEF Resuming
  <2>2. CASE ~paused
    <3>1. /\ pc' = [pc EXCEPT ![t] = "unlock"]
          /\ UNCHANGED <<failed, paused, cmdChan, ackChan>>
      BY <1>5, <2>2 DEF ResumeAllEnter
    <3>2. \A w \in Probes : Loose(w)' /\ CaughtSoFar(t, w)'
      BY <1>2, <3>1 DEF Loose, CaughtSoFar, Resuming
    <3>3. QED
      BY <2>2, <3>1, <3>2, ServingStep DEF Resuming
  <2>3. QED
    BY <2>1, <2>2
<1>6. CASE BroadcastResume(t)
  <2>1. /\ pc' = pc /\ pc[t] = "resumeSend" /\ UNCHANGED <<failed, paused, ackChan>>
        /\ next[t] \in Probes
        /\ cmdChan' = [cmdChan EXCEPT ![next[t]] = CmdResume]
        /\ next' = [next EXCEPT ![t] = next[t] + 1]
    BY <1>6 DEF BroadcastResume, SendCommand
  <2>2. \A w \in Probes : w >= next[t] => Caught(w)
    BY <1>2, <2>1 DEF CaughtSoFar
  <2>3. \A w \in Probes : Loose(w)' /\ (w > next[t] => Caught(w)')
    <3> SUFFICES ASSUME NEW w \in Probes PROVE Loose(w)' /\ (w > next[t] => Caught(w)')
      OBVIOUS
    <3>1. CASE w = next[t]
      BY <2>1, <2>2, <3>1 DEF Loose, Caught, CmdResume
    <3>2. CASE w # next[t]
      BY <1>2, <2>1, <2>2, <3>2 DEF Loose, Caught
    <3>3. QED
      BY <3>1, <3>2
  <2>4. \A w \in Probes : CaughtSoFar(t, w)'
    BY <2>1, <2>3 DEF CaughtSoFar, Resuming
  <2>5. QED
    BY <1>1, <1>3, <2>1, <2>3, <2>4, ServingStep DEF Resuming, Unfailed
<1>7. CASE ResumeAllCancelled(t, ResumeCtxDone(t), "unlock")
  <2>1. /\ pc[t] = "resumeSend" /\ next[t] \in Probes /\ probe[next[t]] # "paused"
    BY <1>7 DEF ResumeAllCancelled, ResumeCtxDone, SendBlocked, NetInv, ExecOnly
  <2>2. Caught(next[t])
    BY <1>2, <2>1 DEF CaughtSoFar
  <2>3. QED
    BY <2>1, <2>2 DEF Caught
<1>8. CASE ResumeAllFinish(t, "unlock")
  <2>1. /\ pc' = [pc EXCEPT ![t] = "unlock"] /\ ~paused'
        /\ UNCHANGED <<failed, cmdChan, ackChan>>
    BY <1>8 DEF ResumeAllFinish
  <2>2. \A w \in Probes : Loose(w)' /\ CaughtSoFar(t, w)'
    BY <1>2, <2>1 DEF Loose, CaughtSoFar, Resuming
  <2>3. QED
    BY <2>1, <2>2, ServingStep DEF Resuming
<1>9. CASE UnlockExclusive(t)
  <2>1. /\ pc[t] = "unlock" /\ pc' = [pc EXCEPT ![t] = "idle"]
        /\ UNCHANGED <<failed, paused, cmdChan, ackChan>>
    BY <1>9 DEF UnlockExclusive
  <2>2. \A w \in Probes : Loose(w)' /\ CaughtSoFar(t, w)'
    BY <1>2, <2>1 DEF Loose, CaughtSoFar, Resuming
  <2>3. QED
    BY <1>3, <2>1, <2>2, ServingStep DEF Resuming
<1>10. QED
  BY <1>4, <1>5, <1>6, <1>7, <1>8, <1>9

LEMMA ClientKeepsNet ==
  ASSUME APITypeOK, NetInv, NEW t \in Threads, ClientStep(t)
  PROVE  NetInv'
<1>1. ExecStep(t) /\ UNCHANGED <<probe, owner, starts, call, ctxDone>>
  BY ClientStepIsExec
<1>2. OneInside' /\ UNCHANGED <<running, cancelled>>
  BY <1>1, ExecKeepsLock
<1>3. ExecOnly'
  BY <1>1 DEF NetInv, ExecOnly
<1>4. starts = 0 => Untouched' /\ Unfailed' /\ PausedInside'
  BY <1>1, ExecBeforeStart
<1>5. FirstRun => Serving' /\ Unfailed' /\ PausedInside'
  BY <1>1, PauseWhileServing, ResumeWhileServing DEF ExecStep
<1>6. starts' = starts /\ (FirstRun' <=> FirstRun)
  BY <1>1, <1>2 DEF FirstRun
<1>7. QED
  BY <1>2, <1>3, <1>4, <1>5, <1>6 DEF NetInv

LEMMA NetInvAlways ==
  ASSUME Calls = {"exec"}
  PROVE  APISpec => []NetInv
<1>1. APIInit => NetInv
  BY NoThreadAssumption
     DEF APIInit, HandleInit, WorkerInit, SchedInit, NetInv, ExecOnly, OneInside, Inside,
         Unfailed, PausedInside, Resuming, Untouched, FirstRun
<1>2. APITypeOK /\ NetInv /\ [APINext]_apiVars => NetInv'
  <2>1. ASSUME NetInv, UNCHANGED apiVars
        PROVE  NetInv'
    BY <2>1 DEF apiVars, NetInv, ExecOnly, OneInside, Unfailed, PausedInside, Resuming,
                Untouched, FirstRun, Serving, CaughtSoFar, Loose, Caught
  <2>2. QED
    BY <2>1, OwnerPreserves, WorkerKeepsNet, CallBeginKeepsNet, ClientKeepsNet DEF APINext
<1>3. QED
  BY <1>1, <1>2, APITypeCorrect, PTL DEF APISpec

\* For every number of probes and clients: whichever contexts end half way
\* through a pause, and whatever earlier calls have left in the channels, fn
\* runs only while every probe is paused (scheduler.go:209, FR4).
THEOREM FnHasTheNetworkForItself ==
  ASSUME Calls = {"exec"}
  PROVE  APISpec => []FnHasTheNetwork
<1>1. NetInv => FnHasTheNetwork
  BY DEF NetInv, Serving, CaughtSoFar, Resuming, Caught, FnHasTheNetwork
<1>2. QED
  BY <1>1, NetInvAlways, PTL

-----------------------------------------------------------------------------
(* The clients of ExecuteExclusive get what ExclusiveAccess promises.  The  *)
(* argument uses NetInv twice, like that of the agent: when a check begins  *)
(* and when fn begins.                                                      *)

\* The state of ExclusiveAccess that the scheduler is in.
Measuring == {w \in Probes : probe[w] = "check"}
InFn == {t \in Threads : pc[t] = "run"}
Phase == IF starts = 0 \/ FirstRun THEN "open" ELSE "closing"

\* What the abstract next-state relation offers to such a state; it is never
\* "closed", since the scheduler may be started again.
LEMMA AccessSteps ==
  ASSUME \/ UNCHANGED <<Measuring, InFn, Phase>>
         \/ \E p \in Probes :
              \/ /\ Phase = "open" => InFn = {}
                 /\ Measuring' = Measuring \cup {p}
                 /\ UNCHANGED <<InFn, Phase>>
              \/ Measuring' = Measuring \ {p} /\ UNCHANGED <<InFn, Phase>>
         \/ \E t \in Threads :
              /\ InFn = {}
              /\ Phase = "open" => Measuring = {}
              /\ InFn' = {t}
              /\ UNCHANGED <<Measuring, Phase>>
         \/ \E t \in Threads :
              InFn' = InFn \ {t} /\ UNCHANGED <<Measuring, Phase>>
         \/ Phase = "open" /\ Phase' = "closing" /\ UNCHANGED <<Measuring, InFn>>
  PROVE  Access!AccessNext \/ UNCHANGED Access!accessVars
<1>1. Phase # "closed"
  BY DEF Phase
<1>2. QED
  BY <1>1 DEF Access!AccessNext, Access!BeginMeasurement, Access!EndMeasurement,
       Access!BeginTask, Access!EndTask, Access!BeginClosing, Access!Close,
       Access!accessVars, Measuring, InFn, Phase

\* While the scheduler is stopped no probe measures: a Start that gives the
\* probes new goroutines ends no check.
StoppedIsQuiet ==
  owner = "stopped" => \A w \in Probes : probe[w] \in {"registered", "exited"}

LEMMA StoppedIsQuietAlways == APISpec => []StoppedIsQuiet
<1>1. APIInit => StoppedIsQuiet
  BY DEF APIInit, WorkerInit, StoppedIsQuiet
<1>2. APITypeOK /\ StoppedIsQuiet /\ [APINext]_apiVars => StoppedIsQuiet'
  <2> SUFFICES ASSUME APITypeOK, StoppedIsQuiet, [APINext]_apiVars
               PROVE  StoppedIsQuiet'
    OBVIOUS
  <2>1. CASE StartAPI \/ StopAPI \/ StopAPIReturns
    BY <2>1 DEF StartAPI, StopAPI, StopAPIReturns, StoppedIsQuiet, workerVars
  <2>2. ASSUME NEW t \in Threads,
               (\E c \in Calls : Call(t, c)) \/ EndContext(t) \/ AcquireAPI(t) \/ ClientStep(t)
        PROVE  StoppedIsQuiet'
    BY <2>2 DEF Call, EndContext, AcquireAPI, ClientStep, ownerVars, workerVars, StoppedIsQuiet
  <2>3. ASSUME NEW w \in Probes, APIWorkerStep(w)
        PROVE  StoppedIsQuiet'
    BY <2>3 DEF APIWorkerStep, ProbeStep, FirstCheck, FinishCheck, Tick, ReceiveCommand,
                Acknowledge, ReceiveWhilePaused, ObserveCancel, Moves, ownerVars,
                StoppedIsQuiet, APITypeOK, WorkerTypeOK
  <2>4. CASE UNCHANGED apiVars
    BY <2>4 DEF apiVars, StoppedIsQuiet
  <2>5. QED
    BY <2>1, <2>2, <2>3, <2>4 DEF APINext
<1>3. QED
  BY <1>1, <1>2, APITypeCorrect, PTL DEF APISpec

\* The first Stop lets the promise lapse; nothing else of the owner is seen.
LEMMA OwnerSimulates ==
  ASSUME APITypeOK, NetInv, StoppedIsQuiet, StartAPI \/ StopAPI \/ StopAPIReturns
  PROVE  Access!AccessNext \/ UNCHANGED Access!accessVars
<1>1. InFn' = InFn
  BY DEF StartAPI, StopAPI, StopAPIReturns, callVars, schedVars, InFn
<1>2. CASE StartAPI
  <2>1. /\ owner = "stopped" /\ starts' = starts + 1 /\ ~cancelled'
        /\ probe' = [w \in Probes |-> "launched"]
    BY <1>2 DEF StartAPI, StartScheduler
  <2>2. Measuring' = Measuring
    BY <2>1 DEF Measuring, StoppedIsQuiet
  <2>3. starts = 0 <=> starts' = 1
    BY <2>1, CallsAssumption DEF APITypeOK
  <2>4. starts' # 0 /\ ~FirstRun
    BY <2>1, CallsAssumption DEF APITypeOK, NetInv, Serving
  <2>5. Phase' = Phase
    BY <2>1, <2>3, <2>4 DEF Phase, FirstRun
  <2>6. QED
    BY <1>1, <2>2, <2>5, AccessSteps
<1>3. CASE StopAPI
  <2>1. /\ starts' = starts /\ starts # 0 /\ cancelled'
        /\ Measuring' = Measuring
    BY <1>3 DEF StopAPI, StopScheduler, workerVars, Measuring, NetInv, Untouched
  <2>2. Phase' = "closing" /\ Phase \in {"open", "closing"}
    BY <2>1 DEF Phase, FirstRun
  <2>3. QED
    BY <1>1, <2>1, <2>2, AccessSteps
<1>4. CASE StopAPIReturns
  <2>1. UNCHANGED <<Measuring, Phase>>
    BY <1>4 DEF StopAPIReturns, workerVars, schedVars, Measuring, Phase, FirstRun
  <2>2. QED
    BY <1>1, <2>1, AccessSteps
<1>5. QED
  BY <1>2, <1>3, <1>4

\* A step of a probe begins a measurement, ends one, or is not seen.
LEMMA WorkerSimulates ==
  ASSUME APITypeOK, NetInv, NEW w \in Probes, APIWorkerStep(w)
  PROVE  Access!AccessNext \/ UNCHANGED Access!accessVars
<1> USE DEF APITypeOK, WorkerTypeOK
<1>1. UNCHANGED <<InFn, Phase>>
  BY DEF APIWorkerStep, schedVars, ownerVars, InFn, Phase, FirstRun
<1>2. CASE FirstCheck(w) \/ Tick(w)
  <2>1. /\ probe[w] \in {"launched", "select"}
        /\ probe' = [probe EXCEPT ![w] = "check"]
    BY <1>2 DEF FirstCheck, Tick, Moves
  <2>2. Measuring' = Measuring \cup {w}
    BY <2>1 DEF Measuring
  <2>3. Phase = "open" => \A t \in Threads : pc[t] # "run"
    BY <2>1 DEF Phase, NetInv, Untouched, Serving, CaughtSoFar, Resuming, Caught
  <2>4. Phase = "open" => InFn = {}
    BY <2>3 DEF InFn
  <2>5. QED
    BY <1>1, <2>2, <2>4, AccessSteps
<1>3. CASE FinishCheck(w)
  <2>1. Measuring' = Measuring \ {w}
    BY <1>3 DEF FinishCheck, Moves, Measuring
  <2>2. QED
    BY <1>1, <2>1, AccessSteps
<1>4. CASE \/ ReceiveCommand(w) \/ Acknowledge(w)
           \/ ReceiveWhilePaused(w) \/ ObserveCancel(w, cancelled)
  <2>1. /\ probe[w] # "check"
        /\ \E loc \in ProbeLocations \ {"check"} :
             probe' = [probe EXCEPT ![w] = loc]
    BY <1>4 DEF ReceiveCommand, Acknowledge, ReceiveWhilePaused,
                ObserveCancel, Moves, ProbeLocations
  <2>2. Measuring' = Measuring
    BY <2>1 DEF Measuring
  <2>3. QED
    BY <1>1, <2>2, AccessSteps
<1>5. QED
  BY <1>2, <1>3, <1>4 DEF APIWorkerStep, ProbeStep

\* A step of a client begins a task, ends one, or is not seen.
LEMMA ClientSimulates ==
  ASSUME Calls = {"exec"}, APITypeOK, NetInv, NetInv', NEW t \in Threads,
         (\E c \in Calls : Call(t, c)) \/ EndContext(t) \/ AcquireAPI(t) \/ ClientStep(t)
  PROVE  Access!AccessNext \/ UNCHANGED Access!accessVars
<1> USE DEF APITypeOK
<1>1. /\ UNCHANGED <<probe, starts, cancelled>>
      /\ \E loc \in CallLocations : pc' = [pc EXCEPT ![t] = loc]
  <2>1. pc' = pc => pc' = [pc EXCEPT ![t] = pc[t]]
    OBVIOUS
  <2>2. CASE (\E c \in Calls : Call(t, c)) \/ EndContext(t) \/ AcquireAPI(t)
    BY <2>1, <2>2 DEF Call, FirstLocation, EndContext, AcquireAPI, LockExclusive, GoTo,
                      CallLocations, stateVars, workerVars, schedVars, ownerVars
  <2>3. CASE ClientStep(t)
    <3>1. ExecStep(t) /\ UNCHANGED <<probe, owner, starts, call, ctxDone>>
      BY <2>3, ClientStepIsExec
    <3>2. UNCHANGED cancelled
      BY <3>1, ExecKeepsLock
    <3>3. \E loc \in CallLocations : pc' = [pc EXCEPT ![t] = loc]
      BY <2>1, <3>1
         DEF ExecStep, PauseAllEnter, BroadcastPause, StartCollecting, CollectAck,
             PauseAllCancelled, PauseAllFinish, FinishExclusive, ResumeAllEnter,
             BroadcastResume, ResumeAllCancelled, ResumeAllFinish, UnlockExclusive, GoTo,
             PauseFails, CallLocations
    <3>4. QED
      BY <3>1, <3>2, <3>3
  <2>4. QED
    BY <2>2, <2>3
<1>2. UNCHANGED <<Measuring, Phase>>
  BY <1>1 DEF Measuring, Phase, FirstRun
<1>3. \A u \in Threads : u # t => pc'[u] = pc[u]
  BY <1>1
<1>4. \A u \in Threads : pc'[t] = "run" /\ pc'[u] = "run" => u = t
  BY DEF NetInv, OneInside, Inside, CallLocations
<1>5. CASE pc[t] # "run" /\ pc'[t] # "run"
  <2>1. InFn' = InFn
    BY <1>3, <1>5 DEF InFn
  <2>2. QED
    BY <1>2, <2>1, AccessSteps
<1>6. CASE pc[t] = "run" /\ pc'[t] # "run"
  <2>1. InFn' = InFn \ {t}
    BY <1>3, <1>6 DEF InFn
  <2>2. QED
    BY <1>2, <2>1, AccessSteps
<1>7. CASE pc[t] # "run" /\ pc'[t] = "run"
  <2>1. InFn = {} /\ InFn' = {t}
    BY <1>3, <1>4, <1>7 DEF InFn
  <2>2. ASSUME Phase' = "open"
        PROVE  \A w \in Probes : probe'[w] = "paused"
    BY <1>7, <2>2 DEF Phase, NetInv, Untouched, Serving, CaughtSoFar, Resuming, Caught
  <2>3. Phase = "open" => Measuring = {}
    BY <1>1, <1>2, <2>2 DEF Measuring
  <2>4. QED
    BY <1>2, <2>1, <2>3, AccessSteps
<1>8. CASE pc[t] = "run" /\ pc'[t] = "run"
  <2>1. InFn' = InFn
    BY <1>3, <1>8 DEF InFn
  <2>2. QED
    BY <1>2, <2>1, AccessSteps
<1>9. QED
  BY <1>5, <1>6, <1>7, <1>8

\* For every number of probes, clients and starts, and contexts that end when
\* they like: what the scheduler does is what ExclusiveAccess allows.
THEOREM ClientsGetAccess ==
  ASSUME Calls = {"exec"}
  PROVE  APISpec => ClientsHaveAccess
<1>1. APIInit => Access!AccessInit
  BY DEF APIInit, WorkerInit, SchedInit, Access!AccessInit
<1>2. APITypeOK /\ NetInv /\ NetInv' /\ StoppedIsQuiet /\ [APINext]_apiVars
        => [Access!AccessNext]_(Access!accessVars)
  <2> SUFFICES ASSUME APITypeOK, NetInv, NetInv', StoppedIsQuiet, [APINext]_apiVars
               PROVE  Access!AccessNext \/ UNCHANGED Access!accessVars
    OBVIOUS
  <2>1. CASE UNCHANGED apiVars
    <3>1. UNCHANGED <<Measuring, InFn, Phase>>
      BY <2>1 DEF apiVars, Measuring, InFn, Phase, FirstRun
    <3>2. QED
      BY <3>1, AccessSteps
  <2>2. CASE APINext
    BY <2>2, OwnerSimulates, WorkerSimulates, ClientSimulates DEF APINext
  <2>3. QED
    BY <2>1, <2>2
<1>3. QED
  BY <1>1, <1>2, APITypeCorrect, NetInvAlways, StoppedIsQuietAlways, PTL
     DEF APISpec, ClientsHaveAccess, Access!AccessSpec

-----------------------------------------------------------------------------
(* One run and contexts that do not end: what PausedIsTruthful is about.    *)
(* Here the handles are in definite states again, whichever of the three    *)
(* methods one client mixes, and for any number of clients that only call   *)
(* ExecuteExclusive: in either case one call at a time touches the handles. *)

Patient ==
  /\ Calls = {"exec"} \/ \A t, u \in Threads : t = u
  /\ ~CtxMayEnd
  /\ MaxStarts = 1

Sending == {"pauseSend", "pauseWait", "resumeSend"}

OneBusy == \A t, u \in Threads : pc[t] \in Inside /\ pc[u] \in Inside => t = u

LEMMA OneBusyAlways ==
  ASSUME Patient
  PROVE  APISpec => []OneBusy
<1>1. CASE Calls = {"exec"}
  <2>1. NetInv => OneBusy
    BY DEF NetInv, OneInside, OneBusy
  <2>2. QED
    BY <1>1, <2>1, NetInvAlways, PTL
<1>2. CASE \A t, u \in Threads : t = u
  <2>1. OneBusy
    BY <1>2 DEF OneBusy
  <2>2. QED
    BY <2>1, PTL
<1>3. QED
  BY <1>1, <1>2 DEF Patient

\* The other clients neither move nor touch the handles.
OthersWait(t) ==
  \A u \in Threads : u # t => pc[u] \notin Sending /\ pc'[u] = pc[u]

LEMMA OthersStandBy ==
  ASSUME APITypeOK, OneBusy, NEW t \in Threads, ClientStep(t)
  PROVE  OthersWait(t)
<1> SUFFICES ASSUME NEW u \in Threads, u # t
             PROVE  pc[u] \notin Sending /\ pc'[u] = pc[u]
  BY DEF OthersWait
<1> USE DEF APITypeOK, ClientStep, PauseAllEnter, BroadcastPause, StartCollecting,
            CollectAck, PauseAllCancelled, PauseAllFinish, FinishExclusive,
            ResumeAllEnter, BroadcastResume, ResumeAllCancelled, ResumeAllFinish,
            UnlockExclusive
<1>1. pc[t] \in Inside
  BY DEF Inside, CallLocations
<1>2. pc[u] \notin Sending
  BY <1>1 DEF OneBusy, Inside, Sending, CallLocations
<1>3. pc'[u] = pc[u]
  BY DEF GoTo, PauseFails
<1>4. QED
  BY <1>2, <1>3

Steady == \A w \in Probes : IF paused THEN Held(w) ELSE Tidy(w)

\* The handles before next[t] and those from it on, in each of the loops.
Agrees(t) ==
  /\ pc[t] = "pauseSend" =>
       ~paused /\ \A w \in Probes : IF w < next[t] THEN Asked(w) ELSE Tidy(w)
  /\ pc[t] = "pauseWait" =>
       ~paused /\ \A w \in Probes : IF w < next[t] THEN Held(w) ELSE Asked(w)
  /\ pc[t] = "resumeSend" =>
       paused /\ \A w \in Probes : IF w < next[t] THEN Tidy(w) ELSE Held(w)

Agreed ==
  /\ (\A t \in Threads : pc[t] \notin Sending) => Steady
  /\ \A t \in Threads : Agrees(t)
  /\ \A w \in Probes : probe[w] # "registered"

AgreementInv ==
  /\ \A t \in Threads : ~ctxDone[t]
  /\ starts = 0 => /\ ~running /\ ~paused
                   /\ \A t \in Threads : pc[t] \notin Sending
                   /\ \A w \in Probes : /\ probe[w] = "registered"
                                        /\ cmdChan[w] = Empty /\ ~ackChan[w]
  /\ running => ~cancelled /\ Agreed

\* One step of a probe answers the Scheduler and nothing else.
LEMMA WorkerKeepsPhase ==
  ASSUME APITypeOK, ~cancelled, NEW w \in Probes, APIWorkerStep(w), NEW v \in Probes
  PROVE  /\ Tidy(v) => Tidy(v)'
         /\ Asked(v) => Asked(v)'
         /\ Held(v) => Held(v)'
         /\ probe[v] # "registered" => probe'[v] # "registered"
<1> USE DEF APITypeOK, HandleTypeOK, WorkerTypeOK, APIWorkerStep, Tidy, Asked, Held,
            handleVars, Moves, TakeCommand, SendAck, CmdPause, CmdResume, Empty
<1>1. CASE FirstCheck(w)
  BY <1>1 DEF FirstCheck
<1>2. CASE FinishCheck(w)
  BY <1>2 DEF FinishCheck
<1>3. CASE Tick(w)
  BY <1>3 DEF Tick
<1>4. CASE ReceiveCommand(w)
  BY <1>4 DEF ReceiveCommand
<1>5. CASE Acknowledge(w)
  BY <1>5 DEF Acknowledge
<1>6. CASE ReceiveWhilePaused(w)
  BY <1>6 DEF ReceiveWhilePaused
<1>7. CASE ObserveCancel(w, cancelled)
  BY <1>7 DEF ObserveCancel
<1>8. QED
  BY <1>1, <1>2, <1>3, <1>4, <1>5, <1>6, <1>7 DEF ProbeStep

LEMMA WorkerKeepsAgreement ==
  ASSUME APITypeOK, AgreementInv, NEW w \in Probes, APIWorkerStep(w)
  PROVE  AgreementInv'
<1>1. UNCHANGED <<running, paused, cancelled, pc, next, starts, ctxDone>>
  BY DEF APIWorkerStep, schedVars, ownerVars, clientVars
<1>2. starts # 0 \/ cancelled
  BY DEF AgreementInv, APIWorkerStep, ProbeStep, FirstCheck, FinishCheck, Tick,
         ReceiveCommand, Acknowledge, ReceiveWhilePaused, ObserveCancel, Moves
<1>3. ASSUME running
      PROVE  ~cancelled' /\ Agreed'
  <2>1. \A v \in Probes : /\ Tidy(v) => Tidy(v)'
                          /\ Asked(v) => Asked(v)'
                          /\ Held(v) => Held(v)'
                          /\ probe[v] # "registered" => probe'[v] # "registered"
    BY <1>3, WorkerKeepsPhase DEF AgreementInv
  <2>2. Agreed
    BY <1>3 DEF AgreementInv
  <2>3. Steady => Steady'
    BY <1>1, <2>1 DEF Steady
  <2>4. \A t \in Threads : Agrees(t) => Agrees(t)'
    BY <1>1, <2>1 DEF Agrees
  <2>5. QED
    BY <1>1, <1>3, <2>1, <2>2, <2>3, <2>4 DEF Agreed, AgreementInv
<1>4. starts = 0 => \A v \in Probes : /\ probe'[v] = "registered"
                                      /\ cmdChan'[v] = Empty /\ ~ackChan'[v]
  BY DEF APITypeOK, WorkerTypeOK, AgreementInv, APIWorkerStep, ProbeStep, FirstCheck,
         FinishCheck, Tick, ReceiveCommand, Acknowledge, ReceiveWhilePaused,
         ObserveCancel, Moves
<1>5. QED
  BY <1>1, <1>3, <1>4 DEF AgreementInv

\* The first Start finds untouched handles; there is no second one.
LEMMA OwnerKeepsAgreement ==
  ASSUME Patient, APITypeOK, AgreementInv, StartAPI \/ StopAPI \/ StopAPIReturns
  PROVE  AgreementInv'
<1>1. CASE StartAPI
  <2>1. starts = 0
    BY <1>1 DEF StartAPI, Patient, APITypeOK
  <2>2. /\ UNCHANGED <<cmdChan, ackChan, pc, next, ctxDone>>
        /\ running' /\ ~paused' /\ ~cancelled' /\ starts' = 1
        /\ \A w \in Probes : probe'[w] = "launched"
    BY <1>1, <2>1 DEF StartAPI, StartScheduler, handleVars, callVars, clientVars
  <2>3. \A w \in Probes : Tidy(w)'
    BY <2>1, <2>2 DEF AgreementInv, Tidy, Empty, CmdPause
  <2>4. \A t \in Threads : pc'[t] \notin Sending
    BY <2>1, <2>2 DEF AgreementInv
  <2>5. Agreed'
    BY <2>2, <2>3, <2>4 DEF Agreed, Steady, Agrees, Sending
  <2>6. QED
    BY <2>2, <2>5 DEF AgreementInv
<1>2. CASE StopAPI
  BY <1>2 DEF StopAPI, StopScheduler, AgreementInv, workerVars, callVars, clientVars
<1>3. CASE StopAPIReturns
  <2>1. UNCHANGED <<workerVars, schedVars, clientVars, starts>>
    BY <1>3 DEF StopAPIReturns
  <2>2. QED
    BY <2>1 DEF AgreementInv, Agreed, Steady, Agrees, Tidy, Asked, Held,
                workerVars, schedVars, clientVars
<1>4. QED
  BY <1>1, <1>2, <1>3

\* A call that begins finds the handles as the last one left them.
LEMMA BeginKeepsAgreement ==
  ASSUME Patient, APITypeOK, AgreementInv, NEW t \in Threads,
         (\E c \in Calls : Call(t, c)) \/ EndContext(t) \/ AcquireAPI(t)
  PROVE  AgreementInv'
<1>1. /\ pc[t] \notin Sending
      /\ pc' \in [Threads -> CallLocations] /\ pc'[t] \notin Sending
      /\ \A u \in Threads : u # t => pc'[u] = pc[u]
      /\ \A u \in Threads : ~ctxDone'[u]
      /\ UNCHANGED <<workerVars, stateVars, next, starts>>
  <2>1. ASSUME NEW c \in Calls, Call(t, c)
        PROVE  /\ pc[t] = "idle" /\ pc' = [pc EXCEPT ![t] = FirstLocation[c]]
               /\ ctxDone' = [ctxDone EXCEPT ![t] = FALSE]
               /\ FirstLocation[c] \in CallLocations \ Sending
               /\ UNCHANGED <<workerVars, stateVars, next, starts>>
    BY <2>1, CallsAssumption
       DEF Call, GoTo, ownerVars, AllCalls, FirstLocation, Sending, CallLocations
  <2>2. ASSUME AcquireAPI(t)
        PROVE  /\ pc[t] = "lock" /\ pc' = [pc EXCEPT ![t] = "pauseEnter"]
               /\ UNCHANGED <<workerVars, stateVars, next, starts, ctxDone>>
    BY <2>2 DEF AcquireAPI, LockExclusive, GoTo, ownerVars, clientVars, workerVars, handleVars
  <2>3. ~EndContext(t)
    BY DEF EndContext, Patient
  <2>4. QED
    BY <2>1, <2>2, <2>3
       DEF APITypeOK, AgreementInv, Sending, CallLocations
<1>2. \A u \in Threads : /\ pc[u] \notin Sending <=> pc'[u] \notin Sending
                         /\ pc'[u] \in Sending => pc'[u] = pc[u]
  BY <1>1
<1>3. (Steady => Steady') /\ \A u \in Threads : Agrees(u) => Agrees(u)'
  BY <1>1, <1>2 DEF Steady, Agrees, Sending, Tidy, Asked, Held, workerVars, stateVars
<1>4. Agreed => Agreed'
  BY <1>1, <1>2, <1>3 DEF Agreed, workerVars
<1>5. QED
  BY <1>1, <1>2, <1>4 DEF AgreementInv, workerVars, stateVars

\* What a step of the client does to a scheduler that is not running.
LEMMA ClientBesideTheRun ==
  ASSUME Patient, APITypeOK, AgreementInv, NEW t \in Threads, ClientStep(t), ~running
  PROVE  AgreementInv'
<1>1. /\ UNCHANGED <<probe, starts, ctxDone>>
      /\ running' = running
  BY DEF ClientStep, ownerVars, clientVars, PauseAllEnter, BroadcastPause, StartCollecting,
         CollectAck, PauseAllCancelled, PauseAllFinish, FinishExclusive, ResumeAllEnter,
         BroadcastResume, ResumeAllCancelled, ResumeAllFinish, UnlockExclusive, stateVars
<1>2. ASSUME starts = 0
      PROVE  /\ ~paused' /\ UNCHANGED <<cmdChan, ackChan>>
             /\ \A u \in Threads : pc'[u] \notin Sending
  <2>1. pc[t] \notin Sending /\ ~paused
    BY <1>2 DEF AgreementInv
  <2>2. /\ pc' = [pc EXCEPT ![t] = pc'[t]]
        /\ UNCHANGED <<paused, cmdChan, ackChan>> /\ pc'[t] \notin Sending
    BY <2>1
       DEF ClientStep, PauseAllEnter, BroadcastPause, StartCollecting, CollectAck,
           PauseAllCancelled, PauseAllFinish, FinishExclusive, ResumeAllEnter,
           BroadcastResume, ResumeAllCancelled, ResumeAllFinish, UnlockExclusive, stateVars,
           handleVars, GoTo, PauseFails, InExec, Sending, APITypeOK
  <2>3. QED
    BY <1>2, <2>1, <2>2 DEF AgreementInv, APITypeOK
<1>3. QED
  BY <1>1, <1>2 DEF AgreementInv

\* The steps of a client that send nothing, and leave no handle changed.
LEMMA QuietKeepsAgreement ==
  ASSUME APITypeOK, NEW t \in Threads, running, Agreed,
         \/ PauseAllEnter(t, InExec(t, "run"), InExec(t, "resumeEnter"))
         \/ StartCollecting(t)
         \/ PauseAllFinish(t, InExec(t, "run"))
         \/ FinishExclusive(t)
         \/ ResumeAllEnter(t, InExec(t, "unlock"))
         \/ ResumeAllFinish(t, InExec(t, "unlock"))
         \/ UnlockExclusive(t),
         OthersWait(t), probe' = probe
  PROVE  Agreed'
<1> USE DEF APITypeOK, SchedTypeOK
<1>1. \A u \in Threads : u # t => pc[u] \notin Sending /\ pc'[u] \notin Sending
  BY DEF OthersWait
<1>2. /\ InExec(t, "run") \in {"run", "idle"}
      /\ InExec(t, "unlock") \in {"unlock", "idle"}
  BY DEF InExec
<1>3. UNCHANGED <<probe, cmdChan, ackChan>>
  BY DEF PauseAllEnter, StartCollecting, PauseAllFinish, FinishExclusive, ResumeAllEnter,
         ResumeAllFinish, UnlockExclusive, handleVars
<1>4. \A w \in Probes : /\ Tidy(w)' <=> Tidy(w)
                        /\ Asked(w)' <=> Asked(w)
                        /\ Held(w)' <=> Held(w)
  BY <1>3 DEF Tidy, Asked, Held
<1>5. /\ pc[t] \notin Sending => Steady
      /\ Agrees(t)
      /\ \A w \in Probes : probe[w] # "registered"
  BY <1>1 DEF Agreed
<1>6. (pc'[t] \notin Sending => Steady') /\ Agrees(t)'
  <2>1. CASE pc[t] \notin Sending /\ pc'[t] \notin Sending /\ paused' = paused
    BY <1>4, <1>5, <2>1 DEF Steady, Agrees, Sending
  <2>2. CASE PauseAllEnter(t, InExec(t, "run"), InExec(t, "resumeEnter")) /\ ~paused
    <3>1. /\ pc' = [pc EXCEPT ![t] = "pauseSend"] /\ next'[t] = 1 /\ ~paused'
          /\ pc[t] \notin Sending
      BY <2>2 DEF PauseAllEnter, GoTo, stateVars, Sending
    <3>2. pc'[t] = "pauseSend" /\ \A w \in Probes : ~(w < next'[t]) /\ Tidy(w)'
      BY <1>4, <1>5, <2>2, <3>1 DEF Steady, Probes
    <3>3. QED
      BY <3>1, <3>2 DEF Agrees, Sending
  <2>3. CASE StartCollecting(t)
    <3>1. /\ pc[t] = "pauseSend" /\ next[t] > NumProbes /\ ~paused' /\ ~paused
          /\ pc'[t] = "pauseWait" /\ next'[t] = 1
      BY <1>5, <2>3 DEF StartCollecting, GoTo, stateVars, Agrees
    <3>2. \A w \in Probes : ~(w < next'[t]) /\ w < next[t]
      BY <3>1, NumProbesAssumption DEF Probes
    <3>3. \A w \in Probes : Asked(w)'
      BY <1>4, <1>5, <3>1, <3>2 DEF Agrees
    <3>4. QED
      BY <3>1, <3>2, <3>3 DEF Agrees, Sending
  <2>4. CASE PauseAllFinish(t, InExec(t, "run"))
    <3>1. /\ pc[t] = "pauseWait" /\ next[t] > NumProbes /\ paused'
          /\ pc'[t] \in {"run", "idle"}
      BY <1>2, <2>4 DEF PauseAllFinish, GoTo
    <3>2. \A w \in Probes : w < next[t]
      BY <3>1, NumProbesAssumption DEF Probes
    <3>3. \A w \in Probes : Held(w)'
      BY <1>4, <1>5, <3>1, <3>2 DEF Agrees
    <3>4. QED
      BY <3>1, <3>3 DEF Agrees, Steady
  <2>5. CASE ResumeAllEnter(t, InExec(t, "unlock")) /\ paused
    <3>1. /\ pc[t] = "resumeEnter" /\ pc'[t] = "resumeSend" /\ next'[t] = 1 /\ paused'
      BY <2>5 DEF ResumeAllEnter, GoTo, stateVars
    <3>2. \A w \in Probes : ~(w < next'[t]) /\ Held(w)'
      BY <1>4, <1>5, <2>5, <3>1 DEF Steady, Probes, Sending
    <3>3. QED
      BY <3>1, <3>2 DEF Agrees, Sending
  <2>6. CASE ResumeAllFinish(t, InExec(t, "unlock"))
    <3>1. /\ pc[t] = "resumeSend" /\ next[t] > NumProbes /\ ~paused'
          /\ pc'[t] \in {"unlock", "idle"}
      BY <1>2, <2>6 DEF ResumeAllFinish, GoTo
    <3>2. \A w \in Probes : w < next[t]
      BY <3>1, NumProbesAssumption DEF Probes
    <3>3. \A w \in Probes : Tidy(w)'
      BY <1>4, <1>5, <3>1, <3>2 DEF Agrees
    <3>4. QED
      BY <3>1, <3>3 DEF Agrees, Steady
  <2>7. PauseAllEnter(t, InExec(t, "run"), InExec(t, "resumeEnter")) /\ paused
          => pc[t] = "pauseEnter" /\ pc'[t] \in {"run", "idle"} /\ paused' = paused
    BY <1>2 DEF PauseAllEnter, GoTo, stateVars
  <2>8. ResumeAllEnter(t, InExec(t, "unlock")) /\ ~paused
          => pc[t] = "resumeEnter" /\ pc'[t] \in {"unlock", "idle"} /\ paused' = paused
    BY <1>2 DEF ResumeAllEnter, GoTo, stateVars
  <2>9. FinishExclusive(t) => pc[t] = "run" /\ pc'[t] = "resumeEnter" /\ paused' = paused
    BY DEF FinishExclusive, GoTo, stateVars
  <2>10. UnlockExclusive(t) => pc[t] = "unlock" /\ pc'[t] = "idle" /\ paused' = paused
    BY DEF UnlockExclusive, GoTo, stateVars
  <2>11. QED
    BY <2>1, <2>2, <2>3, <2>4, <2>5, <2>6, <2>7, <2>8, <2>9, <2>10 DEF Sending
<1>7. \A u \in Threads : u # t => Agrees(u)'
  BY <1>1 DEF Agrees, Sending
<1>8. QED
  BY <1>3, <1>5, <1>6, <1>7 DEF Agreed

\* One command or ACK moves one handle on.
LEMMA ChannelKeepsAgreement ==
  ASSUME APITypeOK, NEW t \in Threads, running, Agreed,
         BroadcastPause(t) \/ CollectAck(t) \/ BroadcastResume(t),
         OthersWait(t), probe' = probe
  PROVE  Agreed'
<1> USE DEF APITypeOK, SchedTypeOK, HandleTypeOK, WorkerTypeOK
<1>1. \A u \in Threads : u # t => Agrees(u)'
  BY DEF OthersWait, Agrees, Sending
<1>2. Agrees(t) /\ \A w \in Probes : probe[w] # "registered"
  BY DEF Agreed
<1>3. PICK n \in Probes : n = next[t]
  <2>1. next[t] \in 1 .. NumProbes + 1 /\ next[t] <= NumProbes
    BY DEF BroadcastPause, CollectAck, BroadcastResume
  <2>2. QED
    BY <2>1, NumProbesAssumption DEF Probes
<1>4. /\ next'[t] = n + 1 /\ pc' = pc /\ paused' = paused
      /\ pc[t] \in Sending
  BY <1>3 DEF BroadcastPause, CollectAck, BroadcastResume, stateVars, Sending
<1>5. \A w \in Probes : w # n => cmdChan'[w] = cmdChan[w] /\ ackChan'[w] = ackChan[w]
  BY <1>3, <1>4 DEF BroadcastPause, CollectAck, BroadcastResume, SendCommand, TakeAck
<1>6. \A w \in Probes : w # n => /\ Tidy(w)' <=> Tidy(w)
                                 /\ Asked(w)' <=> Asked(w)
                                 /\ Held(w)' <=> Held(w)
  BY <1>5 DEF Tidy, Asked, Held
<1>7. \A w \in Probes : /\ w < next'[t] <=> w < n \/ w = n
                        /\ ~(n < n)
  BY <1>3, <1>4 DEF Probes
<1>8. CASE BroadcastPause(t)
  <2>1. pc[t] = "pauseSend" /\ ~paused /\ Tidy(n) /\ cmdChan[n] = Empty
    BY <1>2, <1>3, <1>4, <1>7, <1>8 DEF BroadcastPause, Agrees, SendCommand
  <2>2. cmdChan'[n] = CmdPause /\ ackChan'[n] = ackChan[n]
    BY <1>3, <1>4, <1>8 DEF BroadcastPause, SendCommand
  <2>3. Asked(n)'
    BY <1>2, <1>3, <1>4, <2>1, <2>2
       DEF Tidy, Asked, ProbeLocations, CmdPause, CmdResume, Empty
  <2>4. Agrees(t)'
    BY <1>2, <1>3, <1>4, <1>6, <1>7, <2>1, <2>3 DEF Agrees
  <2>5. QED
    BY <1>1, <1>2, <1>3, <1>4, <2>4 DEF Agreed
<1>9. CASE CollectAck(t)
  <2>1. pc[t] = "pauseWait" /\ ~paused /\ Asked(n) /\ ackChan[n]
    BY <1>2, <1>3, <1>4, <1>7, <1>9 DEF CollectAck, Agrees, TakeAck
  <2>2. cmdChan'[n] = cmdChan[n] /\ ~ackChan'[n]
    BY <1>3, <1>4, <1>9 DEF CollectAck, TakeAck
  <2>3. Held(n)'
    BY <1>2, <2>1, <2>2 DEF Asked, Held
  <2>4. Agrees(t)'
    BY <1>2, <1>3, <1>4, <1>6, <1>7, <2>1, <2>3 DEF Agrees
  <2>5. QED
    BY <1>1, <1>2, <1>3, <1>4, <2>4 DEF Agreed
<1>10. CASE BroadcastResume(t)
  <2>1. pc[t] = "resumeSend" /\ paused /\ Held(n)
    BY <1>2, <1>3, <1>4, <1>7, <1>10 DEF BroadcastResume, Agrees
  <2>2. cmdChan'[n] = CmdResume /\ ackChan'[n] = ackChan[n]
    BY <1>3, <1>4, <1>10 DEF BroadcastResume, SendCommand
  <2>3. Tidy(n)'
    BY <1>2, <2>1, <2>2 DEF Tidy, Held, CmdPause, CmdResume
  <2>4. Agrees(t)'
    BY <1>2, <1>3, <1>4, <1>6, <1>7, <2>1, <2>3 DEF Agrees
  <2>5. QED
    BY <1>1, <1>2, <1>3, <1>4, <2>4 DEF Agreed
<1>11. QED
  BY <1>8, <1>9, <1>10

LEMMA ClientKeepsAgreement ==
  ASSUME Patient, APITypeOK, OneBusy, AgreementInv, NEW t \in Threads, ClientStep(t)
  PROVE  AgreementInv'
<1>1. CASE ~running
  BY <1>1, ClientBesideTheRun
<1>2. CASE running
  <2>1. /\ UNCHANGED <<probe, starts, ctxDone>>
        /\ UNCHANGED <<running, cancelled>>
    BY DEF ClientStep, ownerVars, clientVars, PauseAllEnter, BroadcastPause,
           StartCollecting, CollectAck, PauseAllCancelled, PauseAllFinish,
           FinishExclusive, ResumeAllEnter, BroadcastResume, ResumeAllCancelled,
           ResumeAllFinish, UnlockExclusive, stateVars
  <2>2. ~ctxDone[t] /\ Agreed /\ ~cancelled /\ starts # 0
    BY <1>2 DEF AgreementInv
  <2>3. ~PauseAllCancelled(t, ctxDone[t], InExec(t, "resumeEnter"))
    BY <2>2 DEF PauseAllCancelled
  <2>4. ~ResumeAllCancelled(t, ResumeCtxDone(t), InExec(t, "unlock"))
    <3>1. SUFFICES ASSUME pc[t] = "resumeSend", next[t] <= NumProbes
                   PROVE  ~ResumeCtxDone(t)
      BY DEF ResumeAllCancelled
    <3>2. next[t] \in Probes /\ ~(next[t] < next[t])
      BY <3>1, NumProbesAssumption DEF APITypeOK, SchedTypeOK, Probes
    <3>3. Held(next[t])
      BY <2>2, <3>1, <3>2 DEF Agreed, Agrees
    <3>4. QED
      BY <2>2, <3>3 DEF ResumeCtxDone, SendBlocked, Held
  <2>5. Agreed'
    BY <1>2, <2>1, <2>2, <2>3, <2>4, OthersStandBy, QuietKeepsAgreement,
       ChannelKeepsAgreement DEF ClientStep
  <2>6. QED
    BY <2>1, <2>2, <2>5 DEF AgreementInv
<1>3. QED
  BY <1>1, <1>2

\* PausedIsTruthful for every number of probes: one client may mix PauseAll,
\* ResumeAll and ExecuteExclusive as it likes, or any number of clients call
\* ExecuteExclusive, before Start or after Stop too; between the calls
\* s.paused describes every probe (scheduler.go:129-206).
THEOREM PausedTellsTheTruth ==
  ASSUME Patient
  PROVE  APISpec => []PausedIsTruthful
<1>1. APIInit => AgreementInv
  BY DEF APIInit, HandleInit, WorkerInit, SchedInit, AgreementInv, Sending
<1>2. APITypeOK /\ OneBusy /\ AgreementInv /\ [APINext]_apiVars => AgreementInv'
  <2>1. ASSUME AgreementInv, UNCHANGED apiVars
        PROVE  AgreementInv'
    BY <2>1 DEF apiVars, AgreementInv, Agreed, Steady, Agrees, Tidy, Asked, Held
  <2>2. QED
    BY <2>1, WorkerKeepsAgreement, OwnerKeepsAgreement, BeginKeepsAgreement,
       ClientKeepsAgreement DEF APINext
<1>3. AgreementInv => PausedIsTruthful
  BY DEF AgreementInv, Agreed, Steady, Sending, PausedIsTruthful, NoCallInProgress
<1>4. QED
  BY <1>1, <1>2, <1>3, APITypeCorrect, OneBusyAlways, PTL DEF APISpec

\* Where no context ends no PauseAll of a running scheduler fails, and then no
\* probe sits in a pause that nobody is going to end (scheduler.go:216), with
\* one client or with many callers of ExecuteExclusive: what TLC finds in the
\* run that refutes FailedPauseIsUndone needs a context that ends.
THEOREM UnfailedPausesAreUndone ==
  ASSUME Patient
  PROVE  APISpec => []FailedPauseIsUndone
<1>1. PausedIsTruthful => FailedPauseIsUndone
  BY DEF PausedIsTruthful, FailedPauseIsUndone, Tidy
<1>2. QED
  BY <1>1, PausedTellsTheTruth, PTL

=============================================================================
