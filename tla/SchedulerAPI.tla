---------------------------- MODULE SchedulerAPI ----------------------------
(***************************************************************************)
(* The Scheduler as a library: its owner starts and stops it, possibly     *)
(* several times, while client goroutines call PauseAll, ResumeAll and     *)
(* ExecuteExclusive under contexts of their own, as the tests of the       *)
(* package do.  RunApp is a special case (module Agent): one start, calls  *)
(* of ExecuteExclusive only, and every context ends with the agent.        *)
(***************************************************************************)
EXTENDS ProbeWorker, Scheduler

CONSTANTS
  Calls,                \* the methods clients call: a subset of AllCalls
  CtxMayEnd,            \* may the context of a call end?
  MaxStarts             \* how often the owner starts the scheduler

AllCalls == {"exec", "pause", "resume"}

ASSUME CallsAssumption ==
  Calls \subseteq AllCalls /\ CtxMayEnd \in BOOLEAN /\ MaxStarts \in Nat

VARIABLES
  owner,                \* "stopped", "started" or "stopping" (at wg.Wait())
  starts,               \* how often Start has been called
  call,                 \* call[t]: the method t executes, or executed last
  ctxDone               \* ctxDone[t]: has the context of that call ended?

ownerVars == <<owner, starts>>
clientVars == <<call, ctxDone>>
apiVars == <<probe, cmdChan, ackChan, running, paused, cancelled,
             exclusiveMu, pc, next, failed, owner, starts, call, ctxDone>>

APITypeOK ==
  /\ HandleTypeOK
  /\ WorkerTypeOK
  /\ SchedTypeOK
  /\ pc \in [Threads -> CallLocations]
  /\ owner \in {"stopped", "started", "stopping"}
  /\ starts \in 0 .. MaxStarts
  /\ call \in [Threads -> AllCalls]
  /\ ctxDone \in [Threads -> BOOLEAN]

APIInit ==
  /\ HandleInit
  /\ WorkerInit
  /\ SchedInit
  /\ cancelled = FALSE
  /\ pc = [t \in Threads |-> "idle"]
  /\ owner = "stopped"
  /\ starts = 0
  /\ call \in [Threads -> Calls]
  /\ ctxDone = [t \in Threads |-> FALSE]

-----------------------------------------------------------------------------
(* The owner *)

NoCallInProgress == \A t \in Threads : pc[t] = "idle"

\* Start gives every worker a goroutine, on the channels it was registered
\* with: what an earlier run left in them is still there.  Stop does not wait
\* for clients, so a call of an earlier run may go on in this one.
StartAPI ==
  /\ owner = "stopped"
  /\ starts < MaxStarts
  /\ StartScheduler(FALSE)
  /\ probe' = [w \in Probes |-> "launched"]
  /\ owner' = "started"
  /\ starts' = starts + 1
  /\ UNCHANGED <<handleVars, callVars, clientVars>>

StopAPI ==
  /\ owner = "started"
  /\ StopScheduler
  /\ owner' = "stopping"
  /\ UNCHANGED <<workerVars, callVars, clientVars, starts>>

\* wg.Wait() returns: it waits for the workers, not for the clients.
StopAPIReturns ==
  /\ owner = "stopping"
  /\ \A w \in Probes : probe[w] = "exited"
  /\ owner' = "stopped"
  /\ UNCHANGED <<workerVars, schedVars, clientVars, starts>>

-----------------------------------------------------------------------------
(* The clients *)

FirstLocation ==
  [exec |-> "lock", pause |-> "pauseEnter", resume |-> "resumeEnter"]

Call(t, c) ==
  /\ pc[t] = "idle"
  /\ call' = [call EXCEPT ![t] = c]
  /\ ctxDone' = [ctxDone EXCEPT ![t] = FALSE]
  /\ GoTo(t, FirstLocation[c])
  /\ UNCHANGED <<stateVars, exclusiveMu, next, failed, workerVars, ownerVars>>

\* The deadline of the call passes, or the client cancels it.
EndContext(t) ==
  /\ CtxMayEnd
  /\ pc[t] # "idle"
  /\ ~ctxDone[t]
  /\ ctxDone' = [ctxDone EXCEPT ![t] = TRUE]
  /\ UNCHANGED <<workerVars, schedVars, ownerVars, call>>

\* A method called by ExecuteExclusive returns into it, one that the client
\* called returns to the client.
InExec(t, loc) == IF call[t] = "exec" THEN loc ELSE "idle"

\* Within ExecuteExclusive, ResumeAll has the Background context after a
\* failure, and else one of 5 seconds, which pass only while it is blocked.
ResumeCtxDone(t) ==
  IF call[t] = "exec"
    THEN ~failed[t] /\ next[t] <= NumProbes /\ SendBlocked(next[t])
    ELSE ctxDone[t]

ClientStep(t) ==
  /\ \/ PauseAllEnter(t, InExec(t, "run"), InExec(t, "resumeEnter"))
     \/ BroadcastPause(t)
     \/ StartCollecting(t)
     \/ CollectAck(t)
     \/ PauseAllCancelled(t, ctxDone[t], InExec(t, "resumeEnter"))
     \/ PauseAllFinish(t, InExec(t, "run"))
     \/ FinishExclusive(t)
     \/ ResumeAllEnter(t, InExec(t, "unlock"))
     \/ BroadcastResume(t)
     \/ ResumeAllCancelled(t, ResumeCtxDone(t), InExec(t, "unlock"))
     \/ ResumeAllFinish(t, InExec(t, "unlock"))
     \/ UnlockExclusive(t)
  /\ UNCHANGED <<probe, ownerVars, clientVars>>

AcquireAPI(t) ==
  /\ LockExclusive(t)
  /\ UNCHANGED <<probe, ownerVars, clientVars>>

APIWorkerStep(w) ==
  /\ ProbeStep(w, cancelled)
  /\ UNCHANGED <<schedVars, ownerVars, clientVars>>

APINext ==
  \/ StartAPI
  \/ StopAPI
  \/ StopAPIReturns
  \/ \E t \in Threads : \/ \E c \in Calls : Call(t, c)
                        \/ EndContext(t)
                        \/ AcquireAPI(t)
                        \/ ClientStep(t)
  \/ \E w \in Probes : APIWorkerStep(w)

APISpec == APIInit /\ [][APINext]_apiVars

\* The context of a call that does not return ends; the owner may keep the
\* scheduler running or stopped for as long as it likes, but a Stop that has
\* been called waits for goroutines that are scheduled.
APIFairSpec ==
  /\ APISpec
  /\ WF_apiVars(StopAPIReturns)
  /\ \A w \in Probes : /\ ProbeFairness(w)
                       /\ SF_workerVars(ObserveCancel(w, cancelled))
  /\ \A t \in Threads : /\ WF_apiVars(EndContext(t))
                        /\ SF_apiVars(AcquireAPI(t))
                        /\ WF_apiVars(ClientStep(t))

-----------------------------------------------------------------------------
(* Properties *)

\* Whatever becomes of the contexts of the calls, fn runs only while every
\* probe is in its pauseLoop (scheduler.go:209, FR4), from the first Start to
\* the first Stop.  After another Start it may not: Stop leaves ACKs in the
\* channels that Start reuses, and a PauseAll that was collecting ACKs then
\* sets s.paused for a run whose probes it has not paused (scheduler.go:167).
FirstRun == starts = 1 /\ ~cancelled

FnHasTheNetwork ==
  FirstRun =>
    \A t \in Threads :
      pc[t] = "run" /\ call[t] = "exec" => \A w \in Probes : probe[w] = "paused"

\* Between calls s.paused tells the truth: if it is set every probe is held
\* and stays so until a ResumeAll, if not every probe measures or is about to.
PausedIsTruthful ==
  running /\ NoCallInProgress =>
    \A w \in Probes : IF paused THEN Held(w) ELSE Tidy(w)

\* "Attempt resume in case of partial pause failure" (scheduler.go:216):
\* after an ExecuteExclusive whose PauseAll failed, once its CmdPauses have
\* been taken, no probe sits in a pause that nobody is going to end.
FailedPauseIsUndone ==
  running /\ NoCallInProgress /\ ~paused =>
    \A w \in Probes : probe[w] = "paused" => cmdChan[w] = CmdResume

\* Clients of ExecuteExclusive, whose contexts end when they like, still get
\* what ExclusiveAccess promises, as the agent's speedtests do: from the first
\* Start to the first Stop a check begins only while no fn is in progress and
\* fn only while no check is (scheduler.go:209, FR4); before, afterwards and
\* through any number of further runs, one fn begins only when no other is in
\* progress (scheduler.go:211), be it one that began in an earlier run.
Access == INSTANCE ExclusiveAccess WITH
  Probes    <- Probes,
  Tasks     <- Threads,
  measuring <- {w \in Probes : probe[w] = "check"},
  tasks     <- {t \in Threads : pc[t] = "run"},
  phase     <- IF starts = 0 \/ FirstRun THEN "open" ELSE "closing"

ClientsHaveAccess == Access!AccessSpec

\* No call outlives its context by more than the checks in progress, even if
\* the scheduler is stopped under it and started again: the Background context
\* that ResumeAll gets after a failure never makes it wait.
CallsReturn == \A t \in Threads : pc[t] # "idle" ~> pc[t] = "idle"

=============================================================================
