------------------------------ MODULE Scheduler -----------------------------
(***************************************************************************)
(* The methods of internal/scheduler/scheduler.go that goroutines call     *)
(* while workers are running: ExecuteExclusive, with PauseAll and          *)
(* ResumeAll inside it, and the critical sections of Start and Stop.       *)
(*                                                                         *)
(* A critical section under s.mu is one action, since it contains no       *)
(* channel operation.  Everything between two of them is interleaved: each *)
(* iteration of a broadcast or of the wait for ACKs is an action of its    *)
(* own, at which the goroutine may block.                                  *)
(*                                                                         *)
(* The module has no Next.  A module that composes it with the probes and  *)
(* with the goroutines that call it says what `done' is (has the context   *)
(* of the call been cancelled?) and where a method returns to (the         *)
(* locations `ok' and `err').                                              *)
(***************************************************************************)
EXTENDS WorkerHandle

CONSTANTS
  Threads,              \* the goroutines that call the methods
  NoThread              \* what exclusiveMu holds when it is free

ASSUME NoThreadAssumption == NoThread \notin Threads

VARIABLES
  running,              \* s.running
  paused,               \* s.paused
  cancelled,            \* has the context given to the workers been cancelled?
  exclusiveMu,          \* who holds s.exclusiveMu
  pc,                   \* pc[t]: where t is in the method it executes
  next,                 \* next[t]: the handle the loop of t has reached
  failed                \* failed[t]: did the PauseAll of this call fail?

stateVars == <<running, paused, cancelled>>
callVars  == <<exclusiveMu, pc, next, failed>>
schedVars == <<running, paused, cancelled, exclusiveMu, pc, next, failed>>

CallLocations ==
  { "idle",             \* in no method
    "lock",             \* ExecuteExclusive: exclusiveMu.Lock()
    "pauseEnter",       \* PauseAll: first critical section
    "pauseSend",        \* PauseAll: broadcast of CmdPause
    "pauseWait",        \* PauseAll: waiting for the ACKs
    "run",              \* ExecuteExclusive: inside fn
    "resumeEnter",      \* ResumeAll: first critical section
    "resumeSend",       \* ResumeAll: broadcast of CmdResume
    "unlock" }          \* ExecuteExclusive: deferred exclusiveMu.Unlock()

SchedTypeOK ==
  /\ running \in BOOLEAN
  /\ paused \in BOOLEAN
  /\ cancelled \in BOOLEAN
  /\ exclusiveMu \in Threads \cup {NoThread}
  /\ next \in [Threads -> 1 .. NumProbes + 1]
  /\ failed \in [Threads -> BOOLEAN]

\* NewScheduler.  Where the calling goroutines are is for the composing
\* module to say.
SchedInit ==
  /\ running = FALSE
  /\ paused = FALSE
  /\ exclusiveMu = NoThread
  /\ next = [t \in Threads |-> 1]
  /\ failed = [t \in Threads |-> FALSE]

GoTo(t, loc) == pc' = [pc EXCEPT ![t] = loc]

-----------------------------------------------------------------------------
(* Start and Stop *)

\* The first critical section of Start: a new context, derived from the
\* caller's (parentDone: is that one cancelled already?).
StartScheduler(parentDone) ==
  /\ ~running
  /\ running' = TRUE
  /\ paused' = FALSE
  /\ cancelled' = parentDone

\* The critical section of Stop.  The wait for the goroutines comes after it.
StopScheduler ==
  /\ running
  /\ cancelled' = TRUE
  /\ running' = FALSE
  /\ paused' = FALSE

-----------------------------------------------------------------------------
(* ExecuteExclusive *)

\* Mutant: calls are not serialized.
LockExclusiveUnguarded(t) ==
  /\ pc[t] = "lock"
  /\ exclusiveMu' = t
  /\ failed' = [failed EXCEPT ![t] = FALSE]
  /\ GoTo(t, "pauseEnter")
  /\ UNCHANGED <<stateVars, next, handleVars>>

LockExclusive(t) ==
  /\ pc[t] = "lock"
  /\ exclusiveMu = NoThread
  /\ exclusiveMu' = t
  /\ failed' = [failed EXCEPT ![t] = FALSE]
  /\ GoTo(t, "pauseEnter")
  /\ UNCHANGED <<stateVars, next, handleVars>>

\* fn returns, with or without an error; the deferred ResumeAll follows.
FinishExclusive(t) ==
  /\ pc[t] = "run"
  /\ GoTo(t, "resumeEnter")
  /\ UNCHANGED <<stateVars, exclusiveMu, next, failed, handleVars>>

\* Mutant: a return that does not unlock.
UnlockExclusiveForgotten(t) ==
  /\ pc[t] = "unlock"
  /\ GoTo(t, "idle")
  /\ UNCHANGED <<stateVars, exclusiveMu, next, failed, handleVars>>

UnlockExclusive(t) ==
  /\ pc[t] = "unlock"
  /\ exclusiveMu' = NoThread
  /\ GoTo(t, "idle")
  /\ UNCHANGED <<stateVars, next, failed, handleVars>>

-----------------------------------------------------------------------------
(* PauseAll *)

PauseFails(t, err) ==
  /\ failed' = [failed EXCEPT ![t] = TRUE]
  /\ GoTo(t, err)

PauseAllEnter(t, ok, err) ==
  /\ pc[t] = "pauseEnter"
  /\ \/ /\ ~running
        /\ PauseFails(t, err)
        /\ UNCHANGED next
     \/ /\ running /\ paused
        /\ GoTo(t, ok)
        /\ UNCHANGED <<next, failed>>
     \/ /\ running /\ ~paused
        /\ GoTo(t, "pauseSend")
        /\ next' = [next EXCEPT ![t] = 1]
        /\ UNCHANGED failed
  /\ UNCHANGED <<stateVars, exclusiveMu, handleVars>>

BroadcastPause(t) ==
  /\ pc[t] = "pauseSend"
  /\ next[t] <= NumProbes
  /\ SendCommand(next[t], CmdPause)
  /\ next' = [next EXCEPT ![t] = @ + 1]
  /\ UNCHANGED <<stateVars, exclusiveMu, pc, failed, ackChan>>

\* Mutant: nobody waits for the ACKs.
StartCollectingNone(t) ==
  /\ pc[t] = "pauseSend"
  /\ next[t] > NumProbes
  /\ GoTo(t, "pauseWait")
  /\ UNCHANGED <<stateVars, exclusiveMu, next, failed, handleVars>>

\* Every handle has been sent CmdPause: on to the second loop.
StartCollecting(t) ==
  /\ pc[t] = "pauseSend"
  /\ next[t] > NumProbes
  /\ GoTo(t, "pauseWait")
  /\ next' = [next EXCEPT ![t] = 1]
  /\ UNCHANGED <<stateVars, exclusiveMu, failed, handleVars>>

CollectAck(t) ==
  /\ pc[t] = "pauseWait"
  /\ next[t] <= NumProbes
  /\ TakeAck(next[t])
  /\ next' = [next EXCEPT ![t] = @ + 1]
  /\ UNCHANGED <<stateVars, exclusiveMu, pc, failed, cmdChan>>

\* Mutant: the wait for the ACKs does not look at the context.
PauseAllCancelledSending(t, done, err) ==
  /\ done
  /\ pc[t] = "pauseSend"
  /\ next[t] <= NumProbes
  /\ PauseFails(t, err)
  /\ UNCHANGED <<stateVars, exclusiveMu, next, handleVars>>

\* Mutant: a break that leaves the select instead of the method, so that the
\* loop goes on with the next handle.
PauseAllCancelledBreak(t, done, err) ==
  /\ done
  /\ pc[t] \in {"pauseSend", "pauseWait"}
  /\ next[t] <= NumProbes
  /\ next' = [next EXCEPT ![t] = @ + 1]
  /\ UNCHANGED <<stateVars, exclusiveMu, pc, failed, handleVars>>

\* case <-ctx.Done() of either loop.  Select may take it although the channel
\* operation is ready as well.
PauseAllCancelled(t, done, err) ==
  /\ done
  /\ pc[t] \in {"pauseSend", "pauseWait"}
  /\ next[t] <= NumProbes
  /\ PauseFails(t, err)
  /\ UNCHANGED <<stateVars, exclusiveMu, next, handleVars>>

\* The last critical section.  It does not look at s.running again.
PauseAllFinish(t, ok) ==
  /\ pc[t] = "pauseWait"
  /\ next[t] > NumProbes
  /\ paused' = TRUE
  /\ GoTo(t, ok)
  /\ UNCHANGED <<running, cancelled, exclusiveMu, next, failed, handleVars>>

-----------------------------------------------------------------------------
(* ResumeAll *)

\* Mutants: the broadcast begins one too early, one too late.
ResumeAllEnterAtZero(t, ret) ==
  /\ pc[t] = "resumeEnter"
  /\ GoTo(t, IF running /\ paused THEN "resumeSend" ELSE ret)
  /\ next' = [next EXCEPT ![t] = 0]
  /\ UNCHANGED <<stateVars, exclusiveMu, failed, handleVars>>

ResumeAllEnterAtTwo(t, ret) ==
  /\ pc[t] = "resumeEnter"
  /\ GoTo(t, IF running /\ paused THEN "resumeSend" ELSE ret)
  /\ next' = [next EXCEPT ![t] = 2]
  /\ UNCHANGED <<stateVars, exclusiveMu, failed, handleVars>>

ResumeAllEnter(t, ret) ==
  /\ pc[t] = "resumeEnter"
  /\ \/ /\ ~running \/ ~paused
        /\ GoTo(t, ret)
        /\ UNCHANGED next
     \/ /\ running /\ paused
        /\ GoTo(t, "resumeSend")
        /\ next' = [next EXCEPT ![t] = 1]
  /\ UNCHANGED <<stateVars, exclusiveMu, failed, handleVars>>

BroadcastResume(t) ==
  /\ pc[t] = "resumeSend"
  /\ next[t] <= NumProbes
  /\ SendCommand(next[t], CmdResume)
  /\ next' = [next EXCEPT ![t] = @ + 1]
  /\ UNCHANGED <<stateVars, exclusiveMu, pc, failed, ackChan>>

\* case <-ctx.Done(): the rest of the handles get no CmdResume, and s.paused
\* stays set.
ResumeAllCancelled(t, done, ret) ==
  /\ done
  /\ pc[t] = "resumeSend"
  /\ next[t] <= NumProbes
  /\ GoTo(t, ret)
  /\ UNCHANGED <<stateVars, exclusiveMu, next, failed, handleVars>>

\* Mutant: s.paused is left set.
ResumeAllFinishUnmarked(t, ret) ==
  /\ pc[t] = "resumeSend"
  /\ next[t] > NumProbes
  /\ GoTo(t, ret)
  /\ UNCHANGED <<stateVars, exclusiveMu, next, failed, handleVars>>

ResumeAllFinish(t, ret) ==
  /\ pc[t] = "resumeSend"
  /\ next[t] > NumProbes
  /\ paused' = FALSE
  /\ GoTo(t, ret)
  /\ UNCHANGED <<running, cancelled, exclusiveMu, next, failed, handleVars>>

=============================================================================
