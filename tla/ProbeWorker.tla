----------------------------- MODULE ProbeWorker ----------------------------
(***************************************************************************)
(* The goroutine of a non-exclusive probe: the Start method that the ICMP, *)
(* DNS, HTTP, TCP and MTR probes share line for line                       *)
(* (internal/probes/icmp.go:89 and its four copies).                       *)
(*                                                                         *)
(* The loop is a select over ctx.Done(), cmdChan and the ticker.  Go picks *)
(* among the ready cases at random, so a ready tick may win over a waiting *)
(* command or over a cancelled context.  The first check runs before the   *)
(* loop is entered: a probe looks at no command until it has measured.     *)
(* What a check measures is the subject of other modules; here it is the   *)
(* interval during which the probe uses the network.                       *)
(*                                                                         *)
(* The argument `done' of an action says whether the context handed to     *)
(* Start has been cancelled.                                               *)
(***************************************************************************)
EXTENDS WorkerHandle

VARIABLE probe          \* probe[w]: where the goroutine of w is

workerVars == <<probe, cmdChan, ackChan>>

ProbeLocations ==
  { "registered",       \* no goroutine yet
    "launched",         \* `go' has been executed, the goroutine has not run
    "check",            \* inside executeCheck / executeTrace
    "select",           \* at the select of the main loop
    "ack",              \* took CmdPause, at the select that sends the ACK
    "paused",           \* at the select of pauseLoop
    "exited" }

WorkerTypeOK == probe \in [Probes -> ProbeLocations]

WorkerInit == probe = [w \in Probes |-> "registered"]

Moves(w, from, to) ==
  /\ probe[w] = from
  /\ probe' = [probe EXCEPT ![w] = to]

\* The initial immediate measurement.
FirstCheck(w) ==
  /\ Moves(w, "launched", "check")
  /\ UNCHANGED handleVars

FinishCheck(w) ==
  /\ Moves(w, "check", "select")
  /\ UNCHANGED handleVars

\* The ticker fires; it may be ready at any visit to the select, including
\* the first one after a pause, since the ticker keeps one missed tick.
Tick(w) ==
  /\ Moves(w, "select", "check")
  /\ UNCHANGED handleVars

\* Mutant: the main loop takes CmdPause and does nothing about it.
ReceiveCommandDropped(w) ==
  /\ probe[w] = "select"
  /\ TakeCommand(w)
  /\ UNCHANGED <<probe, ackChan>>

\* case cmd := <-cmdChan of the main loop.  CmdResume finds the probe active
\* and is dropped.
ReceiveCommand(w) ==
  /\ probe[w] = "select"
  /\ TakeCommand(w)
  /\ probe' = [probe EXCEPT ![w] =
                 IF cmdChan[w] = CmdPause THEN "ack" ELSE "select"]
  /\ UNCHANGED ackChan

\* case ackChan <- struct{}{}
Acknowledge(w) ==
  /\ Moves(w, "ack", "paused")
  /\ SendAck(w)
  /\ UNCHANGED cmdChan

\* Mutant: CmdResume does not end the pause.
ReceiveWhilePausedDeaf(w) ==
  /\ probe[w] = "paused"
  /\ TakeCommand(w)
  /\ UNCHANGED <<probe, ackChan>>

\* case resumeCmd := <-cmdChan of pauseLoop.  A second CmdPause is taken and
\* ignored: it gets no ACK.
ReceiveWhilePaused(w) ==
  /\ probe[w] = "paused"
  /\ TakeCommand(w)
  /\ probe' = [probe EXCEPT ![w] =
                 IF cmdChan[w] = CmdResume THEN "select" ELSE "paused"]
  /\ UNCHANGED ackChan

\* Mutant: pauseLoop does not look at the context.
ObserveCancelNotPaused(w, done) ==
  /\ done
  /\ probe[w] \in {"select", "ack"}
  /\ probe' = [probe EXCEPT ![w] = "exited"]
  /\ UNCHANGED handleVars

\* case <-ctx.Done() of each of the three selects.  A command or an ACK that
\* is still in a channel stays there.
ObserveCancel(w, done) ==
  /\ done
  /\ probe[w] \in {"select", "ack", "paused"}
  /\ probe' = [probe EXCEPT ![w] = "exited"]
  /\ UNCHANGED handleVars

ProbeStep(w, done) ==
  \/ FirstCheck(w)
  \/ FinishCheck(w)
  \/ Tick(w)
  \/ ReceiveCommand(w)
  \/ Acknowledge(w)
  \/ ReceiveWhilePaused(w)
  \/ ObserveCancel(w, done)

\* What the scheduler of goroutines and the random choice of select owe a
\* probe: a check ends (every one has a timeout), and a case of a select that
\* is ready at infinitely many visits is taken at one of them.  The composing
\* module adds the same for ObserveCancel, with the context it has.
ProbeFairness(w) ==
  /\ WF_workerVars(FirstCheck(w))
  /\ WF_workerVars(FinishCheck(w))
  /\ SF_workerVars(Tick(w))
  /\ SF_workerVars(ReceiveCommand(w))
  /\ WF_workerVars(Acknowledge(w))
  /\ WF_workerVars(ReceiveWhilePaused(w))

\* A full buffer whose owner is in pauseLoop is emptied without delay; any
\* other owner may leave it full for as long as a check takes, or for ever.
SendBlocked(w) == cmdChan[w] # Empty /\ probe[w] # "paused"

-----------------------------------------------------------------------------
(* The three states of a handle that the Scheduler relies on *)

\* A probe to which nobody owes anything: no ACK waits that a later PauseAll
\* would mistake for an answer, no CmdPause that nobody waits for, and if it
\* is paused the CmdResume is on its way.
Tidy(w) ==
  /\ ~ackChan[w]
  /\ cmdChan[w] # CmdPause
  /\ probe[w] \notin {"ack", "exited"}
  /\ probe[w] = "paused" => cmdChan[w] = CmdResume

\* CmdPause has been sent to w and its ACK has not been collected.
Asked(w) ==
  \/ /\ cmdChan[w] = CmdPause
     /\ probe[w] \in {"launched", "check", "select"}
     /\ ~ackChan[w]
  \/ cmdChan[w] = Empty /\ probe[w] = "ack" /\ ~ackChan[w]
  \/ cmdChan[w] = Empty /\ probe[w] = "paused" /\ ackChan[w]

\* The ACK of w has been collected.
Held(w) == cmdChan[w] = Empty /\ probe[w] = "paused" /\ ~ackChan[w]

=============================================================================
