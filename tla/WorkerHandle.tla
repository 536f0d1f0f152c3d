---------------------------- MODULE WorkerHandle ----------------------------
(***************************************************************************)
(* The two channels that join the Scheduler to one probe goroutine         *)
(* (internal/scheduler/scheduler.go, type workerHandle).  Both are         *)
(* buffered with capacity one, so each is a single slot: cmdChan holds the *)
(* command that has been sent and not yet received, ackChan tells whether  *)
(* an acknowledgement is waiting.  A send blocks while the slot is full, a *)
(* receive blocks while it is empty.                                       *)
(*                                                                         *)
(* Only the handles of the non-exclusive workers appear: PauseAll and      *)
(* ResumeAll skip the exclusive ones, so nothing is ever put in theirs.    *)
(***************************************************************************)
EXTENDS Naturals

CONSTANT NumProbes      \* how many non-exclusive workers are registered

ASSUME NumProbesAssumption == NumProbes \in Nat

VARIABLES
  cmdChan,              \* cmdChan[w]: the command in w's buffer, or Empty
  ackChan               \* ackChan[w]: is there an ACK in w's buffer?

handleVars == <<cmdChan, ackChan>>

\* A probe is named by its place in s.workers, the order in which PauseAll
\* and ResumeAll visit it.
Probes == 1 .. NumProbes

\* The Scheduler sends these two.  CmdStop is declared, and obeyed by the
\* probes, but nothing in the program sends it: Stop cancels the context.
CmdPause  == "CmdPause"
CmdResume == "CmdResume"
Empty     == "Empty"

HandleTypeOK ==
  /\ cmdChan \in [Probes -> {CmdPause, CmdResume, Empty}]
  /\ ackChan \in [Probes -> BOOLEAN]

HandleInit ==
  /\ cmdChan = [w \in Probes |-> Empty]
  /\ ackChan = [w \in Probes |-> FALSE]

SendCommand(w, cmd) ==
  /\ cmdChan[w] = Empty
  /\ cmdChan' = [cmdChan EXCEPT ![w] = cmd]

\* The receive takes the command out; the receiver looks at cmdChan[w].
TakeCommand(w) ==
  /\ cmdChan[w] # Empty
  /\ cmdChan' = [cmdChan EXCEPT ![w] = Empty]

SendAck(w) ==
  /\ ~ackChan[w]
  /\ ackChan' = [ackChan EXCEPT ![w] = TRUE]

TakeAck(w) ==
  /\ ackChan[w]
  /\ ackChan' = [ackChan EXCEPT ![w] = FALSE]

=============================================================================
