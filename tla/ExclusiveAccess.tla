--------------------------- MODULE ExclusiveAccess --------------------------
(***************************************************************************)
(* What the Scheduler promises to the tasks that need the network for      *)
(* themselves (internal/scheduler/scheduler.go:209 and FR4 of              *)
(* specs/requirements.md), with nothing of how it keeps the promise: no    *)
(* commands, no acknowledgements, no locks, no program locations.          *)
(*                                                                         *)
(* Probes measure whenever they like while no task is in progress.  A task *)
(* begins when no probe is measuring and no other task is in progress, and *)
(* no measurement begins before it ends.  Once the shutdown has begun      *)
(* measurements may begin beside a task (it is being cancelled like        *)
(* everything else), but still no second task; and when the shutdown is    *)
(* complete nothing uses the network any more.                             *)
(***************************************************************************)
CONSTANTS
  Probes,               \* the non-exclusive probes
  Tasks                 \* those that run exclusive tasks

VARIABLES
  measuring,            \* the probes that are using the network
  tasks,                \* the tasks in progress: at most one, BeginTask says
  phase                 \* "open", "closing" or "closed"

accessVars == <<measuring, tasks, phase>>

AccessTypeOK ==
  /\ measuring \subseteq Probes
  /\ tasks \subseteq Tasks
  /\ phase \in {"open", "closing", "closed"}

AccessInit ==
  /\ measuring = {}
  /\ tasks = {}
  /\ phase = "open"

BeginMeasurement(p) ==
  /\ phase # "closed"
  /\ phase = "open" => tasks = {}
  /\ measuring' = measuring \cup {p}
  /\ UNCHANGED <<tasks, phase>>

EndMeasurement(p) ==
  /\ measuring' = measuring \ {p}
  /\ UNCHANGED <<tasks, phase>>

BeginTask(t) ==
  /\ phase # "closed"
  /\ tasks = {}
  /\ phase = "open" => measuring = {}
  /\ tasks' = {t}
  /\ UNCHANGED <<measuring, phase>>

EndTask(t) ==
  /\ tasks' = tasks \ {t}
  /\ UNCHANGED <<measuring, phase>>

BeginClosing ==
  /\ phase = "open"
  /\ phase' = "closing"
  /\ UNCHANGED <<measuring, tasks>>

Close ==
  /\ phase = "closing"
  /\ measuring = {}
  /\ tasks = {}
  /\ phase' = "closed"
  /\ UNCHANGED <<measuring, tasks>>

AccessNext ==
  \/ \E p \in Probes : BeginMeasurement(p) \/ EndMeasurement(p)
  \/ \E t \in Tasks : BeginTask(t) \/ EndTask(t)
  \/ BeginClosing
  \/ Close

AccessSpec == AccessInit /\ [][AccessNext]_accessVars

=============================================================================
