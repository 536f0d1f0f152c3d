------------------------------ MODULE Lifetimes -----------------------------
(***************************************************************************)
(* What RunApp promises about the goroutines that the Scheduler launches   *)
(* for it, seen from outside (internal/scheduler/scheduler.go:231, "all    *)
(* running workers gracefully"): no locks, no pauses, no configuration.    *)
(*                                                                         *)
(* They are launched together, once.  Each of them measures before it does *)
(* anything else, is never interrupted in a measurement, and leaves only   *)
(* after the shutdown has been requested; the run is over only when all of *)
(* them have left.  A setup that fails launches nobody.                    *)
(***************************************************************************)
VARIABLES
  doing,                \* worker |-> "new", "checking", "idle" or "exited"
  stage,                \* "before", "serving" or "over"
  asked                 \* has the shutdown been requested?

lifeVars == <<doing, stage, asked>>

LifeInit ==
  /\ doing = <<>>
  /\ stage = "before"
  /\ asked = FALSE

Launch ==
  /\ stage = "before"
  /\ doing' \in [DOMAIN doing' -> {"new"}]
  /\ stage' = "serving"
  /\ UNCHANGED asked

Begin(w) ==
  /\ doing[w] \in {"new", "idle"}
  /\ doing' = [doing EXCEPT ![w] = "checking"]
  /\ UNCHANGED <<stage, asked>>

End(w) ==
  /\ doing[w] = "checking"
  /\ doing' = [doing EXCEPT ![w] = "idle"]
  /\ UNCHANGED <<stage, asked>>

Leave(w) ==
  /\ asked
  /\ doing[w] = "idle"
  /\ doing' = [doing EXCEPT ![w] = "exited"]
  /\ UNCHANGED <<stage, asked>>

Ask ==
  /\ asked' = TRUE
  /\ UNCHANGED <<doing, stage>>

Over ==
  /\ stage = "serving" /\ asked
  /\ \A w \in DOMAIN doing : doing[w] = "exited"
  /\ stage' = "over"
  /\ UNCHANGED <<doing, asked>>

\* The setup fails, or the request comes before anybody listens to it.
Abandon ==
  /\ stage = "before"
  /\ stage' = "over"
  /\ asked' \in {asked, TRUE}
  /\ UNCHANGED doing

LifeNext ==
  \/ Launch \/ Ask \/ Over \/ Abandon
  \/ \E w \in DOMAIN doing : Begin(w) \/ End(w) \/ Leave(w)

LifeSpec == LifeInit /\ [][LifeNext]_lifeVars

=============================================================================
