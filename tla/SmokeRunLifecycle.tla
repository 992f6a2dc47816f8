-------------------------- MODULE SmokeRunLifecycle --------------------------
(***************************************************************************)
(* What the smoke-simulation queue promises about one run, whatever the    *)
(* number of submitters and workers, the phase a worker is in, and the     *)
(* point at which a worker dies:                                           *)
(*                                                                         *)
(*   absent -> waiting -> running -> published                             *)
(*                |          |  \                                          *)
(*                |          |   -> stopping                               *)
(*                v          v        v                                    *)
(*             stopped <- stopped <- stopped                               *)
(*                                                                         *)
(* A run is submitted once, started at most once, and ends at most once;   *)
(* its output is shown from the moment it is published and never before,   *)
(* and a run somebody asked to stop is never published.                    *)
(***************************************************************************)
CONSTANT Runs

VARIABLES
    stage,      \* stage[r]: where run r is in its life
    shown       \* shown[r]: the public timeline offers the output of r

vars == <<stage, shown>>

Stages == {"absent", "waiting", "running", "stopping", "published", "stopped"}

Init ==
    /\ stage = [r \in Runs |-> "absent"]
    /\ shown = [r \in Runs |-> FALSE]

Move(r, from, to) ==
    /\ stage[r] = from
    /\ stage' = [stage EXCEPT ![r] = to]

Submit(r)      == Move(r, "absent", "waiting")   /\ UNCHANGED shown
Start(r)       == Move(r, "waiting", "running")  /\ UNCHANGED shown
Withdraw(r)    == Move(r, "waiting", "stopped")  /\ UNCHANGED shown
RequestStop(r) == Move(r, "running", "stopping") /\ UNCHANGED shown

Stop(r) ==
    /\ Move(r, "running", "stopped") \/ Move(r, "stopping", "stopped")
    /\ UNCHANGED shown

Publish(r) ==
    /\ Move(r, "running", "published")
    /\ shown' = [shown EXCEPT ![r] = TRUE]

Next ==
    \E r \in Runs :
        \/ Submit(r) \/ Start(r) \/ Withdraw(r)
        \/ RequestStop(r) \/ Stop(r) \/ Publish(r)

Spec == Init /\ [][Next]_vars
=============================================================================
