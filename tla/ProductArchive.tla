---------------------------- MODULE ProductArchive ----------------------------
(***************************************************************************)
(* What the historical archive of one product promises (docs/ingestion.md, *)
(* "Historical retention"): a slot that was published stays published, a   *)
(* run that was shown stays shown, and a run is shown only with its core.  *)
(***************************************************************************)
CONSTANTS
    Slots,      \* one per source object
    Runs,       \* run times
    RunOf,      \* RunOf[s]: the run of a slot
    FieldOf,    \* FieldOf[s]: the field of a slot
    Required    \* fields without which a run is not shown

VARIABLES
    slot,       \* unknown, known, given up ("gap") or published
    shown       \* the runs the catalogue shows

archive == <<slot, shown>>

Published(r) == {s \in Slots : RunOf[s] = r /\ slot[s] = "published"}
HasCore(r) ==
    /\ Published(r) # {}
    /\ \A f \in Required : \E s \in Published(r) : FieldOf[s] = f

Init ==
    /\ slot = [s \in Slots |-> "unknown"]
    /\ shown = {}

\* One manifest names slots of one run.
Discover(S) ==
    /\ \A s \in S, t \in S : RunOf[s] = RunOf[t]
    /\ \A s \in S : slot[s] = "unknown"
    /\ slot' = [s \in Slots |-> IF s \in S THEN "known" ELSE slot[s]]
    /\ UNCHANGED shown

Move(s, from, to) ==
    /\ slot[s] = from
    /\ slot' = [slot EXCEPT ![s] = to]
    /\ UNCHANGED shown

Show(r) ==
    /\ HasCore(r)
    /\ shown' = shown \cup {r}
    /\ UNCHANGED slot

Next ==
    \/ \E S \in SUBSET Slots : Discover(S)
    \/ \E s \in Slots : \/ Move(s, "known", "published")
                        \/ Move(s, "known", "gap")
                        \/ Move(s, "gap", "known")
    \/ \E r \in Runs : Show(r)

Spec == Init /\ [][Next]_archive
=============================================================================
