------------------------------ MODULE FireEvents ------------------------------
(***************************************************************************)
(* reconcile_events (fire_events.py): which detections are one fire event. *)
(*                                                                         *)
(* Detections are numbered in the order of their ids and lie on a line, so *)
(* that a grid cell has two neighbours instead of 26.  The code goes       *)
(* through them in the order of time; a step is one round of its loop.     *)
(***************************************************************************)
EXTENDS Integers, FiniteSets, FiniteSetsExt

CONSTANTS
    Detections,     \* indices in canonical order
    Places,         \* positions on the line, km
    Times,          \* hours
    FuelChoices,    \* fuel prefixes the detections may have
    Reach,          \* config.maximum_distance_km
    SpreadRate,     \* config.maximum_spread_km_per_hour
    MaxGap          \* config.maximum_time_gap_hours

ASSUME EventAssumption ==
    /\ Detections \subseteq Nat /\ IsFiniteSet(Detections)
    /\ Places \subseteq Nat /\ Times \subseteq Nat
    /\ Reach \in Nat \ {0} /\ SpreadRate \in Nat /\ MaxGap \in Nat

VARIABLES
    place, time, fuel,  \* the detections of load_detections
    clustered,      \* those the loop has gone through
    active,         \* those of them inside the time window, in the buckets
    parent,         \* the union-find forest
    nearestPossible \* the two nearest admissible predecessors

eventVars == <<place, time, fuel, clustered, active, parent, nearestPossible>>

EventTypeOK ==
    /\ place \in [Detections -> Places]
    /\ time \in [Detections -> Times]
    /\ fuel \in FuelChoices
    /\ active \subseteq clustered /\ clustered \subseteq Detections
    /\ parent \in [Detections -> Detections]
    /\ nearestPossible \in [Detections -> SUBSET Detections]

EventInit ==
    /\ place \in [Detections -> Places]
    /\ time \in [Detections -> Times]
    /\ fuel \in FuelChoices
    /\ clustered = {} /\ active = {}
    /\ parent = [i \in Detections |-> i]
    /\ nearestPossible = [i \in Detections |-> {}]

-----------------------------------------------------------------------------
Distance(i, j) == IF place[i] > place[j] THEN place[i] - place[j] ELSE place[j] - place[i]
Gap(i, j) == IF time[i] > time[j] THEN time[i] - time[j] ELSE time[j] - time[i]
Within(i, j) == Distance(i, j) <= Reach + Gap(i, j) * SpreadRate

\* Chronological order.
Earlier(i, j) == time[i] < time[j] \/ (time[i] = time[j] /\ i < j)

\* Among the admissible predecessors S of j, by distance and index.
TwoNearest(S, j) ==
    LET closer(a, b) == \/ Distance(a, j) < Distance(b, j)
                        \/ Distance(a, j) = Distance(b, j) /\ a < b
    IN  {i \in S : Cardinality({h \in S : closer(h, i)}) < 2}

\* Mutant: the growth of a fire is forgotten.
ReachOnly == Reach

\* A cell is as large as the largest matching envelope.
CellSize == Reach + MaxGap * SpreadRate

Cell(i) == place[i] \div CellSize
Neighbouring(i, j) == Cell(i) - Cell(j) \in -1..1 /\ fuel[i] = fuel[j]

Root(i) ==
    LET find[j \in Detections] == IF parent[j] = j THEN j ELSE find[parent[j]]
    IN  find[i]

\* Mutant: a detection joins the event of one predecessor only.
UnionFirst(roots, right) ==
    IF roots = {} THEN parent
    ELSE [parent EXCEPT ![Max({Min(roots), right})] = Min({Min(roots), right})]

\* One union per existing component, each under the smaller root.
UnionAll(roots, right) ==
    [i \in Detections |-> IF i \in roots \cup {right} THEN Min(roots \cup {right})
                                                      ELSE parent[i]]

Cluster(right) ==
    /\ right \notin clustered
    /\ \A i \in Detections \ clustered : i = right \/ Earlier(right, i)
    /\ LET open == {i \in active : Gap(i, right) <= MaxGap}
           eligible == {i \in open : Neighbouring(i, right) /\ Within(i, right)}
       IN  /\ parent' = UnionAll({Root(i) : i \in eligible}, right)
           /\ nearestPossible' = [nearestPossible EXCEPT ![right] = TwoNearest(eligible, right)]
           /\ active' = open \cup {right}
    /\ clustered' = clustered \cup {right}
    /\ UNCHANGED <<place, time, fuel>>

EventNext == \E i \in Detections : Cluster(i)

EventSpec == EventInit /\ [][EventNext]_eventVars

-----------------------------------------------------------------------------
(* Properties.                                                             *)

\* The match relation of the configuration, over all pairs.
Linked(i, j) == fuel[i] = fuel[j] /\ Gap(i, j) <= MaxGap /\ Within(i, j)

\* The time window, the grid and the single union per component lose nothing:
\* an event is a smallest set of detections that holds every match of its
\* members, a connected component of the relation.
EventsAreComponents ==
    LET links == [i \in clustered |-> {j \in clustered : Linked(i, j)}]
        closed == {S \in SUBSET clustered : \A i \in S : links[i] \subseteq S}
        root == [i \in clustered |-> Root(i)]
    IN  \A i \in clustered :
            LET event == {j \in clustered : root[j] = root[i]}
            IN  event \in closed /\ \A S \in closed : i \in S => event \subseteq S

\* The predecessors an ambiguity warning is based on are the two nearest of
\* all detections before, not only of those the window and the grid offered.
NearestAreNearest ==
    \A j \in clustered :
        nearestPossible[j] =
            TwoNearest({i \in clustered : Earlier(i, j) /\ Linked(i, j)}, j)
=============================================================================
