------------------------------- MODULE Fleets -------------------------------
(***************************************************************************)
(* rank() over fleets of a DGX Spark that fills up row by row and a GPU    *)
(* lane: one request, one decision, against what the rules promise and     *)
(* against the node's own admission (Fits of module SparkNode).  Models    *)
(* are numbers; the request is for model 0.                                *)
(***************************************************************************)
EXTENDS Placement

CONSTANTS
    Nodes, Lanes,   \* the Spark while it is empty; the lane
    Rows,           \* what may become resident on the Spark
    Slots,          \* ports of the Spark
    Limit           \* [Lanes -> bound on the rows of the Spark beside that lane]

Wanted == 0

Row == [model : Nat, budget : Nat, age : 0..MaxAge, lease : {"none", "preemptible", "shield"},
        prio : Nat, span : Nat \ {0}, group : BOOLEAN]
Candidate(kind) ==
    [unit : STRING \ {""}, kind : {kind}, swap : BOOLEAN, usage : {"free", "idle", "active"},
     rows : Seq(Row), inflight : Nat, want : Nat, whole : BOOLEAN, slot : BOOLEAN,
     refused : BOOLEAN, proven : BOOLEAN, blocked : BOOLEAN, est : Nat, fill : Nat,
     order : Nat, members : Nat]

ASSUME FleetsAssumption ==
    /\ Slots \in Nat \ {0} /\ Limit \in [Lanes -> 0..Slots] /\ Rows \subseteq Row
    /\ Nodes \subseteq Candidate("spark") /\ Lanes \subseteq Candidate("gpu")
    /\ \A n \in Nodes : n.rows = <<>> /\ n.slot
    /\ \A l \in Lanes : Len(l.rows) = IF l.usage = "free" THEN 0 ELSE 1
    /\ \A n \in Nodes, l \in Lanes : n.unit # l.unit /\ n.order # l.order

VARIABLES spark, lane, wl, decision
fleetVars == <<spark, lane, wl, decision>>

Undecided == Refusal("")

FleetInit ==
    /\ spark \in Nodes /\ lane \in Lanes /\ wl \in Workload
    /\ decision = Undecided

\* another model is resident; a node has at most one row of a group
Fill ==
    /\ decision = Undecided
    /\ Len(spark.rows) < Limit[lane]
    /\ \E r \in Rows :
          /\ r.group => ~\E i \in DOMAIN spark.rows : spark.rows[i].group
          /\ LET n == Len(spark.rows) + 1
             IN  spark' = [spark EXCEPT !.rows = Append(@, [r EXCEPT !.model = n]),
                                        !.slot = n < Slots]
    /\ UNCHANGED <<lane, wl, decision>>

Decide ==
    /\ decision = Undecided
    /\ decision' = Rank(Wanted, {spark, lane}, {}, wl)
    /\ UNCHANGED <<spark, lane, wl>>

FleetNext == Fill \/ Decide
FleetSpec == FleetInit /\ [][FleetNext]_fleetVars

-----------------------------------------------------------------------------

Gone == {i \in DOMAIN spark.rows :
            spark.rows[i].model \in decision.victims \union decision.groups}
\* SparkUnit._admit over what stays, and what is in flight
Admits(V) ==
    LET stay == DOMAIN spark.rows \ V
    IN  IF spark.whole THEN stay = {}
        ELSE /\ \A i \in stay : spark.rows[i].budget > 0
             /\ Cardinality(stay) < Slots
             /\ Budgets(spark, stay) + spark.inflight + spark.want <= Headroom

\* Placement never sends a load to a node that is bound to refuse it once the victims are
\* gone, and refuses ("nothing admissible") only if no choice of victims would do and the
\* lane cannot be had: the sums of rank() and the rule of _admit agree.
RoomIsMade ==
    /\ decision.unit = spark.unit => Admits(Gone)
    /\ decision.outcome = "no_capacity" =>
          /\ Fresh(lane) => ~LaneEvictable(lane, Priority[wl]) \/ lane.refused
          /\ Fresh(spark) /\ ~spark.refused =>
                ~\E V \in SUBSET {i \in DOMAIN spark.rows :
                                     VictimEligible(spark.rows[i], Priority[wl])} : Admits(V)

\* "active-and-unleased stays protected", a shield shields, an active preemptible claim
\* yields to higher priority only: of whatever a decision displaces, also of the models
\* that have to go first because they have no budget, and of the occupant of a lane.
ProtectedAreSpared ==
    LET Yields(r, idle) ==
            /\ r.lease # "shield"
            /\ ~idle => r.lease = "preemptible" /\ r.prio < Priority[wl]
    IN  /\ \A i \in Gone : Yields(spark.rows[i], spark.rows[i].age > Window)
        /\ decision.unit = lane.unit /\ decision.tier = "displace" =>
              Yields(Head(lane.rows), lane.usage = "idle")
=============================================================================
