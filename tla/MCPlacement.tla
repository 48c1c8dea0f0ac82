---------------------------- MODULE MCPlacement ----------------------------
\* Small fleets: budgets and ages around the bounds, every disposition of a claim.
EXTENDS Fleets

PriorityMC == [w \in Workload |-> CASE w = "batch" -> 0 [] w = "neutral" -> 1
                                    [] w = "interactive" -> 2]

RowMC(m, b, a, l, g) == [model |-> m, budget |-> b, age |-> a, lease |-> l, prio |-> 1,
                         span |-> IF g THEN 2 ELSE 1, group |-> g]
Claimed == {"none", "preemptible", "shield"}
RowsMC == {RowMC(1, b, a, l, FALSE) : b \in 0..2, a \in 0..MaxAge, l \in Claimed}
          \union {RowMC(1, 0, a, l, TRUE) : a \in {0, MaxAge}, l \in Claimed}

NodesMC == [unit : {"s"}, kind : {"spark"}, swap : {FALSE}, usage : {"idle"}, rows : {<<>>},
            inflight : 0..1, want : 1..2, whole : BOOLEAN, slot : {TRUE}, refused : {FALSE},
            proven : BOOLEAN, blocked : {FALSE}, est : {1}, fill : {0}, order : {1},
            members : {1}]

LaneWith(u, rows) ==
    [unit |-> "g", kind |-> "gpu", swap |-> FALSE, usage |-> u, rows |-> rows, inflight |-> 0,
     want |-> 0, whole |-> FALSE, slot |-> TRUE,
     refused |-> rows # <<>> /\ Head(rows).lease = "shield",
     proven |-> TRUE, blocked |-> FALSE, est |-> 1, fill |-> 0, order |-> 2, members |-> 1]
BusyLane == LaneWith("active", <<RowMC(9, 0, 0, "none", FALSE)>>)
LanesMC == {LaneWith(u, <<RowMC(m, 0, 0, l, FALSE)>>) :
               u \in {"idle", "active"}, m \in {Wanted, 9}, l \in Claimed}
           \union {LaneWith("free", <<>>)}

\* the Spark fills up beside a lane that cannot be had
LimitMC == [l \in LanesMC |-> IF l = BusyLane THEN Slots ELSE 1]
=============================================================================
