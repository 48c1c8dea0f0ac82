------------------------------ MODULE MCGroups ------------------------------
(* Three nodes, a group of the first two and a group of all three, one model. *)
EXTENDS Groups, TLC

CONSTANTS n1, n2, n3, A, B, t1, t2, m1

MembersMC == A :> <<n1, n2>> @@ B :> <<n1, n2, n3>>
BootMC == <<A, B>>

Group(k, g, m, f) == [unit |-> g, kind |-> k, model |-> m, force |-> f]
Node(k, n, w, d) == [unit |-> n, kind |-> k, wide |-> w, default |-> d]

RequestsMC ==
    {Group("load", A, m1, TRUE), Group("load", B, m1, FALSE), Group("unload", A, Unnamed, FALSE),
     Group("unload", A, m1, FALSE), Group("unload", B, m1, FALSE), Group("evict", B, Unnamed, FALSE),
     Node("load", n1, TRUE, FALSE), Node("load", n2, FALSE, TRUE), Node("unload", n2, TRUE, FALSE),
     Node("unload", n2, FALSE, FALSE)}
RunningMC == {[group |-> g, model |-> m1, by |-> None, up |-> TRUE] : g \in {A, B}}

TaskSymmetry == Permutations(Tasks)
=============================================================================
