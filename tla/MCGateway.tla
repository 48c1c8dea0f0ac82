------------------------------ MODULE MCGateway ------------------------------
(* A Spark of two slots and a GPU lane, two models that both can take. *)
EXTENDS Gateway

CONSTANTS s, l, r1, r2, a, b

PriorityMC == [w \in Workload |-> CASE w = "batch" -> 0 [] w = "neutral" -> 1
                                    [] w = "interactive" -> 2]
OrderMC == l :> 1 @@ s :> 2
PortsMC == l :> {1} @@ s :> {1, 2}
MemMC   == a :> 1 @@ b :> 2
AskedMC == {[model |-> a, kind |-> "chat", pin |-> None, wl |-> "interactive"],
            [model |-> b, kind |-> "pooling", pin |-> l, wl |-> "batch"],
            [model |-> b, kind |-> "rest", pin |-> None, wl |-> "neutral"],
            [model |-> a, kind |-> "stream", pin |-> s, wl |-> "interactive"]}
StartMC == {l :> (1 :> b) @@ s :> (1 :> b)}
LoadsMC == {<<l, b>>}
UnloadsMC == {<<s, b>>}
RequestSymmetry == Permutations(Requests)
=============================================================================
