------------------------------ MODULE MCCookbook ------------------------------
EXTENDS Cookbook, TLC

CONSTANTS u1, u2, g12, n1, m1, lone, span

MembersMC == (g12 :> {u1, u2})
CatalogMC == (u1 :> {m1, lone}) @@ (u2 :> {})
MemMC     == (m1 :> 2) @@ (lone :> 1)

Sheet(a, b, g) == [units |-> (u1 :> a) @@ (u2 :> b), groups |-> (g12 :> g)]
BooksMC == {[n \in Names |-> s] : s \in {Sheet({m1, lone}, {}, None),
                                         Sheet({}, NoRow, span), Sheet(NoRow, NoRow, span)}}
EditsMC == {Sheet({lone}, NoRow, None), Sheet(NoRow, {}, None)}
HoldsMC == {<<u1, m1>>}
Interchangeable == Permutations(Applies)
=============================================================================
