----------------------------- MODULE MCSparkNode -----------------------------
(* A node of two slots: one model, and one that is to be alone. *)
EXTENDS SparkNode, TLC

CONSTANTS s1, h1, h2, t1, t2, a, w

CanonMC == [n \in Names |-> n]
\* in twentieths of the node
MemMC   == [n \in Models |-> 9]

Load(m, V, p, f, by) == [kind |-> "load", model |-> m, force |-> f, evict |-> V,
                         priority |-> p, by |-> by]
Unload(m) == [kind |-> "unload", model |-> m, force |-> FALSE, evict |-> {},
              priority |-> NoPriority, by |-> None]

\* loads with and without force (a is barred and for several nodes), one that displaces the
\* neighbour, an unload
RequestsMC ==
    {Load(a, {}, NoPriority, FALSE, None), Load(a, {}, NoPriority, TRUE, None),
     Load(w, {a}, 1, FALSE, h1), Load(w, {}, 0, FALSE, None), Load(w, {}, NoPriority, TRUE, None),
     Unload(a)}

OffersMC == {c \in Claim : \/ c.holder = h1 /\ ~c.preemptible /\ c.model = a /\ c.priority = 0
                           \/ c.holder = h2 /\ c.preemptible /\ c.model = a /\ c.priority = 0}

TaskSymmetry == Permutations(Tasks)
=============================================================================
