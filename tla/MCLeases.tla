------------------------------ MODULE MCLeases ------------------------------
(* Leases on a small instance: one unit with two models. *)
EXTENDS Leases, TLC

CONSTANTS u1, h1, h2, m1, m2

CanonPlain == [n \in Names |-> n]
Symmetry == Permutations(Holders) \union Permutations(Models)

\* What no action and no property tells apart is not told apart: of a lease that has ended
\* for good, whether it was taken from its holder; of a queued free, for whom it is queued;
\* of a revival, whose lease has ended.
Gone(l)  == l.state \in {"released", "revoked"} \/ (l.state = "expired" /\ l.left <= -Grace)
Taken(l) == l.state = "revoked" /\ ~l.preemptible /\ l.by \notin {l.holder, Operator}
Distinct == <<nextId, {k \in DOMAIN pending : pending[k] # NoFree},
              [i \in DOMAIN leases |-> IF Gone(leases[i]) THEN <<Taken(leases[i])>>
                                      ELSE <<i \in regained, leases[i]>>]>>
=============================================================================
