----------------------------- MODULE MCSweeper -----------------------------
(* LeaseSweeper on one unit with two models, one of them served under another name. *)
EXTENDS LeaseSweeper, TLC

CONSTANTS u1, h1, h2, m1, m2, served1

CanonMC == m1 :> m1 @@ m2 :> m2 @@ served1 :> m1
\* h1 claims the unit or one of its models, with frees; h2 insists on the other model
OffersMC ==
    {c \in Claim : \/ c.holder = h1 /\ c.preemptible /\ c.model \in {Whole, m1}
                   \/ c.holder = h2 /\ ~c.preemptible /\ c.model = m2}
=============================================================================
