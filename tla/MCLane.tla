------------------------------- MODULE MCLane -------------------------------
(* A lane with one Ollama tag and one vLLM alias, two requests and the reaper. *)
EXTENDS Lane, TLC

CONSTANTS u1, h1, h2, t1, t2, o1, v1

CanonMC == [n \in Names |-> n]

Load(s, m, by, p, f) ==
    [kind |-> "load", server |-> s, model |-> m, force |-> f, pack |-> f,
     priority |-> p, by |-> by]
Unload(s, m) ==
    [kind |-> "unload", server |-> s, model |-> m, force |-> FALSE, pack |-> FALSE,
     priority |-> NoPriority, by |-> None]

\* an explicit load with max_pack, one driven by placement, and every shape of unload
RequestsMC ==
    {Load("ollama", o1, None, NoPriority, TRUE), Load("vllm", v1, h1, 1, FALSE),
     Unload("vllm", Unnamed), Unload(Unnamed, o1)}

\* h1 insists on the alias; h2 on the tag, or has the unit preemptibly
OffersMC ==
    {c \in Claim :
        /\ c.priority = 0
        /\ \/ c.holder = h1 /\ ~c.preemptible /\ c.model = v1
           \/ c.holder = h2 /\ c.model = IF c.preemptible THEN Whole ELSE o1}

\* loads of a tag and of a blocked alias, which only a forced load gets past
RequestsLive ==
    {Load("ollama", o1, None, NoPriority, TRUE), Load("vllm", v1, h1, NoPriority, FALSE),
     Load("vllm", v1, h2, NoPriority, TRUE)}

TaskSymmetry == Permutations(Tasks)
=============================================================================
