----------------------------- MODULE ClaimBoard -----------------------------
(***************************************************************************)
(* What the lease table promises the rest of the system: a board of live   *)
(* claims that changes only by a grant, an extension by the same holder,   *)
(* the end of claims, or the return of one that had lapsed.  Leases        *)
(* implements it; the modules of the components that consult leases are    *)
(* composed with this board instead of the table, so that lifetimes, grace *)
(* windows and history do not multiply their states.                       *)
(***************************************************************************)
EXTENDS Claims

CONSTANTS MaxLeases,   \* bound on the claims granted in one behaviour
          MaxPriority

VARIABLES board,       \* id -> claim, the live claims
          nextId       \* ids below it have been granted

boardVars == <<board, nextId>>

Claim == [unit : Units, holder : Holders, model : Scopes,
          preemptible : BOOLEAN, priority : 0..MaxPriority]

BoardInit == board = <<>> /\ nextId = 1

\* A new claim replaces every claim it overlaps, and may replace another holder's
\* only where that one is preemptible.
Grant(c) ==
    LET over == {i \in DOMAIN board : /\ board[i].unit = c.unit
                                      /\ Overlap(board[i].model, c.model)}
    IN  /\ nextId <= MaxLeases
        /\ \A i \in over : board[i].holder = c.holder \/ board[i].preemptible
        /\ board' = [i \in (DOMAIN board \ over) \union {nextId} |->
                        IF i = nextId THEN c ELSE board[i]]
        /\ nextId' = nextId + 1

\* The holder re-states its claim: same unit, same model or one of the unit's.
Extend(i, c) ==
    /\ c.unit = board[i].unit /\ c.holder = board[i].holder
    /\ board[i].model \in {c.model, Whole}
    /\ board' = [board EXCEPT ![i] = c]
    /\ UNCHANGED nextId

\* Claims end: released, revoked, preempted by an eviction, lapsed, unused.
End(S) ==
    /\ board' = [i \in DOMAIN board \ S |-> board[i]]
    /\ UNCHANGED nextId

\* A claim that had lapsed is renewed inside its grace window -- whoever may have
\* claimed the unit meanwhile.
Return(i, c) ==
    /\ i < nextId /\ i \notin DOMAIN board
    /\ board' = [j \in DOMAIN board \union {i} |-> IF j = i THEN c ELSE board[j]]
    /\ UNCHANGED nextId

BoardNext ==
    \/ \E c \in Claim : Grant(c)
    \/ \E i \in DOMAIN board : \E c \in Claim : Extend(i, c)
    \/ \E S \in SUBSET DOMAIN board : End(S)
    \/ \E i \in 1..MaxLeases, c \in Claim : Return(i, c)

BoardSpec == BoardInit /\ [][BoardNext]_boardVars
=============================================================================
