---------------------------- MODULE GatewayProofs ----------------------------
(***************************************************************************)
(* Theorems about placement and the requests that follow it.  First        *)
(* rank(), for every fleet: what it chooses can take the model, what it    *)
(* displaces yields, and it refuses only if nobody can.  Then requests,    *)
(* sweeps and jobs, for any number of requests and every setting: what a   *)
(* request ranks on is as fresh as promised, no job is forgotten while     *)
(* somebody needs it, a request has one load at a time, and it is sent     *)
(* where it was told to, whatever rank() answers; and everything is        *)
(* well-formed, since what it answers is well chosen.                      *)
(***************************************************************************)
EXTENDS Gateway, Fleets, FiniteSetTheorems, SequenceTheorems, WellFoundedInduction, TLAPS

-----------------------------------------------------------------------------
(* Numbers.                                                                *)

\* Numbers are well-founded: a set of them has a least one.
LEMMA MinIsLeast ==
    ASSUME NEW S, S \subseteq Nat, S # {}
    PROVE  Min(S) \in S /\ \A x \in S : Min(S) <= x
<1>1. \E x \in S : \A y \in S : ~ (<<y, x>> \in OpToRel(<, Nat))
  BY NatLessThanWellFounded, WFMin
<1>2. PICK x \in S : \A y \in S : ~ (<<y, x>> \in OpToRel(<, Nat))
  BY <1>1
<1>3. \A y \in S : <<y, x>> \in Nat \X Nat /\ <<y, x>>[1] = y /\ <<y, x>>[2] = x
  OBVIOUS
<1>4. \A y \in S : ~(y < x)
  BY <1>2, <1>3 DEF OpToRel
<1>5. \A y \in S : x <= y
  BY <1>4
<1>6. QED BY <1>5 DEF Min

\* Induction: what holds 0 and, with a number, the next, holds every number.
LEMMA AllNumbers ==
    ASSUME NEW N, 0 \in N, \A n \in Nat : n \in N => n + 1 \in N
    PROVE  Nat \subseteq N
<1> DEFINE R == Nat \ N
<1>1. SUFFICES ASSUME R # {} PROVE FALSE
  OBVIOUS
<1> DEFINE k == Min(R)
<1>2. k \in R /\ \A n \in R : k <= n
  BY <1>1, MinIsLeast
<1>3. k \in Nat \ {0} /\ k \notin N /\ \A n \in R : k <= n
  BY <1>2
<1> HIDE DEF k
<1>4. k - 1 \in Nat /\ k - 1 \in N
  BY <1>3
<1>5. QED BY <1>3, <1>4

-----------------------------------------------------------------------------
(* Keys: distinct tuples of one length have a first one.                   *)

\* keys of length n that tell their subjects apart
Keys(key, n) ==
    /\ \A x \in DOMAIN key : key[x] \in [1..n -> Nat]
    /\ \A x, y \in DOMAIN key : key[x] = key[y] => x = y

\* The candidates that agree with the first k numbers of the least keys, k = 0, 1, ..., n:
\* they never run out, and the rest comes after them.
LEMMA OneComesFirst ==
    ASSUME NEW key, NEW n \in Nat, Keys(key, n), DOMAIN key # {}
    PROVE  \E x \in DOMAIN key : \A y \in DOMAIN key \ {x} : Before(key[x], key[y])
<1> DEFINE D == DOMAIN key
           Agree(T, k) == \A x, y \in T : \A i \in 1..k : key[x][i] = key[y][i]
           Ahead(T) == \A x \in T : \A y \in D \ T : Before(key[x], key[y])
           N == {k \in Nat : k <= n =>
                    \E T \in SUBSET D : T # {} /\ Agree(T, k) /\ Ahead(T)}
<1>0. \A x \in D : key[x] = [i \in 1..n |-> key[x][i]] /\ \A i \in 1..n : key[x][i] \in Nat
  BY DEF Keys
<1>1. 0 \in N
  <2>1. D # {} /\ Agree(D, 0) /\ Ahead(D)
    OBVIOUS
  <2>2. QED BY <2>1
<1>2. ASSUME NEW k \in Nat, k \in N
      PROVE  k + 1 \in N
  <2> SUFFICES ASSUME k + 1 <= n
               PROVE  \E T \in SUBSET D : T # {} /\ Agree(T, k + 1) /\ Ahead(T)
    OBVIOUS
  <2>1. PICK T \in SUBSET D : T # {} /\ Agree(T, k) /\ Ahead(T)
    BY <1>2
  <2> DEFINE V == {key[x][k + 1] : x \in T}
             least == Min(V)
             F == {x \in T : key[x][k + 1] = least}
  <2>2. V \subseteq Nat /\ V # {}
    BY <1>0, <2>1
  <2>3. least \in V /\ \A v \in V : least <= v
    <3> HIDE DEF V
    <3>1. QED BY <2>2, MinIsLeast
  <2>4. least \in Nat
    BY <2>2, <2>3
  <2> HIDE DEF least
  <2>5. F # {} /\ F \in SUBSET D
    BY <2>3
  <2>6. Agree(F, k + 1)
    <3> SUFFICES ASSUME NEW x \in F, NEW y \in F, NEW i \in 1..(k + 1)
                 PROVE  key[x][i] = key[y][i]
      OBVIOUS
    <3>1. CASE i = k + 1
      BY <3>1
    <3>2. CASE i # k + 1
      <4>1. i \in 1..k /\ x \in T /\ y \in T
        BY <3>2
      <4>2. QED BY <2>1, <4>1
    <3>3. QED BY <3>1, <3>2
  <2>7. Ahead(F)
    <3> SUFFICES ASSUME NEW x \in F, NEW y \in D \ F
                 PROVE  Before(key[x], key[y])
      OBVIOUS
    <3>1. CASE y \notin T
      BY <2>1, <3>1
    <3>2. CASE y \in T
      <4>1. key[x][k + 1] < key[y][k + 1]
        <5>1. key[y][k + 1] \in V /\ key[y][k + 1] # least /\ key[x][k + 1] = least
          BY <3>2
        <5>2. least <= key[y][k + 1]
          <6> HIDE DEF V
          <6>1. QED BY <2>3, <5>1
        <5>3. key[y][k + 1] \in Nat
          BY <2>2, <5>1
        <5> HIDE DEF V, F
        <5>4. QED BY <5>2, <5>3,  <2>2, <2>3, <2>4, <5>1
      <4>2. \A i \in 1..((k + 1) - 1) : key[x][i] = key[y][i]
        BY <2>1, <3>2
      <4>3. k + 1 \in DOMAIN key[x]
        BY <1>0
      <4>4. QED BY <4>1, <4>2, <4>3 DEF Before
    <3>3. QED BY <3>1, <3>2
  <2>8. QED BY <2>5, <2>6, <2>7
<1>3. n \in N
  <2> HIDE DEF N
  <2>1. QED BY <1>1, <1>2, AllNumbers
<1>4. PICK T \in SUBSET D : T # {} /\ Agree(T, n) /\ Ahead(T)
  BY <1>3
<1>5. PICK x \in T : TRUE
  BY <1>4
<1>6. \A y \in T : key[y] = key[x]
  BY <1>0, <1>4
<1>7. T = {x}
  BY <1>6 DEF Keys
<1>8. \A y \in D \ {x} : Before(key[x], key[y])
  <2> HIDE DEF Before
  <2>1. QED BY <1>4, <1>7
<1>9. QED BY <1>5, <1>8

\* So FirstBy chooses one that comes before all others.
LEMMA FirstByIsFirst ==
    ASSUME NEW key, NEW n \in Nat, Keys(key, n), DOMAIN key # {}
    PROVE  /\ FirstBy(key) \in DOMAIN key
           /\ \A y \in DOMAIN key \ {FirstBy(key)} : Before(key[FirstBy(key)], key[y])
BY OneComesFirst DEF FirstBy

\* A finite set of numbers has a greatest one.
LEMMA MaxIsGreatest ==
    ASSUME NEW S, S \subseteq Nat, IsFiniteSet(S), S # {}
    PROVE  Max(S) \in S /\ \A x \in S : x <= Max(S)
<1> DEFINE Top(s) == \E x \in s : \A y \in s : y <= x
           N == {n \in Nat : \A s \in SUBSET S : s # {} /\ Cardinality(s) = n => Top(s)}
<1>1. \A s \in SUBSET S : IsFiniteSet(s) /\ Cardinality(s) \in Nat
  BY FS_Subset, FS_CardinalityType
<1>2. 0 \in N
  <2>1. \A s \in SUBSET S : Cardinality(s) = 0 => s = {}
    BY <1>1, FS_EmptySet
  <2>2. QED BY <2>1
<1>3. ASSUME NEW n \in Nat, n \in N
      PROVE  n + 1 \in N
  <2> SUFFICES ASSUME NEW s \in SUBSET S, s # {}, Cardinality(s) = n + 1
               PROVE  Top(s)
    OBVIOUS
  <2>1. PICK x \in s : TRUE
    OBVIOUS
  <2> DEFINE t == s \ {x}
  <2>2. Cardinality(t) = n /\ t \in SUBSET S
    <3>1. IsFiniteSet(s)
      BY <1>1
    <3>2. Cardinality(t) = Cardinality(s) - 1
      BY <2>1, <3>1, FS_RemoveElement
    <3>3. QED BY <3>2
  <2>3. CASE t = {}
    <3>1. s = {x} /\ x \in Nat
      BY <2>3
    <3>2. QED BY <3>1
  <2>4. CASE t # {}
    <3> HIDE DEF t, Top
    <3>1. Top(t)
      BY <1>3, <2>2, <2>4
    <3> USE DEF t, Top
    <3>2. PICK y \in t : \A z \in t : z <= y
      BY <3>1
    <3>3. x \in Nat /\ y \in Nat /\ y \in s
      OBVIOUS
    <3>4. CASE x <= y
      BY <3>2, <3>3, <3>4
    <3>5. CASE ~(x <= y)
      <4>1. \A z \in s : z \in Nat /\ z <= x
        BY <3>2, <3>3, <3>5
      <4>2. QED BY <4>1
    <3>6. QED BY <3>4, <3>5
  <2>5. QED BY <2>3, <2>4
<1>4. Cardinality(S) \in N
  <2> HIDE DEF N
  <2>1. Nat \subseteq N
    BY <1>2, <1>3, AllNumbers
  <2>2. QED BY <1>1, <2>1
<1>5. Top(S)
  BY <1>4
<1>6. \E x \in S : \A y \in S : x >= y
  BY <1>5
<1>7. Max(S) \in S /\ \A y \in S : Max(S) >= y
  BY <1>6 DEF Max
<1>8. QED BY <1>7

-----------------------------------------------------------------------------
(* The order of eligible.                                                  *)

\* Of some rows of a unit there is a first one in the order of eligible.
LEMMA OneIsStalest ==
    ASSUME NEW c, IsCandidate(c), NEW S \in SUBSET DOMAIN c.rows, S # {}
    PROVE  Stalest(c, S) \in S /\ \A j \in S \ {Stalest(c, S)} : Staler(c, Stalest(c, S), j)
<1> DEFINE key == [i \in S |-> <<c.rows[i].span, MaxAge - c.rows[i].age, i>>]
<1>1. \A i \in S : /\ i \in Nat /\ c.rows[i].span \in Nat /\ c.rows[i].age \in 0..MaxAge
                   /\ MaxAge - c.rows[i].age \in Nat
  BY PlacementAssumption DEF IsCandidate, IsRow
<1>2. Keys(key, 3)
  <2>1. \A x \in S : key[x] \in [1..3 -> Nat] /\ key[x][3] = x
    BY <1>1
  <2>2. QED BY <2>1 DEF Keys
<1>3. \A i, j \in S : Before(key[i], key[j]) => Staler(c, i, j)
  <2> SUFFICES ASSUME NEW i \in S, NEW j \in S, Before(key[i], key[j])
               PROVE  Staler(c, i, j)
    OBVIOUS
  <2> DEFINE k == key[i]  l == key[j]
  <2>1. PICK n \in 1..3 : k[n] < l[n] /\ \A h \in 1..(n - 1) : k[h] = l[h]
    BY DEF Before
  <2>2. /\ k[1] = c.rows[i].span /\ k[2] = MaxAge - c.rows[i].age /\ k[3] = i
        /\ l[1] = c.rows[j].span /\ l[2] = MaxAge - c.rows[j].age /\ l[3] = j
    OBVIOUS
  <2> HIDE DEF k, l
  <2>3. CASE n = 1
    BY <1>1, <2>1, <2>2, <2>3 DEF Staler
  <2>4. CASE n = 2
    <3>1. k[1] = l[1] /\ k[2] < l[2]
      BY <2>1, <2>4
    <3>2. QED BY <1>1, <2>2, <3>1, PlacementAssumption DEF Staler
  <2>5. CASE n = 3
    <3>1. k[1] = l[1] /\ k[2] = l[2] /\ k[3] < l[3]
      BY <2>1, <2>5
    <3>2. QED BY <1>1, <2>2, <3>1, PlacementAssumption DEF Staler
  <2>6. QED BY <2>3, <2>4, <2>5
<1>4. \E i \in S : \A j \in S \ {i} : Staler(c, i, j)
  <2>1. DOMAIN key = S
    OBVIOUS
  <2> HIDE DEF key
  <2>2. PICK i \in S : \A j \in S \ {i} : Before(key[i], key[j])
    BY <1>2, <2>1, OneComesFirst
  <2>3. QED BY <1>3, <2>2
<1>5. QED BY <1>4 DEF Stalest

\* the last one
LEMMA OneIsLast ==
    ASSUME NEW c, IsCandidate(c), NEW S \in SUBSET DOMAIN c.rows, S # {}
    PROVE  \E i \in S : \A j \in S \ {i} : Staler(c, j, i)
<1> DEFINE spans == {c.rows[i].span : i \in S}
           most == Max(spans)
           last == Max(S)
           key == [i \in S |-> <<most - c.rows[i].span, c.rows[i].age, last - i>>]
<1>1. \A i \in S : i \in Nat /\ c.rows[i].span \in Nat /\ c.rows[i].age \in Nat
  BY PlacementAssumption DEF IsCandidate, IsRow
<1>2. \A i \in S : i <= last /\ last \in Nat
  <2>1. IsFiniteSet(S) /\ S \subseteq Nat
    BY <1>1, FS_Subset DEF IsCandidate
  <2>2. QED BY <2>1, MaxIsGreatest
<1>3. \A i \in S : c.rows[i].span <= most /\ most \in Nat
  <2>1. IsFiniteSet(S)
    BY <1>1, FS_Subset DEF IsCandidate
  <2>2. IsFiniteSet(spans)
    <3>1. [i \in S |-> c.rows[i].span] \in Surjection(S, spans)
      BY DEF Surjection
    <3>2. QED BY <2>1, <3>1, FS_Surjection
  <2>3. spans \subseteq Nat /\ spans # {}
    BY <1>1
  <2>4. \A n \in spans : n <= most /\ most \in Nat
    <3> HIDE DEF spans
    <3>1. QED BY <2>2, <2>3, MaxIsGreatest
  <2>5. \A i \in S : c.rows[i].span \in spans
    OBVIOUS
  <2>6. QED BY <2>4, <2>5
<1> HIDE DEF last, most
<1>4. Keys(key, 3)
  <2>1. \A x \in S : key[x] \in [1..3 -> Nat] /\ key[x][3] = last - x
    BY <1>1, <1>2, <1>3
  <2>2. \A x, y \in S : last - x = last - y => x = y
    BY <1>1, <1>2
  <2>3. QED BY <2>1, <2>2 DEF Keys
<1>5. \A i, j \in S : Before(key[i], key[j]) => Staler(c, j, i)
  <2> SUFFICES ASSUME NEW i \in S, NEW j \in S, Before(key[i], key[j])
               PROVE  Staler(c, j, i)
    OBVIOUS
  <2> DEFINE k == key[i]  l == key[j]
  <2>1. PICK n \in 1..3 : k[n] < l[n] /\ \A h \in 1..(n - 1) : k[h] = l[h]
    BY DEF Before
  <2>2. /\ k[1] = most - c.rows[i].span /\ k[2] = c.rows[i].age /\ k[3] = last - i
        /\ l[1] = most - c.rows[j].span /\ l[2] = c.rows[j].age /\ l[3] = last - j
    OBVIOUS
  <2> HIDE DEF k, l
  <2>3. CASE n = 1
    BY <1>1, <1>3, <2>1, <2>2, <2>3 DEF Staler
  <2>4. CASE n = 2
    <3>1. k[1] = l[1] /\ k[2] < l[2]
      BY <2>1, <2>4
    <3>2. QED BY <1>1, <1>3, <2>2, <3>1 DEF Staler
  <2>5. CASE n = 3
    <3>1. k[1] = l[1] /\ k[2] = l[2] /\ k[3] < l[3]
      BY <2>1, <2>5
    <3>2. QED BY <1>1, <1>2, <1>3, <2>2, <3>1 DEF Staler
  <2>6. QED BY <2>3, <2>4, <2>5
<1>6. DOMAIN key = S
  OBVIOUS
<1> HIDE DEF key
<1>7. PICK i \in S : \A j \in S \ {i} : Before(key[i], key[j])
  BY <1>4, <1>6, OneComesFirst
<1>8. QED BY <1>5, <1>7

-----------------------------------------------------------------------------
(* Which rows make room.                                                   *)

\* what the victims of a unit are for: the node for itself, or room beside what stays
Makes(c, V) ==
    IF c.whole THEN V # {} /\ V = DOMAIN c.rows
    ELSE Unbudgeted(c) \subseteq V /\ Room(c, V)

\* _victims_for has one answer at most: eligible rows that make room.
LEMMA VictimsAreEligible ==
    ASSUME NEW c, IsCandidate(c), NEW p, NEW V \in VictimsFor(c, p)
    PROVE  /\ V \subseteq Eligible(c, p) /\ Makes(c, V)
           /\ \A W \in VictimsFor(c, p) : W = V
<1>1. CASE c.whole
  BY <1>1 DEF VictimsFor, Makes, Eligible
<1>2. CASE ~c.whole
  <2> DEFINE E      == Eligible(c, p)
             bad    == Unbudgeted(c)
             lone   == {i \in E \ bad : Room(c, bad \union {i})}
             first  == bad \union IF Room(c, bad) \/ lone = {} THEN {} ELSE {Stalest(c, lone)}
             others == E \ first
             enough == {W \in {first} \union {first \union UpTo(c, others, i) : i \in others} :
                           Room(c, W)}
  <2>1. VictimsFor(c, p) =
           {W \in enough : bad \subseteq E /\ \A U \in enough : W \subseteq U}
    BY <1>2 DEF VictimsFor
  <2>2. E \subseteq DOMAIN c.rows
    BY DEF Eligible
  <2>3. lone # {} => Stalest(c, lone) \in lone
    <3>1. lone \in SUBSET DOMAIN c.rows
      BY <2>2
    <3> HIDE DEF lone
    <3>2. QED BY <3>1, OneIsStalest
  <2>4. bad \subseteq first /\ (bad \subseteq E => first \subseteq E)
    BY <2>3
  <2> HIDE DEF first
  <2>5. \A i \in others : UpTo(c, others, i) \subseteq others
    BY DEF UpTo
  <2>6. \A W \in enough : Room(c, W) /\ first \subseteq W /\ (first \subseteq E => W \subseteq E)
    BY <2>5
  <2> HIDE DEF enough, E, bad
  <2>7. V \subseteq E /\ bad \subseteq V /\ Room(c, V)
    BY <2>1, <2>4, <2>6
  <2>8. \A W \in VictimsFor(c, p) : W = V
    <3>1. V \in enough /\ \A W \in VictimsFor(c, p) : W \in enough /\ V \subseteq W /\ W \subseteq V
      BY <2>1
    <3>2. QED BY <3>1
  <2>9. QED BY <1>2, <2>7, <2>8 DEF Makes, E, bad
<1>3. QED BY <1>1, <1>2

-----------------------------------------------------------------------------
(* The keys of the three tiers.                                            *)

\* A tuple of numbers that ends in another one.
LEMMA Joined ==
    ASSUME NEW s \in Seq(Nat), NEW t \in Seq(Nat), Len(t) > 0
    PROVE  /\ s \o t \in Seq(Nat) /\ Len(s \o t) = Len(s) + Len(t)
           /\ s \o t \in [1..(Len(s) + Len(t)) -> Nat]
           /\ (s \o t)[Len(s) + Len(t)] = t[Len(t)]
<1>1. /\ s \o t \in Seq(Nat) /\ Len(s \o t) = Len(s) + Len(t)
      /\ \A i \in 1 .. Len(s) + Len(t) :
            (s \o t)[i] = IF i <= Len(s) THEN s[i] ELSE t[i - Len(s)]
  BY ConcatProperties
<1> DEFINE j == s \o t
<1>2. Len(s) \in Nat /\ Len(t) \in Nat
  OBVIOUS
<1>3. j \in Seq(Nat) /\ Len(j) = Len(s) + Len(t)
  BY <1>1
<1>4. j[Len(s) + Len(t)] = t[Len(t)]
  <2>1. /\ Len(s) + Len(t) \in 1 .. Len(s) + Len(t)
        /\ ~(Len(s) + Len(t) <= Len(s)) /\ (Len(s) + Len(t)) - Len(s) = Len(t)
    BY <1>2
  <2>2. QED BY <1>1, <2>1
<1> HIDE DEF j
<1>5. j \in [1..Len(j) -> Nat]
  BY <1>3
<1>6. j \in [1..(Len(s) + Len(t)) -> Nat]
  BY <1>3, <1>5
<1>7. QED BY <1>3, <1>4, <1>6 DEF j

\* Tuples that end in the order of a fleet tell its candidates apart.
LEMMA OrderedKeys ==
    ASSUME NEW C, IsFleet(C), NEW D \in SUBSET C, NEW n \in Nat,
           NEW key, DOMAIN key = D,
           \A c \in D : key[c] \in [1..n -> Nat] /\ key[c][n] = c.order
    PROVE  Keys(key, n)
BY DEF Keys, IsFleet

\* The keys of tier 2 tell the candidates apart, by the last number.
LEMMA ResidentKeys ==
    ASSUME NEW C, IsFleet(C), NEW D \in SUBSET C, NEW w \in Workload
    PROVE  \E n \in Nat : Keys([c \in D |-> ResidentKey(w, c)], n)
<1> DEFINE n == IF w = "neutral" THEN 3 ELSE 4
           key == [c \in D |-> ResidentKey(w, c)]
<1>1. \A c \in D : /\ Flag(c.usage # "idle") \in Nat /\ Flag(c.kind # "spark") \in Nat
                   /\ Flag(c.kind # "gpu") \in Nat /\ Flag(c.swap) \in Nat /\ c.order \in Nat
  BY DEF Flag, IsFleet, IsCandidate
<1>2. ASSUME NEW c \in D
      PROVE  ResidentKey(w, c) \in [1..n -> Nat] /\ ResidentKey(w, c)[n] = c.order
  <2> DEFINE busy == Flag(c.usage # "idle")
             head == CASE w = "batch"       -> <<Flag(c.kind # "spark"), busy>>
                       [] w = "interactive" -> <<busy, Flag(c.kind # "gpu")>>
                       [] OTHER              -> <<busy>>
             tail == <<Flag(c.swap), c.order>>
  <2>1. ResidentKey(w, c) = head \o tail
    BY DEF ResidentKey
  <2>2. head \in Seq(Nat) /\ Len(head) + 2 = n
    BY <1>1 DEF Workload
  <2>3. tail \in Seq(Nat) /\ Len(tail) = 2 /\ tail[2] = c.order
    BY <1>1
  <2> HIDE DEF head, tail, n
  <2>4. head \o tail \in [1..(Len(head) + Len(tail)) -> Nat]
        /\ (head \o tail)[Len(head) + Len(tail)] = tail[Len(tail)]
    <3>1. head \in Seq(Nat) /\ tail \in Seq(Nat) /\ Len(tail) > 0
      BY <2>2, <2>3
    <3>2. QED BY <3>1, Joined, Zenon
  <2>5. Len(head) + Len(tail) = n /\ tail[Len(tail)] = c.order
    BY <2>2, <2>3
  <2>6. QED BY <2>1, <2>4, <2>5
<1>3. DOMAIN key = D /\ \A c \in D : key[c] = ResidentKey(w, c)
  OBVIOUS
<1>4. n \in Nat
  OBVIOUS
<1> HIDE DEF n, key
<1>5. Keys(key, n)
  BY <1>2, <1>3, <1>4, OrderedKeys
<1>6. QED BY <1>4, <1>5 DEF key

\* The keys of tier 3 do.
LEMMA FitsKeys ==
    ASSUME NEW C, IsFleet(C), NEW D \in SUBSET C, NEW w \in Workload
    PROVE  \E n \in Nat : Keys([c \in D |-> FitsKey(w, c)], n)
<1> DEFINE n == IF w = "neutral" THEN 5 ELSE 6
           key == [c \in D |-> FitsKey(w, c)]
<1>1. \A c \in D : /\ Flag(c.kind # "spark") \in Nat /\ Flag(c.kind # "gpu") \in Nat
                   /\ Flag(c.swap) \in Nat /\ c.order \in Nat /\ c.members \in Nat
                   /\ c.est \in Nat /\ c.fill \in Nat
  BY DEF Flag, IsFleet, IsCandidate
<1>2. ASSUME NEW c \in D
      PROVE  FitsKey(w, c) \in [1..n -> Nat] /\ FitsKey(w, c)[n] = c.order
  <2> DEFINE head == <<Flag(c.swap), c.members>>
             mid  == CASE w = "batch"       -> <<Flag(c.kind # "spark"), c.est>>
                       [] w = "interactive" -> <<c.est, Flag(c.kind # "gpu")>>
                       [] OTHER              -> <<c.est>>
             tail == <<c.fill, c.order>>
  <2>1. FitsKey(w, c) = (head \o mid) \o tail
    BY DEF FitsKey
  <2>2. mid \in Seq(Nat) /\ Len(mid) > 0 /\ 2 + Len(mid) + 2 = n
    BY <1>1 DEF Workload
  <2>3. head \in Seq(Nat) /\ Len(head) = 2
    BY <1>1
  <2>4. tail \in Seq(Nat) /\ Len(tail) = 2 /\ tail[2] = c.order
    BY <1>1
  <2> HIDE DEF head, mid, tail, n
  <2>5. head \o mid \in Seq(Nat) /\ Len(head \o mid) = 2 + Len(mid)
    BY <2>2, <2>3, Joined
  <2> DEFINE both == head \o mid
  <2>6. both \in Seq(Nat) /\ Len(both) + Len(tail) = n /\ tail[Len(tail)] = c.order
    BY <2>2, <2>4, <2>5
  <2> HIDE DEF both
  <2>7. both \o tail \in [1..(Len(both) + Len(tail)) -> Nat]
        /\ (both \o tail)[Len(both) + Len(tail)] = tail[Len(tail)]
    <3>1. both \in Seq(Nat) /\ tail \in Seq(Nat) /\ Len(tail) > 0
      BY <2>4, <2>6
    <3>2. QED BY <3>1, Joined, Zenon
  <2>8. FitsKey(w, c) = both \o tail
    BY <2>1 DEF both
  <2>9. QED BY <2>6, <2>7, <2>8
<1>3. DOMAIN key = D /\ \A c \in D : key[c] = FitsKey(w, c)
  OBVIOUS
<1>4. n \in Nat
  OBVIOUS
<1> HIDE DEF n, key
<1>5. Keys(key, n)
  BY <1>2, <1>3, <1>4, OrderedKeys
<1>6. QED BY <1>4, <1>5 DEF key

\* A candidate is listed with one choice of victims.
LEMMA DisplacingIs ==
    ASSUME NEW C, IsFleet(C), NEW p, NEW x \in Displacing(C, p)
    PROVE  /\ x = <<x[1], x[2]>> /\ x[1] \in C
           /\ x[1].kind = "spark" => x[2] \in VictimsFor(x[1], p)
           /\ x[1].kind # "spark" => LaneEvictable(x[1], p) /\ x[2] = {}
           /\ \A y \in Displacing(C, p) : y[1] = x[1] => y = x
<1> DEFINE For(c) == IF c.kind = "spark" THEN VictimsFor(c, p)
                     ELSE IF LaneEvictable(c, p) THEN {{}} ELSE {}
<1>1. Displacing(C, p) = UNION {{c} \X For(c) : c \in C}
  BY DEF Displacing
<1>2. \A c \in C : \A V, W \in For(c) : V = W
  BY VictimsAreEligible DEF IsFleet
<1>3. \A y \in Displacing(C, p) : y = <<y[1], y[2]>> /\ y[1] \in C /\ y[2] \in For(y[1])
  <2> HIDE DEF For
  <2>1. QED BY <1>1
<1>4. \A y \in Displacing(C, p) : y[1] = x[1] => y = x
  <2> HIDE DEF For
  <2>1. QED BY <1>2, <1>3
<1>5. QED BY <1>3, <1>4

\* The keys of tier 4 do.
LEMMA DisplaceKeys ==
    ASSUME NEW C, IsFleet(C), NEW p
    PROVE  Keys([cv \in Displacing(C, p) |-> DisplaceKey(cv[1], cv[2])], 6)
<1> DEFINE M == Displacing(C, p)
           key == [cv \in M |-> DisplaceKey(cv[1], cv[2])]
<1>1. ASSUME NEW x \in M
      PROVE  key[x] \in [1..6 -> Nat] /\ key[x][6] = x[1].order
  <2> DEFINE c == x[1]
             V == x[2]
             spans == {1} \union {c.rows[i].span : i \in V}
             stale == IF V = {} THEN 0 ELSE 1 + MaxAge - c.rows[Foremost(c, V)].age
  <2>1. key[x] = <<c.members, Max(spans), Cardinality(V), stale, Flag(c.swap), c.order>>
    BY DEF DisplaceKey
  <2>2. c \in C /\ IsCandidate(c)
    BY DisplacingIs DEF IsFleet
  <2>3. V \subseteq DOMAIN c.rows /\ (V # {} => c.kind = "spark" /\ Makes(c, V))
    <3>1. c.kind = "spark" => V \in VictimsFor(c, p)
      BY DisplacingIs
    <3>2. c.kind # "spark" => V = {}
      BY DisplacingIs
    <3>3. V \in VictimsFor(c, p) => V \subseteq Eligible(c, p) /\ Makes(c, V)
      BY <2>2, VictimsAreEligible
    <3>4. QED BY <3>1, <3>2, <3>3 DEF Eligible
  <2>4. IsFiniteSet(V) /\ Cardinality(V) \in Nat
    BY <2>2, <2>3, FS_Subset, FS_CardinalityType DEF IsCandidate
  <2>5. Max(spans) \in Nat
    <3>1. spans \subseteq Nat /\ spans # {}
      BY <2>2, <2>3 DEF IsCandidate, IsRow
    <3>2. IsFiniteSet({c.rows[i].span : i \in V})
      <4>1. [i \in V |-> c.rows[i].span] \in Surjection(V, {c.rows[i].span : i \in V})
        BY DEF Surjection
      <4>2. QED BY <2>4, <4>1, FS_Surjection
    <3>3. IsFiniteSet(spans)
      BY <3>2, FS_Singleton, FS_Union
    <3> HIDE DEF spans
    <3>4. QED BY <3>1, <3>3, MaxIsGreatest
  <2>6. stale \in Nat
    <3> SUFFICES ASSUME V # {} PROVE 1 + MaxAge - c.rows[Foremost(c, V)].age \in Nat
      OBVIOUS
    <3>1. Foremost(c, V) \in DOMAIN c.rows
      <4>1. CASE c.whole \/ Unbudgeted(c) = {}
        BY <2>2, <2>3, <4>1, OneIsStalest DEF Foremost
      <4>2. CASE ~(c.whole \/ Unbudgeted(c) = {})
        <5>1. Unbudgeted(c) \subseteq Nat /\ Unbudgeted(c) \subseteq DOMAIN c.rows
          BY <2>2 DEF IsCandidate, Unbudgeted
        <5>2. QED BY <4>2, <5>1, MinIsLeast DEF Foremost
      <4>3. QED BY <4>1, <4>2
    <3>2. c.rows[Foremost(c, V)].age \in 0..MaxAge
      BY <2>2, <3>1 DEF IsCandidate, IsRow
    <3>3. QED BY <3>2, PlacementAssumption
  <2>7. c.members \in Nat /\ Flag(c.swap) \in Nat /\ c.order \in Nat
    BY <2>2 DEF IsCandidate, Flag
  <2> HIDE DEF spans, stale, V, c, key
  <2>8. QED BY <2>1, <2>4, <2>5, <2>6, <2>7 DEF c
<1>2. \A x, y \in M : x[1].order = y[1].order => x = y
  BY DisplacingIs DEF IsFleet
<1>3. DOMAIN key = M
  OBVIOUS
<1> HIDE DEF key, M
<1>4. Keys(key, 6)
  BY <1>1, <1>2, <1>3 DEF Keys
<1>5. QED BY <1>4 DEF key, M

-----------------------------------------------------------------------------
(* What the rows of a unit take together: a sum of their budgets, in       *)
(* whatever order.                                                         *)

\* What a row takes, the row a sum takes next, and f has the sums of the sets in D.
Due(c, i) == c.rows[i].budget
Taken(s) == CHOOSE e \in s : TRUE
Sums(c, D, f) ==
    f = [s \in D |-> IF s = {} THEN 0 ELSE f[s \ {Taken(s)}] + Due(c, Taken(s))]

\* Sums, one set at a time.
LEMMA SumsAre ==
    ASSUME NEW c, NEW D, NEW f
    PROVE  Sums(c, D, f) <=>
           /\ f = [s \in D |-> f[s]]
           /\ \A s \in D :
                f[s] = IF s = {} THEN 0 ELSE f[s \ {Taken(s)}] + Due(c, Taken(s))
<1> DEFINE e(s) == IF s = {} THEN 0 ELSE f[s \ {Taken(s)}] + Due(c, Taken(s))
<1>1. Sums(c, D, f) <=> f = [s \in D |-> e(s)]
  BY DEF Sums
<1> HIDE DEF e
<1>2. Sums(c, D, f) <=> f = [s \in D |-> f[s]] /\ \A s \in D : f[s] = e(s)
  BY <1>1
<1>3. QED BY <1>2 DEF e

\* A set without the one that is taken is smaller.
LEMMA TakenAway ==
    ASSUME NEW s, IsFiniteSet(s), s # {}
    PROVE  /\ Taken(s) \in s /\ IsFiniteSet(s \ {Taken(s)})
           /\ Cardinality(s) \in Nat
           /\ Cardinality(s \ {Taken(s)}) = Cardinality(s) - 1
<1>1. Taken(s) \in s
  BY DEF Taken
<1>2. QED BY <1>1, FS_RemoveElement, FS_CardinalityType

\* Every finite set has its sums.
LEMMA SumsExist ==
    ASSUME NEW c, NEW S, IsFiniteSet(S)
    PROVE  \E f : Sums(c, SUBSET S, f)
<1> DEFINE D(n) == {s \in SUBSET S : Cardinality(s) <= n}
           N == {n \in Nat : \E f : Sums(c, D(n), f)}
<1>1. \A s \in SUBSET S : /\ IsFiniteSet(s) /\ Cardinality(s) \in Nat
                          /\ Cardinality(s) = 0 => s = {}
                          /\ Cardinality(s) <= Cardinality(S)
  BY FS_Subset, FS_CardinalityType, FS_EmptySet
<1>2. 0 \in N
  <2> DEFINE f == [s \in D(0) |-> 0]
  <2>1. \A s \in D(0) : s = {} /\ f[s] = 0
    BY <1>1
  <2>2. f = [s \in D(0) |-> f[s]]
    OBVIOUS
  <2> HIDE DEF f, D
  <2>3. Sums(c, D(0), f)
    BY <2>1, <2>2, SumsAre
  <2>4. QED BY <2>3
<1>3. ASSUME NEW n \in Nat, n \in N
      PROVE  n + 1 \in N
  <2>1. PICK f : Sums(c, D(n), f)
    BY <1>3
  <2> DEFINE g == [s \in D(n + 1) |->
                     IF s = {} THEN 0 ELSE f[s \ {Taken(s)}] + Due(c, Taken(s))]
  <2>2. \A s \in D(n) : s \in D(n + 1)
    BY <1>1
  <2>3. \A s \in D(n + 1) : s # {} => s \ {Taken(s)} \in D(n)
    <3> SUFFICES ASSUME NEW s \in D(n + 1), s # {}
                 PROVE  s \ {Taken(s)} \in D(n)
      OBVIOUS
    <3>1. IsFiniteSet(s) /\ Cardinality(s) <= n + 1 /\ s \in SUBSET S
      BY <1>1
    <3>2. QED BY <3>1, TakenAway
  <2>4. \A s \in D(n + 1) :
           g[s] = IF s = {} THEN 0 ELSE f[s \ {Taken(s)}] + Due(c, Taken(s))
    OBVIOUS
  <2>5. g = [s \in D(n + 1) |-> g[s]]
    OBVIOUS
  <2> HIDE DEF D, g
  <2>6. \A s \in D(n) : g[s] = f[s]
    BY <2>1, <2>2, <2>4, SumsAre
  <2>7. \A s \in D(n + 1) :
           g[s] = IF s = {} THEN 0 ELSE g[s \ {Taken(s)}] + Due(c, Taken(s))
    BY <2>3, <2>4, <2>6
  <2>8. Sums(c, D(n + 1), g)
    BY <2>5, <2>7, SumsAre
  <2>9. QED BY <2>8
<1>4. Cardinality(S) \in N
  <2> HIDE DEF N
  <2>1. Nat \subseteq N
    BY <1>2, <1>3, AllNumbers
  <2>2. QED BY <1>1, <2>1
<1>5. D(Cardinality(S)) = SUBSET S
  BY <1>1
<1> HIDE DEF D
<1>6. QED BY <1>4, <1>5

\* The sums a fold over S goes by.
SumsOf(c, S) == CHOOSE f : Sums(c, SUBSET S, f)

\* Budgets takes one row after another.
LEMMA BudgetsUnfold ==
    ASSUME NEW c, NEW S, IsFiniteSet(S)
    PROVE  /\ Budgets(c, {}) = 0
           /\ S # {} => Budgets(c, S) = Budgets(c, S \ {Taken(S)}) + Due(c, Taken(S))
<1>1. \A T : Budgets(c, T) = SumsOf(c, T)[T]
  BY DEF Budgets, FoldSet, MapThenFoldSet, Due, SumsOf, Sums, Taken
<1>2. \A T : IsFiniteSet(T) => Sums(c, SUBSET T, SumsOf(c, T))
  BY SumsExist DEF SumsOf
<1>3. Budgets(c, {}) = 0
  BY <1>1, <1>2, SumsAre, FS_EmptySet
<1>4. ASSUME S # {}
      PROVE  Budgets(c, S) = Budgets(c, S \ {Taken(S)}) + Due(c, Taken(S))
  <2> DEFINE R == S \ {Taken(S)}
             f == SumsOf(c, S)
             g == SumsOf(c, R)
             N == {n \in Nat : \A s \in SUBSET R : Cardinality(s) = n => f[s] = g[s]}
  <2>1. IsFiniteSet(R) /\ SUBSET R \subseteq SUBSET S /\ R \in SUBSET S
    BY <1>4, TakenAway
  <2>2. Sums(c, SUBSET S, f) /\ Sums(c, SUBSET R, g)
    BY <1>2, <2>1
  <2>3. \A s \in SUBSET R : IsFiniteSet(s) /\ Cardinality(s) \in Nat
    BY <2>1, FS_Subset, FS_CardinalityType
  <2> HIDE DEF R, f, g
  <2>4. \A s \in SUBSET R :
           /\ f[s] = IF s = {} THEN 0 ELSE f[s \ {Taken(s)}] + Due(c, Taken(s))
           /\ g[s] = IF s = {} THEN 0 ELSE g[s \ {Taken(s)}] + Due(c, Taken(s))
    BY <2>1, <2>2, SumsAre
  <2>5. 0 \in N
    BY <2>3, <2>4, FS_EmptySet
  <2>6. ASSUME NEW n \in Nat, n \in N
        PROVE  n + 1 \in N
    <3> SUFFICES ASSUME NEW s \in SUBSET R, Cardinality(s) = n + 1
                 PROVE  f[s] = g[s]
      OBVIOUS
    <3>1. s # {}
      BY FS_EmptySet
    <3>2. s \ {Taken(s)} \in SUBSET R /\ Cardinality(s \ {Taken(s)}) = n
      BY <2>3, <3>1, TakenAway
    <3>3. f[s \ {Taken(s)}] = g[s \ {Taken(s)}]
      BY <2>6, <3>2
    <3>4. QED BY <2>4, <3>1, <3>3
  <2>7. Nat \subseteq N
    <3> HIDE DEF N
    <3>1. QED BY <2>5, <2>6, AllNumbers
  <2>8. f[R] = g[R]
    BY <2>3, <2>7
  <2>9. f[S] = f[R] + Due(c, Taken(S))
    BY <1>4, <2>2, SumsAre DEF R
  <2>10. Budgets(c, S) = f[S] /\ Budgets(c, R) = g[R]
    BY <1>1 DEF f, g
  <2>11. QED BY <2>8, <2>9, <2>10 DEF R
<1>5. QED BY <1>3, <1>4

\* It does not matter which one is taken first.
LEMMA BudgetsOfMember ==
    ASSUME NEW c, NEW S, IsFiniteSet(S), \A i \in S : Due(c, i) \in Nat
    PROVE  /\ Budgets(c, S) \in Nat
           /\ \A e \in S : Due(c, e) \in Nat /\ Budgets(c, S) = Budgets(c, S \ {e}) + Due(c, e)
<1> DEFINE Good(s) == /\ Budgets(c, s) \in Nat
                      /\ \A e \in s : Budgets(c, s) = Budgets(c, s \ {e}) + Due(c, e)
           N == {n \in Nat : \A s \in SUBSET S : Cardinality(s) <= n => Good(s)}
<1>1. \A s \in SUBSET S : IsFiniteSet(s) /\ Cardinality(s) \in Nat
  BY FS_Subset, FS_CardinalityType
<1>2. \A e \in S : Due(c, e) \in Nat
  OBVIOUS
<1>3. 0 \in N
  <2>1. Good({})
    <3>1. Budgets(c, {}) = 0
      BY BudgetsUnfold, FS_EmptySet
    <3>2. QED BY <3>1
  <2>2. \A s \in SUBSET S : Cardinality(s) <= 0 => s = {}
    BY <1>1, FS_EmptySet
  <2> HIDE DEF Good
  <2>3. QED BY <2>1, <2>2
<1>4. ASSUME NEW n \in Nat, n \in N
      PROVE  n + 1 \in N
  <2> SUFFICES ASSUME NEW s \in SUBSET S, Cardinality(s) <= n + 1
               PROVE  Good(s)
    OBVIOUS
  <2>0. Good({})
    <3>1. Budgets(c, {}) = 0
      BY BudgetsUnfold, FS_EmptySet
    <3>2. QED BY <3>1
  <2> SUFFICES ASSUME s # {} PROVE Good(s)
    BY <2>0
  <2> DEFINE x == Taken(s)
  <2>1. IsFiniteSet(s)
    BY <1>1
  <2>2. /\ x \in s /\ s \ {x} \in SUBSET S /\ Cardinality(s \ {x}) <= n
    BY <1>1, <2>1, TakenAway
  <2>3. Budgets(c, s) = Budgets(c, s \ {x}) + Due(c, x)
    BY <2>1, BudgetsUnfold
  <2>4. Good(s \ {x})
    BY <1>4, <2>2
  <2> HIDE DEF x
  <2>5. Budgets(c, s) \in Nat
    BY <1>2, <2>2, <2>3, <2>4
  <2>6. ASSUME NEW e \in s, e # x
        PROVE  Budgets(c, s) = Budgets(c, s \ {e}) + Due(c, e)
    <3> DEFINE r == (s \ {x}) \ {e}
    <3>1. Budgets(c, s \ {x}) = Budgets(c, r) + Due(c, e)
      BY <2>4, <2>6
    <3>2. s \ {e} \in SUBSET S /\ Cardinality(s \ {e}) <= n
      BY <1>1, <2>1, <2>6, FS_RemoveElement
    <3>3. Good(s \ {e}) /\ x \in s \ {e}
      BY <1>4, <2>2, <2>6, <3>2
    <3>4. (s \ {e}) \ {x} = r
      OBVIOUS
    <3>5. Budgets(c, s \ {e}) = Budgets(c, r) + Due(c, x)
      BY <3>3, <3>4
    <3>6. r \in SUBSET S /\ r \subseteq s \ {x} /\ Cardinality(r) <= n
      <4>1. r \in SUBSET S /\ r \subseteq s \ {x} /\ IsFiniteSet(s \ {x})
        BY <1>1, <2>2
      <4>2. Cardinality(r) <= Cardinality(s \ {x})
        BY <4>1, FS_Subset
      <4>3. QED BY <1>1, <2>2, <4>1, <4>2
    <3>7. Budgets(c, r) \in Nat
      BY <1>4, <3>6
    <3>8. QED BY <1>2, <2>2, <2>3, <3>1, <3>5, <3>7
  <2>7. QED BY <2>3, <2>5, <2>6
<1>5. Nat \subseteq N
  <2> HIDE DEF N
  <2>1. QED BY <1>3, <1>4, AllNumbers
<1>6. Good(S)
  BY <1>1, <1>5
<1>7. QED BY <1>2, <1>6
\* More rows take no less.
LEMMA BudgetsGrow ==
    ASSUME NEW c, NEW S, IsFiniteSet(S), \A i \in S : Due(c, i) \in Nat, NEW R \in SUBSET S
    PROVE  Budgets(c, R) <= Budgets(c, S) /\ Budgets(c, R) \in Nat /\ Budgets(c, S) \in Nat
<1> DEFINE Less(s) == \A r \in SUBSET s : Budgets(c, r) <= Budgets(c, s)
           N == {n \in Nat : \A s \in SUBSET S : Cardinality(s) = n => Less(s)}
<1>1. \A s \in SUBSET S : /\ IsFiniteSet(s) /\ Cardinality(s) \in Nat
                          /\ Cardinality(s) = 0 => s = {}
                          /\ Budgets(c, s) \in Nat
  BY FS_Subset, FS_CardinalityType, FS_EmptySet, BudgetsOfMember
<1>2. 0 \in N
  BY <1>1
<1>3. ASSUME NEW n \in Nat, n \in N
      PROVE  n + 1 \in N
  <2> SUFFICES ASSUME NEW s \in SUBSET S, Cardinality(s) = n + 1,
                      NEW r \in SUBSET s, r # s
               PROVE  Budgets(c, r) <= Budgets(c, s)
    BY <1>1
  <2>1. PICK i \in s : i \notin r
    OBVIOUS
  <2> DEFINE t == s \ {i}
  <2>2. t \in SUBSET S /\ r \in SUBSET t /\ IsFiniteSet(s)
    BY <1>1, <2>1
  <2>3. Cardinality(t) = n
    <3>1. Cardinality(t) = Cardinality(s) - 1
      BY <2>1, <2>2, FS_RemoveElement
    <3>2. QED BY <3>1
  <2>4. Budgets(c, s) = Budgets(c, t) + Due(c, i) /\ Due(c, i) \in Nat
    BY <2>1, <2>2, BudgetsOfMember
  <2> HIDE DEF t
  <2>5. Budgets(c, r) <= Budgets(c, t)
    BY <1>3, <2>2, <2>3
  <2>6. Budgets(c, r) \in Nat /\ Budgets(c, t) \in Nat
    BY <1>1, <2>2
  <2>7. QED BY <2>4, <2>5, <2>6
<1>4. Nat \subseteq N
  <2> HIDE DEF N
  <2>1. QED BY <1>2, <1>3, AllNumbers
<1>5. QED BY <1>1, <1>4

-----------------------------------------------------------------------------
(* _victims_for finds victims wherever there are any.                      *)

\* To displace more makes more room.
LEMMA RoomGrows ==
    ASSUME NEW c, IsCandidate(c), NEW V \in SUBSET DOMAIN c.rows, NEW W \in SUBSET DOMAIN c.rows,
           V \subseteq W, Room(c, V)
    PROVE  Room(c, W)
<1> DEFINE A == DOMAIN c.rows \ W
           B == DOMAIN c.rows \ V
<1>1. IsFiniteSet(B) /\ (\A i \in B : Due(c, i) \in Nat) /\ A \in SUBSET B
  BY FS_Subset DEF IsCandidate, IsRow, Due
<1> HIDE DEF A, B
<1>2. Budgets(c, A) <= Budgets(c, B) /\ Budgets(c, A) \in Nat /\ Budgets(c, B) \in Nat
  BY <1>1, BudgetsGrow
<1>3. c.inflight \in Nat /\ c.want \in Nat
  BY DEF IsCandidate
<1>4. Budgets(c, A) + c.inflight + c.want <= Headroom
  BY <1>2, <1>3, PlacementAssumption DEF Room, B
<1>5. QED BY <1>4 DEF Room, A

\* The order of eligible is transitive.
LEMMA StalerOrders ==
    ASSUME NEW c, IsCandidate(c), NEW i \in DOMAIN c.rows, NEW j \in DOMAIN c.rows,
           NEW k \in DOMAIN c.rows, Staler(c, i, j), Staler(c, j, k)
    PROVE  Staler(c, i, k)
BY PlacementAssumption DEF Staler, IsCandidate, IsRow

\* If any eligible rows make room, those that _victims_for takes do.
LEMMA VictimsAreFound ==
    ASSUME NEW c, IsCandidate(c), NEW p, NEW V, V \subseteq Eligible(c, p), Makes(c, V)
    PROVE  VictimsFor(c, p) # {}
<1>0. Eligible(c, p) \subseteq DOMAIN c.rows
  BY DEF Eligible
<1>1. CASE c.whole
  <2>1. V = Eligible(c, p) /\ V # {} /\ V = DOMAIN c.rows
    BY <1>0, <1>1 DEF Makes
  <2>2. QED BY <1>1, <2>1 DEF VictimsFor
<1>2. CASE ~c.whole
  <2> DEFINE E      == Eligible(c, p)
             bad    == Unbudgeted(c)
             lone   == {i \in E \ bad : Room(c, bad \union {i})}
             first  == bad \union IF Room(c, bad) \/ lone = {} THEN {} ELSE {Stalest(c, lone)}
             others == E \ first
             enough == {W \in {first} \union {first \union UpTo(c, others, i) : i \in others} :
                           Room(c, W)}
             fit    == {i \in others : Room(c, first \union UpTo(c, others, i))}
  <2>1. VictimsFor(c, p) =
           {W \in enough : bad \subseteq E /\ \A U \in enough : W \subseteq U}
    BY <1>2 DEF VictimsFor
  <2>2. bad \subseteq V /\ V \subseteq E /\ E \subseteq DOMAIN c.rows /\ Room(c, V)
    BY <1>0, <1>2 DEF Makes
  <2>3. lone # {} => Stalest(c, lone) \in lone
    <3>1. lone \in SUBSET DOMAIN c.rows
      BY <2>2
    <3> HIDE DEF lone
    <3>2. QED BY <3>1, OneIsStalest
  <2>4. first \subseteq E
    BY <2>2, <2>3
  <2> HIDE DEF first, bad, E
  <2>5. Room(c, E)
    BY <2>2, RoomGrows
  <2>6. CASE Room(c, first)
    <3>1. first \in enough /\ \A U \in enough : first \subseteq U
      BY <2>6
    <3>2. first \in VictimsFor(c, p)
      BY <2>1, <2>2, <3>1
    <3>3. QED BY <3>2
  <2>7. CASE ~Room(c, first)
    <3>1. others # {} /\ others \in SUBSET DOMAIN c.rows
      BY <2>2, <2>4, <2>5, <2>7
    <3> HIDE DEF others
    <3>2. PICK l \in others : \A j \in others \ {l} : Staler(c, j, l)
      BY <3>1, OneIsLast
    <3>3. UpTo(c, others, l) = others
      BY <3>2 DEF UpTo
    <3>4. first \union others = E
      BY <2>4 DEF others
    <3>5. l \in fit /\ fit \in SUBSET DOMAIN c.rows
      BY <2>5, <3>1, <3>3, <3>4
    <3> DEFINE s == Stalest(c, fit)
               W == first \union UpTo(c, others, s)
    <3>6. s \in fit /\ \A j \in fit \ {s} : Staler(c, s, j)
      <4> HIDE DEF fit
      <4>1. QED BY <3>5, OneIsStalest
    <3> HIDE DEF s
    <3>7. W \in enough
      BY <3>6
    <3>8. ASSUME NEW U \in enough PROVE W \subseteq U
      <4>1. PICK i \in others : U = first \union UpTo(c, others, i) /\ Room(c, U)
        BY <2>7
      <4>2. i \in fit
        BY <4>1
      <4>3. CASE i = s
        BY <4>1, <4>3
      <4>4. CASE i # s
        <5>1. Staler(c, s, i) /\ s \in others
          BY <3>6, <4>2, <4>4
        <5>2. \A j \in UpTo(c, others, s) : j \in UpTo(c, others, i)
          BY <3>1, <4>1, <5>1, StalerOrders DEF UpTo
        <5>3. QED BY <4>1, <5>2
      <4>5. QED BY <4>3, <4>4
    <3>9. W \in VictimsFor(c, p)
      <4> HIDE DEF W, enough
      <4>1. QED BY <2>1, <2>2, <3>7, <3>8
    <3>10. QED BY <3>9
  <2>8. QED BY <2>6, <2>7
<1>3. QED BY <1>1, <1>2

-----------------------------------------------------------------------------
(* What rank() promises.                                                   *)

\* the candidates a request may be sent to
Within(C, X) == {c \in C : c.unit \notin X}

\* rank() refuses, or names a unit.
LEMMA RankOutcomes ==
    ASSUME NEW m, NEW C, NEW X, NEW w, NEW d, d = Rank(m, C, X, w),
           d.outcome \notin {"pin", "place"}
    PROVE  \E how \in {"not_found", "no_capacity"} : d = Refusal(how)
<1> DEFINE D     == Within(C, X)
           open  == {c \in D : ~c.refused}
           there == {c \in open : Resident(m, c)}
           fits  == {c \in open : Fresh(c) /\ FitsAsItIs(c)}
           ways == Displacing({c \in open : Fresh(c)}, Priority[w])
           tkey  == [c \in there |-> ResidentKey(w, c)]
           fkey  == [c \in fits |-> FitsKey(w, c)]
           mkey  == [cv \in ways |-> DisplaceKey(cv[1], cv[2])]
<1>1. d = IF D = {} THEN Refusal(IF C = {} THEN "not_found" ELSE "no_capacity")
          ELSE IF Cardinality(D) = 1 THEN Choice("pin", CHOOSE c \in D : TRUE, "pin")
          ELSE IF there # {} THEN Choice("place", FirstBy(tkey), "resident")
          ELSE IF fits # {} THEN Choice("place", FirstBy(fkey), "fits")
          ELSE IF ways # {} THEN Displace(FirstBy(mkey))
          ELSE Refusal("no_capacity")
  BY DEF Rank, Within
<1>2. \A c, t : /\ Choice("pin", c, t).outcome = "pin"
                /\ Choice("place", c, t).outcome = "place"
                /\ Displace(c).outcome = "place"
  BY DEF Choice, Displace
<1> HIDE DEF D, there, fits, ways, tkey, fkey, mkey
<1>3. QED BY <1>1, <1>2

\* one of the candidates: the only one, or one that is not refused and has the model, has
\* room for it as it is, or can have room by displacing eligible rows only
WellChosen(d, m, C, X, w) ==
    \E c \in Within(C, X) :
       \/ d = Choice("pin", c, "pin") /\ Within(C, X) = {c}
       \/ ~c.refused /\ Resident(m, c) /\ d = Choice("place", c, "resident")
       \/ /\ ~c.refused /\ Fresh(c)
          /\ \/ FitsAsItIs(c) /\ d = Choice("place", c, "fits")
             \/ /\ ~FitsAsItIs(c) /\ c.kind # "spark"
                /\ LaneEvictable(c, Priority[w]) /\ d = Displace(<<c, {}>>)
             \/ /\ ~FitsAsItIs(c) /\ c.kind = "spark"
                /\ \E V \in SUBSET Eligible(c, Priority[w]) :
                      Makes(c, V) /\ d = Displace(<<c, V>>)

\* rank() of any fleet, for any request: what it chooses is well chosen.
THEOREM RankChoosesWell ==
    ASSUME NEW m, NEW C, IsFleet(C), NEW X, NEW w \in Workload,
           NEW d, d = Rank(m, C, X, w), d.outcome \in {"pin", "place"}
    PROVE  WellChosen(d, m, C, X, w)
<1> USE DEF WellChosen
<1> DEFINE D     == Within(C, X)
           open  == {c \in D : ~c.refused}
           there == {c \in open : Resident(m, c)}
           fits  == {c \in open : Fresh(c) /\ FitsAsItIs(c)}
           fresh == {c \in open : Fresh(c)}
           ways == Displacing(fresh, Priority[w])
           tkey  == [c \in there |-> ResidentKey(w, c)]
           fkey  == [c \in fits |-> FitsKey(w, c)]
           mkey  == [cv \in ways |-> DisplaceKey(cv[1], cv[2])]
<1>1. d = IF D = {} THEN Refusal(IF C = {} THEN "not_found" ELSE "no_capacity")
          ELSE IF Cardinality(D) = 1 THEN Choice("pin", CHOOSE c \in D : TRUE, "pin")
          ELSE IF there # {} THEN Choice("place", FirstBy(tkey), "resident")
          ELSE IF fits # {} THEN Choice("place", FirstBy(fkey), "fits")
          ELSE IF ways # {} THEN Displace(FirstBy(mkey))
          ELSE Refusal("no_capacity")
  BY DEF Rank, Within
<1>2. \A how \in {"not_found", "no_capacity"} : Refusal(how).outcome \notin {"pin", "place"}
  BY DEF Refusal
<1>3. D # {}
  BY <1>1, <1>2
<1>4. D \subseteq C /\ IsFiniteSet(D) /\ IsFleet(fresh)
  BY FS_Subset DEF Within, IsFleet
<1>5. CASE Cardinality(D) = 1
  <2>1. PICK c : D = {c}
    BY <1>4, <1>5, FS_Singleton
  <2>2. d = Choice("pin", CHOOSE x \in D : TRUE, "pin")
    BY <1>1, <1>3, <1>5
  <2>3. QED BY <2>1, <2>2
<1>6. CASE Cardinality(D) # 1 /\ there # {}
  <2>1. FirstBy(tkey) \in there
    <3>1. there \in SUBSET C
      BY <1>4
    <3>2. PICK n \in Nat : Keys(tkey, n)
      <4> HIDE DEF there
      <4>1. QED BY <3>1, ResidentKeys
    <3>3. DOMAIN tkey = there
      OBVIOUS
    <3> HIDE DEF tkey
    <3>4. QED BY <1>6, <3>2, <3>3, FirstByIsFirst
  <2>2. d = Choice("place", FirstBy(tkey), "resident")
    BY <1>1, <1>3, <1>6
  <2> HIDE DEF tkey
  <2>3. QED BY <2>1, <2>2
<1>7. CASE Cardinality(D) # 1 /\ there = {} /\ fits # {}
  <2>1. FirstBy(fkey) \in fits
    <3>1. fits \in SUBSET C
      BY <1>4
    <3>2. PICK n \in Nat : Keys(fkey, n)
      <4> HIDE DEF fits
      <4>1. QED BY <3>1, FitsKeys
    <3>3. DOMAIN fkey = fits
      OBVIOUS
    <3> HIDE DEF fkey
    <3>4. QED BY <1>7, <3>2, <3>3, FirstByIsFirst
  <2>2. d = Choice("place", FirstBy(fkey), "fits")
    BY <1>1, <1>3, <1>7
  <2> HIDE DEF fkey
  <2>3. QED BY <2>1, <2>2
<1>8. CASE Cardinality(D) # 1 /\ there = {} /\ fits = {}
  <2> DEFINE x == FirstBy(mkey)
  <2>1. ways # {} /\ d = Displace(x)
    BY <1>1, <1>2, <1>3, <1>8
  <2>2. x \in ways
    <3>1. Keys(mkey, 6)
      <4> HIDE DEF fresh
      <4>1. QED BY <1>4, DisplaceKeys
    <3>2. DOMAIN mkey = ways
      OBVIOUS
    <3> HIDE DEF mkey, ways
    <3>3. QED BY <2>1, <3>1, <3>2, FirstByIsFirst
  <2> HIDE DEF x
  <2>3. /\ x = <<x[1], x[2]>> /\ x[1] \in fresh
        /\ x[1].kind = "spark" => x[2] \in VictimsFor(x[1], Priority[w])
        /\ x[1].kind # "spark" => LaneEvictable(x[1], Priority[w]) /\ x[2] = {}
    <3> HIDE DEF fresh
    <3>1. QED BY <1>4, <2>2, DisplacingIs
  <2>4. x[1].kind = "spark" => /\ x[2] \subseteq Eligible(x[1], Priority[w])
                               /\ Makes(x[1], x[2])
    BY <1>4, <2>3, VictimsAreEligible DEF IsFleet
  <2>5. x[1] \in D /\ ~x[1].refused /\ Fresh(x[1]) /\ ~FitsAsItIs(x[1])
    BY <1>8, <2>3
  <2>6. d = Displace(<<x[1], x[2]>>)
    BY <2>1, <2>3
  <2>7. CASE x[1].kind = "spark"
    <3> HIDE DEF fresh
    <3>1. x[2] \in SUBSET Eligible(x[1], Priority[w]) /\ Makes(x[1], x[2])
      BY <2>4, <2>7
    <3>2. QED BY <2>5, <2>6, <2>7, <3>1
  <2>8. CASE x[1].kind # "spark"
    <3> HIDE DEF fresh
    <3>1. d = Displace(<<x[1], {}>>) /\ LaneEvictable(x[1], Priority[w])
      BY <2>3, <2>6, <2>8
    <3>2. QED BY <2>5, <2>8, <3>1
  <2>9. QED BY <2>7, <2>8
<1>9. QED BY <1>5, <1>6, <1>7, <1>8

\* "nothing admissible" is said only if no candidate is left, or each is refused, or has
\* not the model, and is gated, or has no room and cannot make any by displacing eligible
\* rows.
THEOREM RankRefusesWell ==
    ASSUME NEW m, NEW C, IsFleet(C), NEW X, NEW w \in Workload,
           Rank(m, C, X, w).outcome = "no_capacity"
    PROVE  \A c \in Within(C, X) :
              \/ c.refused
              \/ /\ ~Resident(m, c)
                 /\ \/ ~Fresh(c)
                    \/ /\ ~FitsAsItIs(c)
                       /\ c.kind # "spark" => ~LaneEvictable(c, Priority[w])
                       /\ c.kind = "spark" =>
                             ~\E V \in SUBSET Eligible(c, Priority[w]) : Makes(c, V)
<1> DEFINE D     == Within(C, X)
           open  == {c \in D : ~c.refused}
           there == {c \in open : Resident(m, c)}
           fits  == {c \in open : Fresh(c) /\ FitsAsItIs(c)}
           fresh == {c \in open : Fresh(c)}
           ways == Displacing(fresh, Priority[w])
           tkey  == [c \in there |-> ResidentKey(w, c)]
           fkey  == [c \in fits |-> FitsKey(w, c)]
           mkey  == [cv \in ways |-> DisplaceKey(cv[1], cv[2])]
<1>1. Rank(m, C, X, w) =
          IF D = {} THEN Refusal(IF C = {} THEN "not_found" ELSE "no_capacity")
          ELSE IF Cardinality(D) = 1 THEN Choice("pin", CHOOSE c \in D : TRUE, "pin")
          ELSE IF there # {} THEN Choice("place", FirstBy(tkey), "resident")
          ELSE IF fits # {} THEN Choice("place", FirstBy(fkey), "fits")
          ELSE IF ways # {} THEN Displace(FirstBy(mkey))
          ELSE Refusal("no_capacity")
  BY DEF Rank, Within
<1>2. \A c, t : /\ Choice("pin", c, t).outcome # "no_capacity"
                /\ Choice("place", c, t).outcome # "no_capacity"
                /\ Displace(c).outcome # "no_capacity"
  BY DEF Choice, Displace
<1>3. SUFFICES ASSUME D # {}, there = {}, fits = {}, ways = {}
               PROVE  \A c \in fresh :
                         /\ c.kind # "spark" => ~LaneEvictable(c, Priority[w])
                         /\ c.kind = "spark" =>
                               ~\E V \in SUBSET Eligible(c, Priority[w]) : Makes(c, V)
  <2>1. D = {} \/ (there = {} /\ fits = {} /\ ways = {})
    <3> HIDE DEF D, there, fits, ways, tkey, fkey, mkey
    <3>1. QED BY <1>1, <1>2
  <2>2. QED BY <2>1, <1>3
<1>4. \A c \in fresh : IsCandidate(c)
  BY DEF Within, IsFleet
<1> HIDE DEF fresh
<1> DEFINE For(c) == IF c.kind = "spark" THEN VictimsFor(c, Priority[w])
                     ELSE IF LaneEvictable(c, Priority[w]) THEN {{}} ELSE {}
<1>5. \A c \in fresh : For(c) = {}
  <2>1. ways = UNION {{c} \X For(c) : c \in fresh}
    BY DEF Displacing
  <2> HIDE DEF For, ways
  <2>2. \A c \in fresh : \A V \in For(c) : <<c, V>> \in ways
    BY <2>1
  <2>3. QED BY <1>3, <2>2
<1>6. QED BY <1>4, <1>5, VictimsAreFound

-----------------------------------------------------------------------------
(* A Spark that fills up, and a lane (module Fleets).                      *)

FleetInv ==
    /\ spark \in Candidate("spark") /\ lane \in Lanes /\ wl \in Workload
    /\ spark.unit # lane.unit /\ spark.order # lane.order
    /\ Len(spark.rows) <= Slots /\ (spark.slot <=> Len(spark.rows) < Slots)
    /\ \A i \in DOMAIN spark.rows : spark.rows[i].model = i
    /\ decision = Undecided \/ decision = Rank(Wanted, {spark, lane}, {}, wl)

\* The units of Fleets are candidates as rank() gets them.
LEMMA CandidatesAre ==
    ASSUME NEW k, NEW c \in Candidate(k)
    PROVE  IsCandidate(c)
<1>1. /\ {c.swap, c.whole, c.slot, c.refused, c.proven, c.blocked} \subseteq BOOLEAN
      /\ {c.inflight, c.want, c.est, c.fill, c.order, c.members} \subseteq Nat
      /\ c.rows \in Seq(Row)
  BY DEF Candidate
<1>2. DOMAIN c.rows = 1..Len(c.rows) /\ Len(c.rows) \in Nat
      /\ \A i \in DOMAIN c.rows : c.rows[i] \in Row
  BY <1>1
<1>3. \A i \in DOMAIN c.rows : IsRow(c.rows[i])
  BY <1>2 DEF Row, IsRow
<1>4. IsFiniteSet(1..Len(c.rows)) /\ 1..Len(c.rows) \subseteq Nat
  BY <1>2, FS_Interval
<1>5. QED BY <1>1, <1>2, <1>3, <1>4 DEF IsCandidate

\* A row that comes to be resident keeps the Spark well-formed.
LEMMA FleetFills ==
    ASSUME FleetInv, Fill
    PROVE  FleetInv'
<1> DEFINE n == Len(spark.rows) + 1
<1>1. PICK r \in Rows :
         spark' = [spark EXCEPT !.rows = Append(@, [r EXCEPT !.model = n]), !.slot = n < Slots]
  BY DEF Fill
<1>2. /\ spark \in Candidate("spark") /\ spark.rows \in Seq(Row) /\ n \in Nat
      /\ r \in Row /\ n <= Slots /\ lane \in Lanes /\ UNCHANGED <<lane, wl, decision>>
      /\ decision = Undecided
  <2>1. spark.rows \in Seq(Row) /\ lane \in Lanes
    BY DEF FleetInv, Candidate
  <2>2. Limit[lane] \in 0..Slots /\ Slots \in Nat /\ Len(spark.rows) < Limit[lane]
    BY <2>1, FleetsAssumption DEF Fill
  <2>3. QED BY <2>1, <2>2, FleetsAssumption DEF Fill, FleetInv
<1> DEFINE row == [r EXCEPT !.model = n]
<1>3. row \in Row /\ row.model = n
  BY <1>2 DEF Row
<1> HIDE DEF row
<1>4. /\ Append(spark.rows, row) \in Seq(Row) /\ Len(Append(spark.rows, row)) = n
      /\ \A i \in 1..n : Append(spark.rows, row)[i] = IF i = n THEN row ELSE spark.rows[i]
      /\ DOMAIN Append(spark.rows, row) = 1..n /\ DOMAIN spark.rows = 1..(n - 1)
  BY <1>2, <1>3
<1>5. /\ spark' \in Candidate("spark") /\ spark'.unit = spark.unit
      /\ spark'.order = spark.order /\ spark'.rows = Append(spark.rows, row)
      /\ spark'.slot = (n < Slots)
  <2> DEFINE rows == Append(spark.rows, row)
             slot == n < Slots
  <2>1. spark' = [spark EXCEPT !.rows = rows, !.slot = slot]
    BY <1>1 DEF row
  <2>2. rows \in Seq(Row) /\ slot \in BOOLEAN
    BY <1>4
  <2> HIDE DEF rows, slot
  <2>3. /\ spark' \in Candidate("spark") /\ spark'.unit = spark.unit
        /\ spark'.order = spark.order /\ spark'.rows = rows /\ spark'.slot = slot
    BY <1>2, <2>1, <2>2 DEF Candidate
  <2>4. QED BY <2>3 DEF rows, slot
<1>6. \A i \in DOMAIN spark'.rows : spark'.rows[i].model = i
  BY <1>3, <1>4, <1>5 DEF FleetInv
<1> HIDE DEF n
<1>7. QED BY <1>2, <1>4, <1>5, <1>6 DEF FleetInv

\* The Spark and the lane are well-formed, and the decision is that of rank().
LEMMA FleetInvariant == FleetSpec => []FleetInv
<1>1. FleetInit => FleetInv
  <2> SUFFICES ASSUME FleetInit PROVE FleetInv
    OBVIOUS
  <2>1. /\ spark \in Candidate("spark") /\ spark.rows = <<>> /\ spark.slot
        /\ spark.unit # lane.unit /\ spark.order # lane.order /\ Slots > 0
    BY FleetsAssumption DEF FleetInit
  <2>2. Len(spark.rows) = 0 /\ DOMAIN spark.rows = {}
    BY <2>1
  <2>3. QED BY <2>1, <2>2, FleetsAssumption DEF FleetInit, FleetInv
<1>2. FleetInv /\ [FleetNext]_fleetVars => FleetInv'
  <2> SUFFICES ASSUME FleetInv, [FleetNext]_fleetVars PROVE FleetInv'
    OBVIOUS
  <2>1. CASE Fill
    BY <2>1, FleetFills
  <2>2. CASE Decide
    BY <2>2 DEF Decide, FleetInv
  <2>3. CASE UNCHANGED fleetVars
    BY <2>3 DEF fleetVars, FleetInv
  <2>4. QED BY <2>1, <2>2, <2>3 DEF FleetNext
<1>3. QED BY <1>1, <1>2, PTL DEF FleetSpec

\* They are a fleet.
LEMMA FleetIsFleet ==
    ASSUME FleetInv
    PROVE  /\ IsFleet({spark, lane}) /\ Within({spark, lane}, {}) = {spark, lane}
           /\ IsCandidate(spark) /\ spark.kind = "spark" /\ spark.unit # ""
           /\ IsCandidate(lane) /\ lane.kind = "gpu" /\ lane.unit # "" /\ spark # lane
           /\ DOMAIN spark.rows = 1..Len(spark.rows) /\ Len(spark.rows) \in 0..Slots
           /\ lane.usage # "free" => Len(lane.rows) = 1
<1>1. /\ spark \in Candidate("spark") /\ lane \in Candidate("gpu")
      /\ Len(lane.rows) = IF lane.usage = "free" THEN 0 ELSE 1
  BY FleetsAssumption DEF FleetInv
<1>2. IsCandidate(spark) /\ IsCandidate(lane)
  BY <1>1, CandidatesAre
<1>3. /\ spark.kind = "spark" /\ lane.kind = "gpu" /\ spark.unit # "" /\ lane.unit # ""
      /\ spark.rows \in Seq(Row) /\ lane.rows \in Seq(Row)
  BY <1>1 DEF Candidate
<1>4. IsFiniteSet({spark, lane})
  <2>1. IsFiniteSet({spark}) /\ IsFiniteSet({lane}) /\ {spark, lane} = {spark} \union {lane}
    BY FS_Singleton
  <2>2. QED BY <2>1, FS_Union
<1>5. IsFleet({spark, lane})
  BY <1>2, <1>4 DEF IsFleet, FleetInv
<1>6. Within({spark, lane}, {}) = {spark, lane}
  BY DEF Within
<1>7. spark # lane
  BY DEF FleetInv
<1>8. DOMAIN spark.rows = 1..Len(spark.rows) /\ Len(spark.rows) \in 0..Slots
  <2>1. Len(spark.rows) \in Nat /\ DOMAIN spark.rows = 1..Len(spark.rows)
    <3>1. spark.rows \in Seq(Row)
      BY <1>3
    <3>2. QED BY <3>1
  <2>2. Slots \in Nat
    BY FleetsAssumption
  <2>3. Len(spark.rows) <= Slots
    BY DEF FleetInv
  <2>4. QED BY <2>1, <2>2, <2>3
<1>9. lane.usage # "free" => Len(lane.rows) = 1
  BY <1>1
<1>10. QED BY <1>2, <1>3, <1>5, <1>6, <1>7, <1>8, <1>9

\* What a refusal and a choice say.
LEMMA DecisionFields ==
    /\ \A how : /\ Refusal(how).unit = "" /\ Refusal(how).outcome = how
                /\ Refusal(how).victims = {} /\ Refusal(how).groups = {}
                /\ Refusal(how).tier = ""
    /\ \A how, c, t : /\ Choice(how, c, t).unit = c.unit /\ Choice(how, c, t).tier = t
                      /\ Choice(how, c, t).outcome = how
                      /\ Choice(how, c, t).victims = {} /\ Choice(how, c, t).groups = {}
BY DEF Refusal, Choice

\* What a decision on the fleet displaces.
LEMMA FleetDisplaces ==
    ASSUME FleetInv, NEW V \in SUBSET DOMAIN spark.rows, decision = Displace(<<spark, V>>)
    PROVE  Gone = V /\ decision.unit = spark.unit
<1> DEFINE Of(group) == {spark.rows[i].model :
                            i \in {j \in V : spark.rows[j].group = group}}
<1>1. decision = [Choice("place", spark, "displace") EXCEPT !.victims = Of(FALSE),
                                                             !.groups = Of(TRUE)]
  BY DEF Displace
<1>2. decision.victims = Of(FALSE) /\ decision.groups = Of(TRUE) /\ decision.unit = spark.unit
  BY <1>1 DEF Choice
<1>3. \A i \in DOMAIN spark.rows : /\ spark.rows[i].model = i
                                   /\ spark.rows[i].group \in BOOLEAN
  BY FleetIsFleet DEF FleetInv, IsCandidate, IsRow
<1>4. Of(FALSE) \union Of(TRUE) = V
  <2>1. \A i \in V : i \in Of(spark.rows[i].group)
    BY <1>3
  <2>2. \A g \in BOOLEAN : Of(g) \subseteq V
    BY <1>3
  <2> HIDE DEF Of
  <2>3. \A i \in V : i \in Of(FALSE) \union Of(TRUE)
    BY <1>3, <2>1
  <2>4. QED BY <2>2, <2>3
<1>5. Gone = {i \in DOMAIN spark.rows : i \in V}
  BY <1>2, <1>3, <1>4 DEF Gone
<1>6. QED BY <1>2, <1>5

\* The ways a decision can go.
LEMMA FleetDecides ==
    ASSUME FleetInv
    PROVE  \/ decision.unit = "" /\ Gone = {} /\ decision.outcome # "no_capacity"
           \/ decision = Refusal("no_capacity")
           \/ decision.unit = spark.unit /\ Gone = {} /\ FitsAsItIs(spark)
           \/ decision.unit = lane.unit /\ Gone = {} /\ decision.tier # "displace"
           \/ /\ decision.unit = lane.unit /\ Gone = {}
              /\ LaneEvictable(lane, Priority[wl]) /\ lane.usage # "free"
           \/ /\ decision.unit = spark.unit /\ Gone \subseteq Eligible(spark, Priority[wl])
              /\ Makes(spark, Gone)
<1>1. /\ IsFleet({spark, lane}) /\ Within({spark, lane}, {}) = {spark, lane}
      /\ spark.kind = "spark" /\ lane.kind = "gpu" /\ spark # lane
  BY FleetIsFleet
<1>2. wl \in Workload
  BY DEF FleetInv
<1>3. decision.victims = {} /\ decision.groups = {} => Gone = {}
  BY DEF Gone
<1>4. ~Resident(Wanted, spark)
  <2>1. \A i \in DOMAIN spark.rows : i \in 1..Len(spark.rows) /\ spark.rows[i].model = i
    BY FleetIsFleet DEF FleetInv
  <2>2. QED BY <2>1 DEF Resident, Wanted
<1>5. CASE decision = Undecided
  BY <1>3, <1>5, DecisionFields DEF Undecided
<1>6. CASE decision # Undecided /\ decision.outcome \notin {"pin", "place"}
  <2>1. decision = Rank(Wanted, {spark, lane}, {}, wl)
    BY <1>6 DEF FleetInv
  <2>2. \E how \in {"not_found", "no_capacity"} : decision = Refusal(how)
    BY <1>1, <1>2, <1>6, <2>1, RankOutcomes
  <2>3. QED BY <1>3, <2>2, DecisionFields
<1>7. CASE decision # Undecided /\ decision.outcome \in {"pin", "place"}
  <2>1. decision = Rank(Wanted, {spark, lane}, {}, wl)
    BY <1>7 DEF FleetInv
  <2> DEFINE p == Priority[wl]
  <2>2. PICK c \in {spark, lane} :
           \/ decision = Choice("pin", c, "pin") /\ {spark, lane} = {c}
           \/ ~c.refused /\ Resident(Wanted, c) /\ decision = Choice("place", c, "resident")
           \/ /\ ~c.refused /\ Fresh(c)
              /\ \/ FitsAsItIs(c) /\ decision = Choice("place", c, "fits")
                 \/ /\ ~FitsAsItIs(c) /\ c.kind # "spark"
                    /\ LaneEvictable(c, p) /\ decision = Displace(<<c, {}>>)
                 \/ /\ ~FitsAsItIs(c) /\ c.kind = "spark"
                    /\ \E V \in SUBSET Eligible(c, p) :
                          Makes(c, V) /\ decision = Displace(<<c, V>>)
    <3> DEFINE F == {spark, lane}
    <3>1. IsFleet(F) /\ Within(F, {}) = F /\ decision = Rank(Wanted, F, {}, wl)
      BY <1>1, <2>1
    <3> HIDE DEF F
    <3>2. WellChosen(decision, Wanted, F, {}, wl)
      <4>1. decision.outcome \in {"pin", "place"}
        BY <1>7
      <4>2. QED BY <1>2, <3>1, <4>1, RankChoosesWell
    <3>3. QED BY <3>1, <3>2 DEF F, WellChosen
  <2>3. ~ ({spark, lane} = {c})
    BY <1>1
  <2>4. CASE ~c.refused /\ Resident(Wanted, c) /\ decision = Choice("place", c, "resident")
    <3>1. c = lane
      BY <1>4, <2>4
    <3>2. /\ decision.tier = "resident" /\ decision.unit = lane.unit
          /\ decision.victims = {} /\ decision.groups = {}
      BY <2>4, <3>1 DEF Choice
    <3>3. QED BY <1>3, <3>2
  <2>5. CASE FitsAsItIs(c) /\ decision = Choice("place", c, "fits")
    <3>1. /\ decision.tier = "fits" /\ decision.unit = c.unit
          /\ decision.victims = {} /\ decision.groups = {}
      BY <2>5 DEF Choice
    <3>2. QED BY <1>3, <2>5, <3>1
  <2>6. CASE /\ ~FitsAsItIs(c) /\ c.kind # "spark"
             /\ LaneEvictable(c, p) /\ decision = Displace(<<c, {}>>)
    <3>1. c = lane /\ lane.usage # "free"
      BY <1>1, <2>6 DEF FitsAsItIs
    <3>2. decision.unit = lane.unit /\ decision.victims = {} /\ decision.groups = {}
      BY <2>6, <3>1 DEF Displace, Choice
    <3>3. QED BY <1>3, <2>6, <3>1, <3>2
  <2>7. CASE /\ ~FitsAsItIs(c) /\ c.kind = "spark"
             /\ \E V \in SUBSET Eligible(c, p) :
                   Makes(c, V) /\ decision = Displace(<<c, V>>)
    <3>1. c = spark
      BY <1>1, <2>7
    <3>2. PICK V \in SUBSET Eligible(spark, p) :
             Makes(spark, V) /\ decision = Displace(<<spark, V>>)
      BY <2>7, <3>1
    <3>3. V \in SUBSET DOMAIN spark.rows
      BY DEF Eligible
    <3>4. Gone = V /\ decision.unit = spark.unit
      BY <3>2, <3>3, FleetDisplaces
    <3>5. QED BY <3>2, <3>4
  <2>8. QED BY <2>2, <2>3, <2>4, <2>5, <2>6, <2>7
<1>8. QED BY <1>5, <1>6, <1>7

\* Whatever a decision displaces yields to the request (_victim_eligible, _lane_evictable).
THEOREM RankSparesProtected == FleetSpec => []ProtectedAreSpared
<1> DEFINE Yields(r, idle) ==
              /\ r.lease # "shield"
              /\ ~idle => r.lease = "preemptible" /\ r.prio < Priority[wl]
<1>1. FleetInv => ProtectedAreSpared
  <2> SUFFICES ASSUME FleetInv PROVE ProtectedAreSpared
    OBVIOUS
  <2>1. \A i \in Eligible(spark, Priority[wl]) :
           Yields(spark.rows[i], spark.rows[i].age > Window)
    BY FleetIsFleet DEF Eligible, VictimEligible, IsCandidate, IsRow
  <2>2. Gone \subseteq Eligible(spark, Priority[wl])
    <3>1. decision = Refusal("no_capacity") => Gone = {}
      BY DecisionFields DEF Gone
    <3>2. QED BY <3>1, FleetDecides
  <2>3. ASSUME decision.unit = lane.unit, decision.tier = "displace"
        PROVE  Yields(Head(lane.rows), lane.usage = "idle")
    <3>1. LaneEvictable(lane, Priority[wl]) /\ lane.usage # "free"
      <4>1. decision # Refusal("no_capacity")
        BY <2>3, DecisionFields
      <4>2. decision.unit # "" /\ decision.unit # spark.unit
        BY <2>3, FleetIsFleet DEF FleetInv
      <4>3. QED BY <2>3, <4>1, <4>2, FleetDecides
    <3>2. Len(lane.rows) = 1 /\ lane.rows \in Seq(Row) /\ DOMAIN lane.rows = {1}
          /\ Head(lane.rows) = lane.rows[1]
      <4>1. Len(lane.rows) = 1 /\ lane.rows \in Seq(Row)
        BY <3>1, FleetIsFleet, FleetsAssumption DEF FleetInv, Candidate
      <4>2. QED BY <4>1
    <3>3. lane.rows[1].lease # "shield"
          /\ IF lane.usage = "idle" THEN TRUE
             ELSE lane.rows[1].lease = "preemptible" /\ lane.rows[1].prio < Priority[wl]
      BY <3>1, <3>2 DEF LaneEvictable
    <3>4. QED BY <3>2, <3>3
  <2>4. QED BY <2>1, <2>2, <2>3 DEF ProtectedAreSpared
<1>2. QED BY <1>1, FleetInvariant, PTL

\* The sums of rank() and the admission of the node agree, both ways.
THEOREM RankMakesRoom == FleetSpec => []RoomIsMade
<1>1. FleetInv => RoomIsMade
  <2> SUFFICES ASSUME FleetInv PROVE RoomIsMade
    OBVIOUS
  <2> DEFINE n == Len(spark.rows)
             all == DOMAIN spark.rows
  <2>1. /\ IsCandidate(spark) /\ all = 1..n /\ n \in 0..Slots
        /\ (spark.slot <=> n < Slots) /\ Slots \in Nat \ {0}
    BY FleetIsFleet, FleetsAssumption DEF FleetInv
  <2>2. /\ IsFiniteSet(all) /\ Cardinality(all) = n
        /\ \A V \in SUBSET all : /\ IsFiniteSet(all \ V) /\ Cardinality(all \ V) \in Nat
                                 /\ Cardinality(all \ V) <= n
                                 /\ V # {} => Cardinality(all \ V) < n
    <3>1. IsFiniteSet(all) /\ Cardinality(all) = n
      <4>1. n \in Nat /\ all = 1..n
        BY <2>1
      <4> HIDE DEF n, all
      <4>2. IsFiniteSet(1..n) /\ Cardinality(1..n) = IF 1 > n THEN 0 ELSE n - 1 + 1
        BY <4>1, FS_Interval
      <4>3. QED BY <4>1, <4>2
    <3> HIDE DEF all, n
    <3>2. ASSUME NEW V \in SUBSET all
          PROVE  /\ IsFiniteSet(all \ V) /\ Cardinality(all \ V) \in Nat
                 /\ Cardinality(all \ V) <= n
                 /\ Cardinality(all \ V) = n => all \ V = all
      <4>1. all \ V \in SUBSET all
        OBVIOUS
      <4>2. QED BY <3>1, <4>1, FS_Subset, FS_CardinalityType
    <3>3. n \in Nat
      BY <3>1, FS_CardinalityType
    <3>4. \A V \in SUBSET all : V # {} => all \ V # all
      OBVIOUS
    <3>5. QED BY <3>1, <3>2, <3>3, <3>4
  <2>3. \A i \in all : spark.rows[i].budget \in Nat
    BY <2>1 DEF IsCandidate, IsRow
  <2>4. ASSUME NEW V \in SUBSET all,
               Makes(spark, V) \/ (V = {} /\ FitsAsItIs(spark))
        PROVE  Admits(V)
    <3>0. spark.kind = "spark"
      BY FleetIsFleet
    <3>1. CASE spark.whole
      BY <2>4, <3>0, <3>1 DEF Makes, FitsAsItIs, Admits
    <3>2. CASE ~spark.whole
      <4>1. Unbudgeted(spark) \subseteq V /\ Room(spark, V)
        BY <2>4, <3>0, <3>2 DEF Makes, FitsAsItIs
      <4>2. \A i \in all \ V : spark.rows[i].budget > 0
        BY <2>3, <4>1 DEF Unbudgeted
      <4>3. Cardinality(all \ V) < Slots
        <5>1. (spark.slot \/ V # {}) /\ n \in Nat /\ n <= Slots
          BY <2>1, <4>1 DEF Room
        <5>2. /\ Cardinality(all \ V) \in Nat /\ Cardinality(all \ V) <= n
              /\ V # {} => Cardinality(all \ V) < n
          BY <2>2
        <5> HIDE DEF all, n
        <5>3. QED BY <2>1, <5>1, <5>2
      <4>4. QED BY <3>2, <4>1, <4>2, <4>3 DEF Room, Admits
    <3>3. QED BY <3>1, <3>2
  <2>5. ASSUME NEW V \in SUBSET all, Admits(V)
        PROVE  Makes(spark, V) \/ FitsAsItIs(spark)
    <3>0. spark.kind = "spark"
      BY FleetIsFleet
    <3>1. CASE spark.whole
      <4>1. all = V
        BY <2>5, <3>1 DEF Admits
      <4>2. all = {} => n = 0
        BY <2>2, FS_EmptySet
      <4>3. QED BY <2>1, <3>0, <3>1, <4>1, <4>2 DEF Makes, FitsAsItIs
    <3>2. CASE ~spark.whole
      <4>1. /\ \A i \in all \ V : spark.rows[i].budget > 0
            /\ Cardinality(all \ V) < Slots
            /\ Budgets(spark, all \ V) + spark.inflight + spark.want <= Headroom
        BY <2>5, <3>2 DEF Admits
      <4>2. Unbudgeted(spark) \subseteq V
        BY <2>3, <4>1 DEF Unbudgeted
      <4>3. spark.slot \/ V # {}
        <5>1. V = {} => all \ V = all
          OBVIOUS
        <5> HIDE DEF all, n
        <5>2. QED BY <2>1, <2>2, <4>1, <5>1
      <4>4. QED BY <3>2, <4>1, <4>2, <4>3 DEF Makes, Room
    <3>3. QED BY <3>1, <3>2
  <2>6. decision.unit = spark.unit => Admits(Gone)
    <3> SUFFICES ASSUME decision.unit = spark.unit PROVE Admits(Gone)
      OBVIOUS
    <3>0. decision.unit # "" /\ decision.unit # lane.unit
      BY FleetIsFleet DEF FleetInv
    <3>1. decision # Refusal("no_capacity") /\ decision.unit # "" /\ decision.unit # lane.unit
      BY <3>0, DecisionFields
    <3>2. Makes(spark, Gone) \/ (Gone = {} /\ FitsAsItIs(spark))
      BY <3>1, FleetDecides
    <3>3. Gone \in SUBSET all
      BY DEF Gone
    <3>4. QED BY <2>4, <3>2, <3>3
  <2>7. ASSUME decision.outcome = "no_capacity"
        PROVE  /\ Fresh(lane) => ~LaneEvictable(lane, Priority[wl]) \/ lane.refused
               /\ Fresh(spark) /\ ~spark.refused =>
                     ~\E V \in SUBSET Eligible(spark, Priority[wl]) : Admits(V)
    <3>1. decision = Rank(Wanted, {spark, lane}, {}, wl)
      BY <2>7, DecisionFields DEF FleetInv, Undecided
    <3>2. \A c \in {spark, lane} :
              \/ c.refused
              \/ ~Fresh(c)
              \/ /\ ~FitsAsItIs(c)
                 /\ c.kind # "spark" => ~LaneEvictable(c, Priority[wl])
                 /\ c.kind = "spark" =>
                       ~\E V \in SUBSET Eligible(c, Priority[wl]) : Makes(c, V)
      <4>1. wl \in Workload
        BY DEF FleetInv
      <4>2. IsFleet({spark, lane}) /\ Within({spark, lane}, {}) = {spark, lane}
        BY FleetIsFleet
      <4>3. QED BY <2>7, <3>1, <4>1, <4>2, RankRefusesWell
    <3>3. spark.kind = "spark" /\ lane.kind = "gpu"
      BY FleetIsFleet
    <3>4. \A V \in SUBSET Eligible(spark, Priority[wl]) : V \in SUBSET all
      BY DEF Eligible
    <3>5. QED BY <2>5, <3>2, <3>3, <3>4
  <2>8. QED BY <2>6, <2>7 DEF RoomIsMade, Eligible
<1>2. QED BY <1>1, FleetInvariant, PTL

-----------------------------------------------------------------------------
(* The record of a request.                                                *)

Fields == {"pc", "ask", "unit", "excluded", "evict", "tries", "retried", "view", "gen",
           "since", "rows", "job", "first", "route", "moved"}
Formed(q) == q = [f \in Fields |-> q[f]]

\* A request begins, and ends, with clean locals.
LEMMA CleanLocals ==
    /\ Formed(Fresh0) /\ Fresh0.pc = "new" /\ Fresh0.since = 0
    /\ Fresh0.job = NoJob /\ Fresh0.first = NoJob
    /\ Formed(Over) /\ Over.pc = "over" /\ Over.since = 0
    /\ Over.job = NoJob /\ Over.first = NoJob
<1>1. /\ Formed(Fresh0) /\ Fresh0.pc = "new" /\ Fresh0.since = 0
      /\ Fresh0.job = NoJob /\ Fresh0.first = NoJob
  BY DEF Formed, Fresh0, Fields
<1>2. QED BY <1>1 DEF Formed, Over, Fields

-----------------------------------------------------------------------------
(* Sweeps.  A sweep carries the generation it began in; a commit starts    *)
(* the next generation, and only the present one is ever in the cache.     *)

Sweeping ==
    /\ gen \in Nat /\ moves = gen
    /\ DOMAIN sweeps \subseteq 0..gen
    /\ sweeps = [g \in DOMAIN sweeps |-> [since |-> g, seen |-> sweeps[g].seen]]
    /\ cache # None => cache.since = gen

\* a request that awaits or has a sweep, with the sweeps G on their way
Placed(q, G) ==
    /\ Formed(q) /\ q.since \in Nat
    /\ q.pc = "sweep" => q.gen \in G /\ q.since <= q.gen
    /\ q.pc = "rank"  => q.view.since \in Nat /\ q.view.since >= q.since

PlacerInv ==
    /\ Sweeping
    /\ req = [r \in Requests |-> req[r]]
    /\ \A r \in Requests : Placed(req[r], DOMAIN sweeps)

\* What matters of a request while it is not being placed.
LEMMA PlacedElsewhere ==
    ASSUME NEW q, NEW G, Formed(q), q.since \in Nat, q.pc \notin {"sweep", "rank"}
    PROVE  Placed(q, G)
BY DEF Placed

\* A commit or a removal from the cache keeps the sweeps in order.
LEMMA InvalidateKeepsSweeps ==
    ASSUME Sweeping, Invalidate
    PROVE  Sweeping' /\ DOMAIN sweeps' = DOMAIN sweeps
BY DEF Sweeping, Invalidate

\* One request goes on, and is not being placed.
LEMMA GoingOnKeepsPlacer ==
    ASSUME PlacerInv, NEW r \in Requests, NEW q, Become(r, q),
           Formed(q), q.since \in Nat, q.pc \notin {"sweep", "rank"},
           UNCHANGED placerVars \/ Invalidate
    PROVE  PlacerInv'
<1>1. Sweeping' /\ DOMAIN sweeps' = DOMAIN sweeps
  <2>1. CASE Invalidate
    BY <2>1, InvalidateKeepsSweeps DEF PlacerInv
  <2>2. CASE UNCHANGED placerVars
    BY <2>2 DEF PlacerInv, Sweeping, placerVars
  <2>3. QED BY <2>1, <2>2
<1>2. req' = [req EXCEPT ![r] = q] /\ req = [s \in Requests |-> req[s]]
  BY DEF Become, PlacerInv
<1>3. Placed(q, DOMAIN sweeps)
  BY PlacedElsewhere
<1>4. req' = [s \in Requests |-> req'[s]]
  BY <1>2
<1>5. ASSUME NEW s \in Requests PROVE Placed(req'[s], DOMAIN sweeps)
  <2>1. req'[s] = IF s = r THEN q ELSE req[s]
    BY <1>2
  <2>2. QED BY <2>1, <1>3 DEF PlacerInv
<1>6. QED BY <1>1, <1>4, <1>5 DEF PlacerInv

\* A request asks for a placement: it gets the cached statuses, which no commit has
\* outdated, or those of the present generation's sweep.
LEMMA PlaceKeepsPlacer ==
    ASSUME PlacerInv, NEW r \in Requests, NEW q, Formed(q), Place(r, q)
    PROVE  PlacerInv'
<1> DEFINE p == IF cache # None
                THEN [q EXCEPT !.view = cache, !.pc = "rank", !.since = moves]
                ELSE [q EXCEPT !.gen = gen, !.pc = "sweep", !.since = moves]
<1>1. Sweeping /\ gen \in Nat /\ moves = gen
  BY DEF PlacerInv, Sweeping
<1>2. /\ req' = [req EXCEPT ![r] = p] /\ UNCHANGED <<gen, cache, moves>>
      /\ sweeps' = IF cache # None \/ gen \in DOMAIN sweeps THEN sweeps
                   ELSE [g \in DOMAIN sweeps \union {gen} |->
                          IF g = gen THEN [since |-> moves, seen |-> [u \in Units |-> None]]
                          ELSE sweeps[g]]
  BY DEF Place, Become
<1>3. Sweeping' /\ DOMAIN sweeps \subseteq DOMAIN sweeps'
                /\ (cache = None => gen \in DOMAIN sweeps')
  <2>1. CASE cache # None \/ gen \in DOMAIN sweeps
    BY <1>1, <1>2, <2>1 DEF Sweeping
  <2>2. CASE cache = None /\ gen \notin DOMAIN sweeps
    <3>1. sweeps' = [g \in DOMAIN sweeps \union {gen} |->
                       IF g = gen THEN [since |-> moves, seen |-> [u \in Units |-> None]]
                       ELSE sweeps[g]]
      BY <1>2, <2>2
    <3>2. DOMAIN sweeps' = DOMAIN sweeps \union {gen} /\ DOMAIN sweeps' \subseteq 0..gen
      BY <1>1, <3>1 DEF Sweeping
    <3>3. ASSUME NEW g \in DOMAIN sweeps'
          PROVE  sweeps'[g] = [since |-> g, seen |-> sweeps'[g].seen]
      <4>1. CASE g = gen
        BY <1>1, <3>1, <4>1
      <4>2. CASE g # gen
        <5>1. g \in DOMAIN sweeps /\ sweeps'[g] = sweeps[g]
          BY <3>1, <3>2, <4>2
        <5>2. sweeps[g] = [since |-> g, seen |-> sweeps[g].seen]
          BY <1>1, <5>1 DEF Sweeping
        <5>3. QED BY <5>1, <5>2
      <4>3. QED BY <4>1, <4>2
    <3>4. sweeps' = [g \in DOMAIN sweeps' |-> sweeps'[g]]
      BY <3>1
    <3>5. sweeps' = [g \in DOMAIN sweeps' |-> [since |-> g, seen |-> sweeps'[g].seen]]
      BY <3>3, <3>4
    <3>6. QED BY <1>1, <1>2, <2>2, <3>2, <3>5 DEF Sweeping
  <2>3. QED BY <2>1, <2>2
<1>4. Placed(p, DOMAIN sweeps')
  <2>1. CASE cache # None
    <3>1. p = [q EXCEPT !.view = cache, !.pc = "rank", !.since = moves]
      BY <2>1
    <3>2. Formed(p) /\ p.view = cache /\ p.pc = "rank" /\ p.since = moves
      BY <3>1 DEF Formed, Fields
    <3>3. cache.since = gen
      BY <1>1, <2>1 DEF Sweeping
    <3>4. QED BY <1>1, <3>2, <3>3 DEF Placed
  <2>2. CASE cache = None
    <3>1. p = [q EXCEPT !.gen = gen, !.pc = "sweep", !.since = moves]
      BY <2>2
    <3>2. Formed(p) /\ p.gen = gen /\ p.pc = "sweep" /\ p.since = moves
      BY <3>1 DEF Formed, Fields
    <3>3. QED BY <1>1, <1>3, <2>2, <3>2 DEF Placed
  <2>3. QED BY <2>1, <2>2
<1> HIDE DEF p
<1>5. req = [s \in Requests |-> req[s]] /\ req' = [s \in Requests |-> req'[s]]
  BY <1>2 DEF PlacerInv
<1>6. ASSUME NEW s \in Requests PROVE Placed(req'[s], DOMAIN sweeps')
  <2>1. req'[s] = IF s = r THEN p ELSE req[s]
    BY <1>2, <1>5
  <2>2. Placed(req[s], DOMAIN sweeps)
    BY DEF PlacerInv
  <2>3. Placed(req[s], DOMAIN sweeps')
    BY <2>2, <1>3 DEF Placed
  <2>4. QED BY <2>1, <2>3, <1>4
<1>7. QED BY <1>3, <1>5, <1>6 DEF PlacerInv

\* A unit moves under the requests that have probed it.
LEMMA MovingKeepsPlacer ==
    ASSUME PlacerInv, NEW u, Moving(u), UNCHANGED placerVars
    PROVE  PlacerInv'
<1>1. Sweeping' /\ DOMAIN sweeps' = DOMAIN sweeps
  BY DEF PlacerInv, Sweeping, placerVars
<1>2. ASSUME NEW s \in Requests PROVE Placed(req'[s], DOMAIN sweeps)
  <2>1. PICK b : req'[s] = [req[s] EXCEPT !.moved = b]
    BY DEF Moving
  <2>2. Placed(req[s], DOMAIN sweeps)
    BY DEF PlacerInv
  <2>3. /\ Formed(req'[s]) /\ req'[s].pc = req[s].pc /\ req'[s].since = req[s].since
        /\ req'[s].gen = req[s].gen /\ req'[s].view = req[s].view
    BY <2>1, <2>2 DEF Placed, Formed, Fields
  <2>4. QED BY <2>2, <2>3 DEF Placed
<1>3. QED BY <1>1, <1>2 DEF PlacerInv, Moving

\* A sweep is on its way, is published or not, and ages.
LEMMA SweepStepKeepsPlacer ==
    ASSUME PlacerInv, SweepStep
    PROVE  PlacerInv'
<1>0. Sweeping /\ \A s \in Requests : Placed(req[s], DOMAIN sweeps)
  BY DEF PlacerInv
<1>1. ASSUME NEW g \in DOMAIN sweeps, SweepEnds(g) PROVE PlacerInv'
  <2>1. sweeps[g].since = g /\ g \in Nat
    BY <1>0 DEF Sweeping
  <2>2. /\ sweeps' = [h \in DOMAIN sweeps \ {g} |-> sweeps[h]]
        /\ UNCHANGED <<gen, moves>>
        /\ cache' \in {cache, None} \/ (g = gen /\ cache' = sweeps[g])
    BY <1>1 DEF SweepEnds, Publishes
  <2>3. Sweeping'
    BY <1>0, <2>1, <2>2 DEF Sweeping
  <2>4. ASSUME NEW s \in Requests PROVE Placed(req'[s], DOMAIN sweeps')
    <3>1. Placed(req[s], DOMAIN sweeps)
      BY <1>0
    <3>2. CASE req[s].pc = "sweep" /\ req[s].gen = g
      <4>1. req'[s] = [req[s] EXCEPT !.view = sweeps[g], !.gen = 0, !.pc = "rank"]
        BY <1>1, <3>2 DEF SweepEnds
      <4>2. /\ Formed(req'[s]) /\ req'[s].pc = "rank" /\ req'[s].since = req[s].since
            /\ req'[s].view = sweeps[g]
        BY <3>1, <4>1 DEF Placed, Formed, Fields
      <4>3. QED BY <2>1, <3>1, <3>2, <4>2 DEF Placed
    <3>3. CASE ~(req[s].pc = "sweep" /\ req[s].gen = g)
      <4>1. req'[s] = req[s]
        BY <1>1, <3>3 DEF SweepEnds
      <4>2. QED BY <2>2, <3>1, <3>3, <4>1 DEF Placed
    <3>4. QED BY <3>2, <3>3
  <2>5. req' = [s \in Requests |-> req'[s]]
    BY <1>1 DEF SweepEnds
  <2>6. QED BY <2>3, <2>4, <2>5 DEF PlacerInv
<1>2. ASSUME NEW g \in DOMAIN sweeps, NEW u \in Units, SweepReads(g, u) PROVE PlacerInv'
  <2>1. /\ UNCHANGED <<gen, cache, moves, req>>
        /\ \E st \in Status(u) : sweeps' = [sweeps EXCEPT ![g].seen[u] = st]
    BY <1>2 DEF SweepReads
  <2>2. PICK st \in Status(u) : sweeps' = [sweeps EXCEPT ![g].seen[u] = st]
    BY <2>1
  <2>3. sweeps[g] = [since |-> g, seen |-> sweeps[g].seen]
    BY <1>0 DEF Sweeping
  <2>4. DOMAIN sweeps' = DOMAIN sweeps
    BY <2>2
  <2>5. ASSUME NEW h \in DOMAIN sweeps
        PROVE  sweeps'[h] = [since |-> h, seen |-> sweeps'[h].seen]
    <3>1. CASE h = g
      <4>1. sweeps'[g] = [sweeps[g] EXCEPT !.seen[u] = st]
        BY <2>2
      <4>2. QED BY <2>3, <3>1, <4>1
    <3>2. CASE h # g
      <4>1. sweeps'[h] = sweeps[h]
        BY <2>2, <3>2
      <4>2. sweeps[h] = [since |-> h, seen |-> sweeps[h].seen]
        BY <1>0 DEF Sweeping
      <4>3. QED BY <4>1, <4>2
    <3>3. QED BY <3>1, <3>2
  <2>6. sweeps' = [h \in DOMAIN sweeps' |-> sweeps'[h]]
    BY <2>2, <1>0 DEF Sweeping
  <2>7. sweeps' = [h \in DOMAIN sweeps' |-> [since |-> h, seen |-> sweeps'[h].seen]]
    BY <2>4, <2>5, <2>6
  <2>8. QED BY <1>0, <2>1, <2>4, <2>7 DEF PlacerInv, Sweeping
<1>3. ASSUME CacheAges PROVE PlacerInv'
  BY <1>0, <1>3 DEF PlacerInv, Sweeping, CacheAges
<1>4. QED BY <1>1, <1>2, <1>3 DEF SweepStep

\* Jobs and units.
LEMMA UnitStepKeepsPlacer ==
    ASSUME PlacerInv, UnitStep
    PROVE  PlacerInv'
<1>1. PICK u \in Units :
         \/ JobStarts(u) \/ JobGivesUp(u) \/ JobEvicts(u) \/ JobSucceeds(u) \/ JobFails(u)
         \/ (\E m \in Models : OtherLoad(u, m)) \/ RestUnload(u) \/ RestUnloaded
  BY DEF UnitStep
<1>2. CASE UNCHANGED <<placerVars, req>>
  BY <1>2 DEF PlacerInv, Sweeping, placerVars
<1>3. CASE Moving(u) /\ UNCHANGED placerVars
  BY <1>3, MovingKeepsPlacer
<1>4. CASE RestUnloaded
  BY <1>4, InvalidateKeepsSweeps DEF RestUnloaded, PlacerInv
<1>5. JobStarts(u) => UNCHANGED <<placerVars, req>>
  BY DEF JobStarts
<1>6. JobGivesUp(u) => UNCHANGED <<placerVars, req>>
  BY DEF JobGivesUp
<1>7. JobEvicts(u) => Moving(u) /\ UNCHANGED placerVars
  BY DEF JobEvicts
<1>8. JobSucceeds(u) => Moving(u) /\ UNCHANGED placerVars
  BY DEF JobSucceeds
<1>9. JobFails(u) => UNCHANGED <<placerVars, req>>
  BY DEF JobFails
<1>10. (\E m \in Models : OtherLoad(u, m)) => UNCHANGED <<placerVars, req>>
  BY DEF OtherLoad
<1>11. RestUnload(u) => Moving(u) /\ UNCHANGED placerVars
  BY DEF RestUnload
<1>12. QED
  BY <1>1, <1>2, <1>3, <1>4, <1>5, <1>6, <1>7, <1>8, <1>9, <1>10, <1>11

\* A load has failed: the request is placed again, or it is over.
LEMMA LoadFailedKeepsPlacer ==
    ASSUME PlacerInv, NEW r \in Requests, NEW q, NEW how, LoadFailed(r, q, how)
    PROVE  PlacerInv'
<1>1. CASE MayRetry(q, how)
  <2> DEFINE p == [Fresh0 EXCEPT !.ask = q.ask, !.excluded = {q.unit}, !.retried = TRUE,
                                 !.first = q.job]
  <2>1. Place(r, p)
    BY <1>1 DEF LoadFailed
  <2>2. Formed(p)
    BY CleanLocals DEF Formed, Fields
  <2> HIDE DEF p
  <2>3. QED BY <2>1, <2>2, PlaceKeepsPlacer
<1>2. CASE ~MayRetry(q, how)
  <2>1. Become(r, Over) /\ UNCHANGED placerVars
    BY <1>2 DEF LoadFailed
  <2>2. QED BY <2>1, CleanLocals, GoingOnKeepsPlacer
<1>3. QED BY <1>1, <1>2

\* A request, step by step.
LEMMA RequestStepKeepsPlacer ==
    ASSUME PlacerInv, NEW r \in Requests, RequestStep(r)
    PROVE  PlacerInv'
<1> DEFINE q == req[r]
<1>0. Formed(q) /\ q.since \in Nat
  BY DEF PlacerInv, Placed
<1> HIDE DEF q
<1>1. CASE Arrive(r)
  <2>1. PICK a : \/ Place(r, [q EXCEPT !.ask = a])
                 \/ /\ \/ Become(r, [[q EXCEPT !.ask = a] EXCEPT !.unit = a.pin, !.pc = "probe"])
                       \/ Become(r, Over)
                    /\ UNCHANGED placerVars
    BY <1>1 DEF Arrive, q
  <2> DEFINE p == [q EXCEPT !.ask = a]
             n == [p EXCEPT !.unit = a.pin, !.pc = "probe"]
  <2>2. Formed(p) /\ p.since \in Nat
    BY <1>0 DEF Formed, Fields
  <2>3. Place(r, p) \/ ((Become(r, n) \/ Become(r, Over)) /\ UNCHANGED placerVars)
    BY <2>1
  <2> HIDE DEF p
  <2>4. Formed(n) /\ n.since \in Nat /\ n.pc = "probe"
    BY <2>2 DEF Formed, Fields
  <2> HIDE DEF n
  <2>5. CASE Place(r, p)
    BY <2>2, <2>5, PlaceKeepsPlacer
  <2>6. CASE Become(r, n) /\ UNCHANGED placerVars
    BY <2>4, <2>6, GoingOnKeepsPlacer
  <2>7. CASE Become(r, Over) /\ UNCHANGED placerVars
    BY <2>7, CleanLocals, GoingOnKeepsPlacer
  <2>8. QED BY <2>3, <2>5, <2>6, <2>7
<1>2. CASE RankAndGate(r)
  <2>1. PICK hot \in SUBSET Seen(q.view), held \in Refusals :
           LET d == Decision(q, hot, held)
               c == [Fresh0 EXCEPT !.pc = "probe", !.ask = q.ask, !.unit = d.unit,
                                   !.evict = d.victims,
                                   !.retried = q.retried, !.first = q.first]
           IN  \/ (Become(r, Over) \/ Become(r, c)) /\ UNCHANGED placerVars
               \/ Place(r, [q EXCEPT !.view = None, !.excluded = {d.unit}, !.tries = 1])
    BY <1>2 DEF RankAndGate, q
  <2> DEFINE d == Decision(q, hot, held)
  <2> DEFINE c == [Fresh0 EXCEPT !.pc = "probe", !.ask = q.ask, !.unit = d.unit,
                                 !.evict = d.victims,
                                 !.retried = q.retried, !.first = q.first]
             n == [q EXCEPT !.view = None, !.excluded = {d.unit}, !.tries = 1]
  <2>2. Place(r, n) \/ ((Become(r, Over) \/ Become(r, c)) /\ UNCHANGED placerVars)
    BY <2>1, Zenon
  <2> HIDE DEF d
  <2>3. Formed(c) /\ c.since = 0 /\ c.pc = "probe"
    BY CleanLocals DEF Formed, Fields
  <2>4. Formed(n)
    BY <1>0 DEF Formed, Fields
  <2> HIDE DEF c, n
  <2>5. CASE Place(r, n)
    BY <2>4, <2>5, PlaceKeepsPlacer
  <2>6. CASE Become(r, c) /\ UNCHANGED placerVars
    BY <2>3, <2>6, GoingOnKeepsPlacer
  <2>7. CASE Become(r, Over) /\ UNCHANGED placerVars
    BY <2>7, CleanLocals, GoingOnKeepsPlacer
  <2>8. QED BY <2>2, <2>5, <2>6, <2>7
<1>3. CASE RestLoad(r)
  <2>1. Become(r, Over) /\ (Invalidate \/ UNCHANGED placerVars)
    BY <1>3 DEF RestLoad
  <2>2. QED BY <2>1, CleanLocals, GoingOnKeepsPlacer
<1>4. CASE Probe(r)
  <2>1. /\ UNCHANGED placerVars
        /\ q.pc \in {"probe", "reprobe"}
        /\ \E w \in Answers(q.unit) :
              Become(r, [q EXCEPT !.rows = w, !.moved = FALSE,
                                  !.pc = IF @ = "probe" THEN "admit" ELSE "reroute"])
    BY <1>4 DEF Probe, q
  <2>2. PICK w : Become(r, [q EXCEPT !.rows = w, !.moved = FALSE,
                                     !.pc = IF @ = "probe" THEN "admit" ELSE "reroute"])
    BY <2>1
  <2> DEFINE n == [q EXCEPT !.rows = w, !.moved = FALSE,
                            !.pc = IF @ = "probe" THEN "admit" ELSE "reroute"]
  <2>3. Formed(n) /\ n.since \in Nat /\ n.pc \in {"admit", "reroute"}
    BY <1>0 DEF Formed, Fields
  <2>4. Become(r, n)
    BY <2>2
  <2> HIDE DEF n
  <2>5. QED BY <2>1, <2>3, <2>4, GoingOnKeepsPlacer
<1>5. CASE Admit(r)
  <2>1. PICK p, s, j :
           /\ s = [q EXCEPT !.route = Route(q.unit, q.rows, q.ask.model),
                            !.rows = <<>>, !.evict = {}, !.moved = FALSE]
           /\ \/ p = Over
              \/ p = [s EXCEPT !.pc = "forward"]
              \/ p = [s EXCEPT !.pc = "wait", !.job = j]
           /\ Become(r, p)
           /\ UNCHANGED placerVars \/ Invalidate
    BY <1>5 DEF Admit, q
  <2>2. Formed(s) /\ s.since \in Nat
    BY <1>0, <2>1 DEF Formed, Fields
  <2>3. Formed(p) /\ p.since \in Nat /\ p.pc \notin {"sweep", "rank"}
    <3>1. CASE p = Over
      BY <3>1, CleanLocals
    <3>2. CASE p = [s EXCEPT !.pc = "forward"]
      BY <2>2, <3>2 DEF Formed, Fields
    <3>3. CASE p = [s EXCEPT !.pc = "wait", !.job = j]
      BY <2>2, <3>3 DEF Formed, Fields
    <3>4. QED BY <2>1, <3>1, <3>2, <3>3
  <2>4. QED BY <2>1, <2>3, GoingOnKeepsPlacer
<1>6. CASE Poll(r)
  <2>1. \/ \E how : LoadFailed(r, q, how)
        \/ /\ UNCHANGED placerVars
           /\ \/ Become(r, [q EXCEPT !.pc = "reprobe"])
              \/ Become(r, [q EXCEPT !.pc = "forward"])
    BY <1>6 DEF Poll, q
  <2>2. ASSUME NEW where \in {"reprobe", "forward"}, Become(r, [q EXCEPT !.pc = where]),
               UNCHANGED placerVars
        PROVE  PlacerInv'
    <3> DEFINE n == [q EXCEPT !.pc = where]
    <3>1. Formed(n) /\ n.since \in Nat /\ n.pc = where
      BY <1>0 DEF Formed, Fields
    <3>2. Become(r, n)
      BY <2>2
    <3> HIDE DEF n
    <3>3. QED BY <2>2, <3>1, <3>2, GoingOnKeepsPlacer
  <2>3. QED BY <2>1, <2>2, LoadFailedKeepsPlacer
<1>7. CASE WaitTimesOut(r)
  BY <1>7, LoadFailedKeepsPlacer DEF WaitTimesOut
<1>8. CASE Reroute(r)
  <2> DEFINE n == [q EXCEPT !.route = Route(q.unit, q.rows, q.ask.model),
                            !.rows = <<>>, !.moved = FALSE, !.pc = "forward"]
  <2>1. Become(r, n) /\ UNCHANGED placerVars
    BY <1>8 DEF Reroute, q
  <2>2. Formed(n) /\ n.since \in Nat /\ n.pc = "forward"
    BY <1>0 DEF Formed, Fields
  <2> HIDE DEF n
  <2>3. QED BY <2>1, <2>2, GoingOnKeepsPlacer
<1>9. CASE Forward(r)
  <2>1. Become(r, Over) /\ UNCHANGED placerVars
    BY <1>9 DEF Forward
  <2>2. QED BY <2>1, CleanLocals, GoingOnKeepsPlacer
<1>10. QED
  BY <1>1, <1>2, <1>3, <1>4, <1>5, <1>6, <1>7, <1>8, <1>9 DEF RequestStep

\* The sweeps are in order in every reachable state.
LEMMA PlacerInvariant == Spec => []PlacerInv
<1>1. Init => PlacerInv
  <2> SUFFICES ASSUME Init PROVE PlacerInv
    OBVIOUS
  <2>1. Sweeping
    BY DEF Init, Sweeping
  <2>2. req = [r \in Requests |-> Fresh0]
    BY DEF Init
  <2>3. Placed(Fresh0, DOMAIN sweeps)
    BY CleanLocals, PlacedElsewhere
  <2>4. QED BY <2>1, <2>2, <2>3 DEF PlacerInv
<1>2. PlacerInv /\ [Next]_vars => PlacerInv'
  <2> SUFFICES ASSUME PlacerInv, [Next]_vars PROVE PlacerInv'
    OBVIOUS
  <2>1. CASE UNCHANGED vars
    BY <2>1 DEF vars, PlacerInv, Sweeping
  <2>2. CASE Next
    BY <2>2, UnitStepKeepsPlacer, SweepStepKeepsPlacer, RequestStepKeepsPlacer DEF Next
  <2>3. QED BY <2>1, <2>2
<1>3. QED BY <1>1, <1>2, PTL DEF Spec

\* A request never ranks on statuses whose sweep began before a load that had been
\* committed off a decision, or a REST unload that had been done, when it asked.
THEOREM RankedStatusesAreFresh == Spec => []FreshAfterCommit
<1>1. PlacerInv => FreshAfterCommit
  BY DEF PlacerInv, Placed, FreshAfterCommit
<1>2. QED BY <1>1, PlacerInvariant, PTL

-----------------------------------------------------------------------------
(* Jobs.  A job that waits for a lock, or has it, is of that unit and has  *)
(* not ended; what prune() forgets has, and an id never comes back.        *)

JobTable(js, n) ==
    /\ n \in Nat \ {0} /\ DOMAIN js \subseteq 1..(n - 1)
    /\ js = [j \in DOMAIN js |-> [unit |-> js[j].unit, model |-> js[j].model,
                                  evict |-> js[j].evict, state |-> js[j].state]]

Pending(js, u, j) == j \in DOMAIN js /\ j \notin Terminal(js) /\ js[j].unit = u

InLine(js, qs, rn) ==
    /\ qs = [u \in Units |-> qs[u]] /\ rn = [u \in Units |-> rn[u]]
    /\ \A u \in Units :
          /\ \A j \in qs[u] : Pending(js, u, j)
          /\ rn[u] # NoJob => Pending(js, u, rn[u]) /\ rn[u] \notin qs[u]

\* the loads of a request
Loading(q, js, n) ==
    /\ q.job \in 0..(n - 1) /\ q.first \in 0..(n - 1)
    /\ q.first \in DOMAIN js => q.first \in Terminal(js)
    /\ q.first # NoJob => q.job # q.first

JobsInv ==
    /\ JobTable(jobs, nextJob) /\ InLine(jobs, queue, run)
    /\ \A r \in Requests : Loading(req[r], jobs, nextJob)

\* what the table does in a step
Advances(js, n, js2, n2) ==
    /\ n <= n2 /\ n2 \in Nat
    /\ \A j \in DOMAIN js2 : j \in DOMAIN js \/ j >= n
    /\ \A j \in Terminal(js) \intersect DOMAIN js2 : j \in Terminal(js2)

\* The loads of a request stay apart while the table goes on.
LEMMA AdvancingKeepsLoading ==
    ASSUME NEW q, NEW js, NEW n, NEW js2, NEW n2, n \in Nat,
           Loading(q, js, n), Advances(js, n, js2, n2)
    PROVE  Loading(q, js2, n2)
BY DEF Loading, Advances, Terminal

\* _prune forgets nothing but jobs that have ended.
LEMMA PrunedOnlyTerminal ==
    ASSUME NEW js
    PROVE  /\ DOMAIN Pruned(js) \subseteq DOMAIN js
           /\ DOMAIN js \ Terminal(js) \subseteq DOMAIN Pruned(js)
           /\ \A j \in DOMAIN Pruned(js) : Pruned(js)[j] = js[j]
           /\ js = [j \in DOMAIN js |-> js[j]]
                 => Pruned(js) = [j \in DOMAIN Pruned(js) |-> js[j]]
<1> DEFINE old == {j \in Terminal(js) :
                      Cardinality({k \in Terminal(js) : k > j}) >= MaxHistory}
<1>1. old \subseteq Terminal(js)
  OBVIOUS
<1>2. Pruned(js) = IF Cardinality(DOMAIN js) <= MaxHistory THEN js
                   ELSE [j \in DOMAIN js \ old |-> js[j]]
  BY DEF Pruned
<1> HIDE DEF old
<1>3. QED BY <1>1, <1>2

\* A job of a unit changes its state, before or as it leaves the line.
LEMMA SettingAdvances ==
    ASSUME JobTable(jobs, nextJob), NEW j \in DOMAIN jobs, NEW how, Set(j, how),
           j \notin Terminal(jobs), UNCHANGED nextJob
    PROVE  /\ JobTable(jobs', nextJob') /\ Advances(jobs, nextJob, jobs', nextJob')
           /\ DOMAIN jobs' = DOMAIN jobs
           /\ \A k \in DOMAIN jobs : k # j => jobs'[k] = jobs[k]
           /\ jobs'[j].state = how /\ jobs'[j].unit = jobs[j].unit
<1>1. jobs' = [jobs EXCEPT ![j].state = how]
  BY DEF Set
<1>2. jobs[j] = [unit |-> jobs[j].unit, model |-> jobs[j].model,
                 evict |-> jobs[j].evict, state |-> jobs[j].state]
  BY DEF JobTable
<1>3. /\ DOMAIN jobs' = DOMAIN jobs
      /\ \A k \in DOMAIN jobs : k # j => jobs'[k] = jobs[k]
      /\ jobs'[j] = [jobs[j] EXCEPT !.state = how]
      /\ jobs' = [k \in DOMAIN jobs |-> jobs'[k]]
  BY <1>1 DEF JobTable
<1>4. jobs'[j] = [unit |-> jobs[j].unit, model |-> jobs[j].model,
                  evict |-> jobs[j].evict, state |-> how]
  BY <1>2, <1>3
<1>5. ASSUME NEW k \in DOMAIN jobs
      PROVE  jobs'[k] = [unit |-> jobs'[k].unit, model |-> jobs'[k].model,
                         evict |-> jobs'[k].evict, state |-> jobs'[k].state]
  <2>1. CASE k = j
    BY <2>1, <1>4
  <2>2. CASE k # j
    BY <2>2, <1>3 DEF JobTable
  <2>3. QED BY <2>1, <2>2
<1>6. jobs' = [k \in DOMAIN jobs' |-> [unit |-> jobs'[k].unit, model |-> jobs'[k].model,
                                       evict |-> jobs'[k].evict, state |-> jobs'[k].state]]
  BY <1>3, <1>5
<1>7. JobTable(jobs', nextJob')
  BY <1>3, <1>6 DEF JobTable
<1>8. Advances(jobs, nextJob, jobs', nextJob')
  BY <1>3 DEF Advances, Terminal, JobTable
<1>9. QED BY <1>3, <1>4, <1>7, <1>8

\* The requests stay as they are, but for what they know of their unit.
LEMMA AdvancingKeepsRequests ==
    ASSUME PlacerInv, JobsInv, Advances(jobs, nextJob, jobs', nextJob'),
           NEW u, Moving(u) \/ UNCHANGED req
    PROVE  \A r \in Requests : Loading(req'[r], jobs', nextJob')
<1>1. ASSUME NEW r \in Requests PROVE Loading(req'[r], jobs', nextJob')
  <2>1. Formed(req[r]) /\ Loading(req[r], jobs, nextJob)
    BY DEF PlacerInv, Placed, JobsInv
  <2>2. req'[r].job = req[r].job /\ req'[r].first = req[r].first
    <3>1. CASE UNCHANGED req
      BY <3>1
    <3>2. CASE Moving(u)
      <4>1. PICK b : req'[r] = [req[r] EXCEPT !.moved = b]
        BY <3>2 DEF Moving
      <4>2. QED BY <2>1, <4>1 DEF Formed, Fields
    <3>3. QED BY <3>1, <3>2
  <2>3. Loading(req'[r], jobs, nextJob)
    BY <2>1, <2>2 DEF Loading
  <2>4. nextJob \in Nat
    BY DEF JobsInv, JobTable
  <2>5. QED BY <2>3, <2>4, AdvancingKeepsLoading
<1>2. QED BY <1>1

\* create() and start().
LEMMA NewJobAdvances ==
    ASSUME JobsInv, NEW u, NEW m, NEW E, NewJob(u, m, E)
    PROVE  /\ JobTable(jobs', nextJob') /\ InLine(jobs', queue', run')
           /\ Advances(jobs, nextJob, jobs', nextJob') /\ nextJob' = nextJob + 1
<1> DEFINE js == [j \in DOMAIN jobs \union {nextJob} |->
                    IF j = nextJob
                    THEN [unit |-> u, model |-> m, evict |-> E, state |-> "running"]
                    ELSE jobs[j]]
<1>1. JobTable(jobs, nextJob) /\ InLine(jobs, queue, run)
  BY DEF JobsInv
<1>2. /\ jobs' = Pruned(js) /\ nextJob' = nextJob + 1 /\ run' = run
      /\ queue' = [queue EXCEPT ![u] = @ \union {nextJob}]
  BY DEF NewJob
<1>3. nextJob \in Nat \ {0} /\ nextJob \notin DOMAIN jobs /\ \A j \in DOMAIN jobs : j \in Nat /\ j < nextJob
  BY <1>1 DEF JobTable
<1>4. /\ DOMAIN js = DOMAIN jobs \union {nextJob}
      /\ \A j \in DOMAIN jobs : js[j] = jobs[j]
      /\ js[nextJob].unit = u /\ js[nextJob].state = "running"
      /\ js = [j \in DOMAIN js |-> js[j]]
  BY <1>3
<1>5. \A j \in DOMAIN js : js[j] = [unit |-> js[j].unit, model |-> js[j].model,
                                    evict |-> js[j].evict, state |-> js[j].state]
  <2>1. TAKE j \in DOMAIN js
  <2>2. CASE j = nextJob
    BY <2>2
  <2>3. CASE j # nextJob
    BY <2>3, <1>1, <1>4 DEF JobTable
  <2>4. QED BY <2>2, <2>3
<1> HIDE DEF js
<1>6. nextJob \notin Terminal(js) /\ Terminal(js) = Terminal(jobs)
  BY <1>3, <1>4 DEF Terminal
<1>7. /\ DOMAIN jobs' \subseteq DOMAIN js
      /\ DOMAIN js \ Terminal(js) \subseteq DOMAIN jobs'
      /\ \A j \in DOMAIN jobs' : jobs'[j] = js[j]
      /\ jobs' = [j \in DOMAIN jobs' |-> js[j]]
  BY <1>2, <1>4, PrunedOnlyTerminal
<1>8. Terminal(jobs') = Terminal(js) \intersect DOMAIN jobs'
  BY <1>7 DEF Terminal
<1>9. JobTable(jobs', nextJob')
  <2>1. DOMAIN jobs' \subseteq 1..(nextJob' - 1) /\ nextJob' \in Nat \ {0}
    BY <1>2, <1>3, <1>4, <1>7, <1>1 DEF JobTable
  <2>2. jobs' = [j \in DOMAIN jobs' |-> [unit |-> jobs'[j].unit, model |-> jobs'[j].model,
                                         evict |-> jobs'[j].evict, state |-> jobs'[j].state]]
    BY <1>5, <1>7
  <2>3. QED BY <2>1, <2>2 DEF JobTable
<1>10. Advances(jobs, nextJob, jobs', nextJob')
  BY <1>2, <1>3, <1>4, <1>6, <1>7, <1>8 DEF Advances
<1>11. \A v \in Units, j \in DOMAIN jobs : Pending(jobs, v, j) => Pending(jobs', v, j)
  BY <1>4, <1>6, <1>7, <1>8 DEF Pending
<1>12. Pending(jobs', u, nextJob)
  BY <1>4, <1>6, <1>7, <1>8 DEF Pending
<1>13. InLine(jobs', queue', run')
  <2>1. queue' = [v \in Units |-> queue'[v]] /\ run' = [v \in Units |-> run'[v]]
    BY <1>1, <1>2 DEF InLine
  <2>2. ASSUME NEW v \in Units
        PROVE  /\ \A j \in queue'[v] : Pending(jobs', v, j)
               /\ run'[v] # NoJob => Pending(jobs', v, run'[v]) /\ run'[v] \notin queue'[v]
    <3>1. queue'[v] = IF v = u THEN queue[v] \union {nextJob} ELSE queue[v]
      BY <1>1, <1>2 DEF InLine
    <3>2. \A j \in queue[v] : Pending(jobs, v, j) /\ j \in DOMAIN jobs
      BY <1>1 DEF InLine, Pending
    <3>3. run[v] # NoJob => /\ Pending(jobs, v, run[v]) /\ run[v] \in DOMAIN jobs
                            /\ run[v] \notin queue[v]
      BY <1>1 DEF InLine, Pending
    <3>4. QED BY <3>1, <3>2, <3>3, <1>2, <1>3, <1>11, <1>12
  <2>3. QED BY <2>1, <2>2 DEF InLine
<1>14. QED BY <1>2, <1>9, <1>10, <1>13

\* A job that has a lock changes its state and keeps it, or ends and lets it go.
LEMMA RunnerKeepsLine ==
    ASSUME JobsInv, NEW u \in Units, run[u] # NoJob, NEW how, Set(run[u], how),
           UNCHANGED <<nextJob, queue>>,
           \/ run' = [run EXCEPT ![u] = NoJob]
           \/ run' = run /\ how \notin {"succeeded", "failed", "conflict"}
    PROVE  /\ JobTable(jobs', nextJob') /\ InLine(jobs', queue', run')
           /\ Advances(jobs, nextJob, jobs', nextJob')
<1> DEFINE j == run[u]
<1>1. JobTable(jobs, nextJob) /\ InLine(jobs, queue, run)
  BY DEF JobsInv
<1>2. Pending(jobs, u, j)
  BY <1>1 DEF InLine
<1>3. j \in DOMAIN jobs /\ j \notin Terminal(jobs) /\ jobs[j].unit = u /\ j # NoJob
  BY <1>2 DEF Pending
<1>4. Set(j, how)
  OBVIOUS
<1> HIDE DEF j
<1>5. /\ JobTable(jobs', nextJob') /\ Advances(jobs, nextJob, jobs', nextJob')
      /\ DOMAIN jobs' = DOMAIN jobs
      /\ \A k \in DOMAIN jobs : k # j => jobs'[k] = jobs[k]
      /\ jobs'[j].state = how /\ jobs'[j].unit = jobs[j].unit
  BY <1>1, <1>3, <1>4, SettingAdvances
<1>6. \A v \in Units : \A k : k # j /\ Pending(jobs, v, k) => Pending(jobs', v, k)
  BY <1>5 DEF Pending, Terminal
<1>7. run' = run => Pending(jobs', u, j)
  <2>1. how \notin {"succeeded", "failed", "conflict"} => Pending(jobs', u, j)
    BY <1>3, <1>5 DEF Pending, Terminal
  <2>2. CASE run' = [run EXCEPT ![u] = NoJob]
    BY <2>2, <1>1, <1>3 DEF InLine, j
  <2>3. QED BY <2>1, <2>2
<1>8. ASSUME NEW v \in Units
      PROVE  /\ \A k \in queue'[v] : Pending(jobs', v, k)
             /\ run'[v] # NoJob => Pending(jobs', v, run'[v]) /\ run'[v] \notin queue'[v]
  <2>1. /\ \A k \in queue[v] : Pending(jobs, v, k)
        /\ run[v] # NoJob => Pending(jobs, v, run[v]) /\ run[v] \notin queue[v]
    BY <1>1 DEF InLine
  <2>2. CASE v = u
    <3>1. j \notin queue[v] /\ j = run[v]
      BY <2>1, <2>2, <1>3 DEF j
    <3>2. run'[v] = NoJob \/ run' = run
      BY <1>1, <2>2 DEF InLine
    <3>3. QED BY <2>1, <2>2, <3>1, <3>2, <1>6, <1>7
  <2>3. CASE v # u
    <3>1. \A k : Pending(jobs, v, k) => k # j
      BY <2>3, <1>3 DEF Pending
    <3>2. run'[v] = run[v]
      BY <2>3, <1>1 DEF InLine
    <3>3. QED BY <2>1, <3>1, <3>2, <1>6
  <2>4. QED BY <2>2, <2>3
<1>9. queue' = [v \in Units |-> queue'[v]] /\ run' = [v \in Units |-> run'[v]]
  BY <1>1 DEF InLine
<1>10. QED BY <1>5, <1>8, <1>9 DEF InLine

\* Jobs and units.
LEMMA UnitStepKeepsJobs ==
    ASSUME PlacerInv, JobsInv, UnitStep
    PROVE  JobsInv'
<1>1. JobTable(jobs, nextJob) /\ InLine(jobs, queue, run) /\ nextJob \in Nat
  BY DEF JobsInv, JobTable
<1>2. ASSUME NEW u, Moving(u) \/ UNCHANGED req,
             JobTable(jobs', nextJob'), InLine(jobs', queue', run'),
             Advances(jobs, nextJob, jobs', nextJob')
      PROVE  JobsInv'
  BY <1>2, AdvancingKeepsRequests DEF JobsInv
<1>3. ASSUME NEW u \in Units, JobStarts(u) PROVE JobsInv'
  <2> DEFINE j == Min(queue[u])
  <2>1. j \in queue[u]
    BY <1>1, <1>3, MinIsLeast DEF JobStarts, InLine, Pending, JobTable
  <2>2. /\ run' = [run EXCEPT ![u] = j] /\ queue' = [queue EXCEPT ![u] = @ \ {j}]
        /\ UNCHANGED <<jobs, nextJob, req>>
    BY <1>3 DEF JobStarts
  <2> HIDE DEF j
  <2>3. InLine(jobs', queue', run')
    BY <1>1, <2>1, <2>2 DEF InLine
  <2>4. Advances(jobs, nextJob, jobs', nextJob')
    BY <1>1, <2>2 DEF Advances
  <2>5. QED BY <1>1, <1>2, <2>2, <2>3, <2>4
<1>4. ASSUME NEW u \in Units, JobGivesUp(u) PROVE JobsInv'
  <2>1. PICK j \in queue[u] : queue' = [queue EXCEPT ![u] = @ \ {j}] /\ Set(j, "failed")
    BY <1>4 DEF JobGivesUp
  <2>2. UNCHANGED <<run, nextJob, req>>
    BY <1>4 DEF JobGivesUp
  <2>3. Pending(jobs, u, j)
    BY <1>1, <2>1 DEF InLine
  <2>4. j \in DOMAIN jobs /\ j \notin Terminal(jobs) /\ jobs[j].unit = u
    BY <2>3 DEF Pending
  <2>5. /\ JobTable(jobs', nextJob') /\ Advances(jobs, nextJob, jobs', nextJob')
        /\ DOMAIN jobs' = DOMAIN jobs
        /\ \A k \in DOMAIN jobs : k # j => jobs'[k] = jobs[k]
    BY <1>1, <2>1, <2>2, <2>4, SettingAdvances
  <2>6. \A v \in Units : \A k : k # j /\ Pending(jobs, v, k) => Pending(jobs', v, k)
    BY <2>5 DEF Pending, Terminal
  <2>7. ASSUME NEW v \in Units
        PROVE  /\ \A k \in queue'[v] : k # j /\ k \in queue[v]
               /\ run[v] # NoJob => run[v] # j
    <3>1. /\ \A k \in queue[v] : Pending(jobs, v, k)
          /\ run[v] # NoJob => Pending(jobs, v, run[v]) /\ run[v] \notin queue[v]
      BY <1>1 DEF InLine
    <3>2. queue'[v] = IF v = u THEN queue[v] \ {j} ELSE queue[v]
      BY <1>1, <2>1 DEF InLine
    <3>3. CASE v = u
      BY <2>1, <3>1, <3>2, <3>3
    <3>4. CASE v # u
      BY <2>4, <3>1, <3>2, <3>4 DEF Pending
    <3>5. QED BY <3>3, <3>4
  <2>8. queue' = [v \in Units |-> queue'[v]]
    BY <1>1, <2>1 DEF InLine
  <2>9. InLine(jobs', queue', run')
    BY <1>1, <2>2, <2>6, <2>7, <2>8 DEF InLine
  <2>10. QED BY <1>2, <2>2, <2>5, <2>9
<1>5. ASSUME NEW u \in Units, JobEvicts(u) PROVE JobsInv'
  <2>1. /\ run[u] # NoJob /\ Set(run[u], "launching") /\ Moving(u)
        /\ UNCHANGED <<nextJob, queue, run>>
    BY <1>5 DEF JobEvicts
  <2>2. /\ JobTable(jobs', nextJob') /\ InLine(jobs', queue', run')
        /\ Advances(jobs, nextJob, jobs', nextJob')
    BY <2>1, RunnerKeepsLine
  <2>3. QED BY <1>2, <2>1, <2>2
<1>6. ASSUME NEW u \in Units, JobSucceeds(u) PROVE JobsInv'
  <2>1. /\ run[u] # NoJob /\ Set(run[u], "succeeded") /\ Moving(u)
        /\ run' = [run EXCEPT ![u] = NoJob] /\ UNCHANGED <<nextJob, queue>>
    BY <1>6 DEF JobSucceeds
  <2>2. /\ JobTable(jobs', nextJob') /\ InLine(jobs', queue', run')
        /\ Advances(jobs, nextJob, jobs', nextJob')
    BY <2>1, RunnerKeepsLine
  <2>3. QED BY <1>2, <2>1, <2>2
<1>7. ASSUME NEW u \in Units, JobFails(u) PROVE JobsInv'
  <2>1. /\ run[u] # NoJob /\ (\E how : Set(run[u], how))
        /\ run' = [run EXCEPT ![u] = NoJob] /\ UNCHANGED <<nextJob, queue, req>>
    BY <1>7 DEF JobFails
  <2>2. /\ JobTable(jobs', nextJob') /\ InLine(jobs', queue', run')
        /\ Advances(jobs, nextJob, jobs', nextJob')
    BY <2>1, RunnerKeepsLine
  <2>3. QED BY <1>2, <2>1, <2>2
<1>8. ASSUME NEW u \in Units, NEW m \in Models, OtherLoad(u, m) PROVE JobsInv'
  BY <1>2, <1>8, NewJobAdvances DEF OtherLoad
<1>9. ASSUME NEW u \in Units, RestUnload(u) PROVE JobsInv'
  <2>1. Moving(u) /\ UNCHANGED <<jobs, nextJob, queue, run>>
    BY <1>9 DEF RestUnload
  <2>2. Advances(jobs, nextJob, jobs', nextJob')
    BY <1>1, <2>1 DEF Advances
  <2>3. QED BY <1>1, <1>2, <2>1, <2>2
<1>10. ASSUME RestUnloaded PROVE JobsInv'
  <2>1. UNCHANGED <<jobs, nextJob, queue, run, req>>
    BY <1>10 DEF RestUnloaded, unitVars
  <2>2. Advances(jobs, nextJob, jobs', nextJob')
    BY <1>1, <2>1 DEF Advances
  <2>3. QED BY <1>1, <1>2, <2>1, <2>2
<1>11. QED BY <1>3, <1>4, <1>5, <1>6, <1>7, <1>8, <1>9, <1>10 DEF UnitStep

\* One request goes on.
LEMMA GoingOnKeepsJobs ==
    ASSUME PlacerInv, JobsInv, NEW r \in Requests, NEW q, Become(r, q),
           JobTable(jobs', nextJob'), InLine(jobs', queue', run'),
           Advances(jobs, nextJob, jobs', nextJob'), Loading(q, jobs', nextJob')
    PROVE  JobsInv'
<1>1. req' = [req EXCEPT ![r] = q] /\ req = [s \in Requests |-> req[s]] /\ nextJob \in Nat
  BY DEF Become, PlacerInv, JobsInv, JobTable
<1>2. ASSUME NEW s \in Requests PROVE Loading(req'[s], jobs', nextJob')
  <2>1. req'[s] = IF s = r THEN q ELSE req[s]
    BY <1>1
  <2>2. Loading(req[s], jobs, nextJob)
    BY DEF JobsInv
  <2>3. Loading(req[s], jobs', nextJob')
    BY <1>1, <2>2, AdvancingKeepsLoading
  <2>4. QED BY <2>1, <2>3
<1>3. QED BY <1>2 DEF JobsInv

\* ... and no job does.
LEMMA GoingOnAlone ==
    ASSUME PlacerInv, JobsInv, NEW r \in Requests, NEW q, Become(r, q),
           UNCHANGED <<jobs, nextJob, unitVars>>, Loading(q, jobs, nextJob)
    PROVE  JobsInv'
<1>1. /\ JobTable(jobs', nextJob') /\ InLine(jobs', queue', run')
      /\ Loading(q, jobs', nextJob')
  BY DEF JobsInv, unitVars
<1>2. Advances(jobs, nextJob, jobs', nextJob')
  BY DEF JobsInv, JobTable, Advances
<1>3. QED BY <1>1, <1>2, GoingOnKeepsJobs

\* A request that is placed keeps its loads.
LEMMA PlacingAlone ==
    ASSUME PlacerInv, JobsInv, NEW r \in Requests, NEW q, Formed(q), Place(r, q),
           UNCHANGED <<jobs, nextJob, unitVars>>, Loading(q, jobs, nextJob)
    PROVE  JobsInv'
<1> DEFINE p == IF cache # None
                THEN [q EXCEPT !.view = cache, !.pc = "rank", !.since = moves]
                ELSE [q EXCEPT !.gen = gen, !.pc = "sweep", !.since = moves]
<1>1. Become(r, p)
  BY DEF Place
<1>2. p.job = q.job /\ p.first = q.first
  BY DEF Formed, Fields
<1> HIDE DEF p
<1>3. Loading(p, jobs, nextJob)
  BY <1>2 DEF Loading
<1>4. QED BY <1>1, <1>3, GoingOnAlone

\* A request without a load.
LEMMA WithoutLoads ==
    ASSUME JobsInv
    PROVE  /\ Loading(Over, jobs, nextJob)
           /\ 0 \notin DOMAIN jobs /\ nextJob \in Nat \ {0}
<1>1. 0 \notin DOMAIN jobs /\ nextJob \in Nat \ {0}
  BY DEF JobsInv, JobTable
<1>2. QED BY <1>1, CleanLocals DEF Loading, NoJob

\* A load has failed: the job of a conflict has ended before the request is placed again.
LEMMA LoadFailedKeepsJobs ==
    ASSUME PlacerInv, JobsInv, NEW r \in Requests, NEW how,
           how = "conflict" => req[r].job \in Terminal(jobs),
           LoadFailed(r, req[r], how), UNCHANGED <<jobs, nextJob, unitVars>>
    PROVE  JobsInv'
<1> DEFINE q == req[r]
<1>1. Formed(q) /\ Loading(q, jobs, nextJob)
  BY DEF PlacerInv, Placed, JobsInv
<1>2. LoadFailed(r, q, how) /\ (how = "conflict" => q.job \in Terminal(jobs))
  OBVIOUS
<1> HIDE DEF q
<1>3. CASE MayRetry(q, how)
  <2> DEFINE p == [Fresh0 EXCEPT !.ask = q.ask, !.excluded = {q.unit}, !.retried = TRUE,
                                 !.first = q.job]
  <2>1. Place(r, p)
    BY <1>2, <1>3 DEF LoadFailed
  <2>2. Formed(p) /\ p.first = q.job /\ p.job = NoJob
    BY CleanLocals DEF Formed, Fields
  <2> HIDE DEF p
  <2>3. q.job \in Terminal(jobs)
    BY <1>2, <1>3 DEF MayRetry
  <2>4. Loading(p, jobs, nextJob)
    BY <1>1, <2>2, <2>3, WithoutLoads DEF Loading, NoJob
  <2>5. QED BY <2>1, <2>2, <2>4, PlacingAlone
<1>4. CASE ~MayRetry(q, how)
  BY <1>2, <1>4, WithoutLoads, GoingOnAlone DEF LoadFailed
<1>5. QED BY <1>3, <1>4

\* A request, step by step.
LEMMA RequestStepKeepsJobs ==
    ASSUME PlacerInv, JobsInv, NEW r \in Requests, RequestStep(r)
    PROVE  JobsInv'
<1> DEFINE q == req[r]
<1>0. Formed(q) /\ Loading(q, jobs, nextJob)
  BY DEF PlacerInv, Placed, JobsInv
<1> HIDE DEF q
<1> DEFINE Idle == UNCHANGED <<jobs, nextJob, unitVars>>
<1>a. ASSUME NEW n, n.job = q.job, n.first = q.first PROVE Loading(n, jobs, nextJob)
  BY <1>0, <1>a DEF Loading
<1>b. ASSUME NEW n, n.job = q.job, n.first = q.first, Become(r, n), Idle PROVE JobsInv'
  BY <1>a, <1>b, GoingOnAlone
<1>c. Become(r, Over) /\ Idle => JobsInv'
  BY WithoutLoads, GoingOnAlone
<1>1. CASE Arrive(r)
  <2>1. Idle
    BY <1>1 DEF Arrive
  <2>2. PICK a : \/ Place(r, [q EXCEPT !.ask = a])
                 \/ Become(r, [[q EXCEPT !.ask = a] EXCEPT !.unit = a.pin, !.pc = "probe"])
                 \/ Become(r, Over)
    BY <1>1 DEF Arrive, q
  <2> DEFINE p == [q EXCEPT !.ask = a]
             n == [p EXCEPT !.unit = a.pin, !.pc = "probe"]
  <2>3. Place(r, p) \/ Become(r, n) \/ Become(r, Over)
    BY <2>2
  <2>4. Formed(p) /\ p.job = q.job /\ p.first = q.first
    BY <1>0 DEF Formed, Fields
  <2> HIDE DEF p
  <2>5. n.job = q.job /\ n.first = q.first
    BY <2>4 DEF Formed, Fields
  <2> HIDE DEF n
  <2>6. CASE Place(r, p)
    BY <2>1, <2>4, <2>6, <1>a, PlacingAlone
  <2>7. CASE Become(r, n)
    BY <2>1, <2>5, <2>7, <1>b
  <2>8. QED BY <2>1, <2>3, <2>6, <2>7, <1>c
<1>2. CASE RankAndGate(r)
  <2>1. Idle
    BY <1>2 DEF RankAndGate
  <2>2. PICK hot \in SUBSET Seen(q.view), held \in Refusals :
           LET d == Decision(q, hot, held)
           IN  \/ Become(r, Over)
               \/ Become(r, [Fresh0 EXCEPT !.pc = "probe", !.ask = q.ask, !.unit = d.unit,
                                           !.evict = d.victims,
                                           !.retried = q.retried, !.first = q.first])
               \/ Place(r, [q EXCEPT !.view = None, !.excluded = {d.unit}, !.tries = 1])
    BY <1>2 DEF RankAndGate, q
  <2> DEFINE d == Decision(q, hot, held)
  <2> DEFINE c == [Fresh0 EXCEPT !.pc = "probe", !.ask = q.ask, !.unit = d.unit,
                                 !.evict = d.victims,
                                 !.retried = q.retried, !.first = q.first]
             n == [q EXCEPT !.view = None, !.excluded = {d.unit}, !.tries = 1]
  <2>3. Place(r, n) \/ Become(r, Over) \/ Become(r, c)
    BY <2>2, Zenon
  <2> HIDE DEF d
  <2>4. c.job = NoJob /\ c.first = q.first
    BY CleanLocals DEF Formed, Fields
  <2>5. Formed(n) /\ n.job = q.job /\ n.first = q.first
    BY <1>0 DEF Formed, Fields
  <2> HIDE DEF c, n
  <2>6. Loading(c, jobs, nextJob)
    BY <1>0, <2>4, WithoutLoads DEF Loading, NoJob
  <2>7. CASE Place(r, n)
    BY <2>1, <2>5, <2>7, <1>a, PlacingAlone
  <2>8. CASE Become(r, c)
    BY <2>1, <2>6, <2>8, GoingOnAlone
  <2>9. QED BY <2>1, <2>3, <2>7, <2>8, <1>c
<1>3. CASE RestLoad(r)
  <2>1. Become(r, Over)
    BY <1>3 DEF RestLoad
  <2>2. PICK hot \in SUBSET Seen(q.view), held \in Refusals :
           LET d == Decision(q, hot, held)
           IN  NewJob(d.unit, q.ask.model, d.victims) \/ Idle
    BY <1>3 DEF RestLoad, q
  <2> DEFINE d == Decision(q, hot, held)
  <2>3. NewJob(d.unit, q.ask.model, d.victims) \/ Idle
    BY <2>2, Zenon
  <2> HIDE DEF d
  <2>4. CASE NewJob(d.unit, q.ask.model, d.victims)
    <3>1. /\ JobTable(jobs', nextJob') /\ InLine(jobs', queue', run')
          /\ Advances(jobs, nextJob, jobs', nextJob')
      BY <2>4, NewJobAdvances
    <3>2. Loading(Over, jobs', nextJob')
      BY <3>1, WithoutLoads, AdvancingKeepsLoading
    <3>3. QED BY <2>1, <3>1, <3>2, GoingOnKeepsJobs
  <2>5. QED BY <2>1, <2>3, <2>4, <1>c
<1>4. CASE Probe(r)
  <2>1. /\ Idle
        /\ \E w : Become(r, [q EXCEPT !.rows = w, !.moved = FALSE,
                                      !.pc = IF @ = "probe" THEN "admit" ELSE "reroute"])
    BY <1>4 DEF Probe, q
  <2>2. PICK w : Become(r, [q EXCEPT !.rows = w, !.moved = FALSE,
                                     !.pc = IF @ = "probe" THEN "admit" ELSE "reroute"])
    BY <2>1
  <2> DEFINE n == [q EXCEPT !.rows = w, !.moved = FALSE,
                            !.pc = IF @ = "probe" THEN "admit" ELSE "reroute"]
  <2>3. Become(r, n)
    BY <2>2
  <2>4. n.job = q.job /\ n.first = q.first
    BY <1>0 DEF Formed, Fields
  <2> HIDE DEF n
  <2>5. QED BY <2>1, <2>3, <2>4, <1>b
<1>5. CASE Admit(r)
  <2> DEFINE n == [q EXCEPT !.route = Route(q.unit, q.rows, q.ask.model),
                            !.rows = <<>>, !.evict = {}, !.moved = FALSE]
  <2>1. \/ Become(r, [n EXCEPT !.pc = "forward"]) /\ Idle
        \/ Attaches(q) /\ Become(r, [n EXCEPT !.pc = "wait", !.job = run[q.unit]]) /\ Idle
        \/ Become(r, Over) /\ Idle
        \/ /\ NewJob(q.unit, q.ask.model, q.evict)
           /\ Become(r, [n EXCEPT !.pc = "wait", !.job = nextJob])
    BY <1>5 DEF Admit, q
  <2>2. Formed(n) /\ n.job = q.job /\ n.first = q.first
    BY <1>0 DEF Formed, Fields
  <2> HIDE DEF n
  <2>3. CASE Become(r, [n EXCEPT !.pc = "forward"]) /\ Idle
    <3> DEFINE p == [n EXCEPT !.pc = "forward"]
    <3>1. p.job = q.job /\ p.first = q.first
      BY <2>2 DEF Formed, Fields
    <3>2. Become(r, p) /\ Idle
      BY <2>3
    <3> HIDE DEF p
    <3>3. QED BY <3>1, <3>2, <1>b
  <2>4. ASSUME NEW j, Become(r, [n EXCEPT !.pc = "wait", !.job = j]),
               \/ Idle /\ j \in DOMAIN jobs /\ j \notin Terminal(jobs)
               \/ j = nextJob /\ NewJob(q.unit, q.ask.model, q.evict)
        PROVE  JobsInv'
    <3> DEFINE p == [n EXCEPT !.pc = "wait", !.job = j]
    <3>1. p.job = j /\ p.first = q.first
      BY <2>2 DEF Formed, Fields
    <3>2. Become(r, p)
      BY <2>4
    <3> HIDE DEF p
    <3>3. CASE Idle /\ j \in DOMAIN jobs /\ j \notin Terminal(jobs)
      <4>1. j \in 0..(nextJob - 1)
        BY <3>3 DEF JobsInv, JobTable
      <4>2. q.first # j
        BY <1>0, <3>3 DEF Loading
      <4>3. Loading(p, jobs, nextJob)
        BY <1>0, <3>1, <4>1, <4>2 DEF Loading
      <4>4. QED BY <3>2, <3>3, <4>3, GoingOnAlone
    <3>4. CASE j = nextJob /\ NewJob(q.unit, q.ask.model, q.evict)
      <4>1. /\ JobTable(jobs', nextJob') /\ InLine(jobs', queue', run')
            /\ Advances(jobs, nextJob, jobs', nextJob') /\ nextJob' = nextJob + 1
        BY <3>4, NewJobAdvances
      <4>2. Loading(q, jobs', nextJob')
        BY <1>0, <4>1, WithoutLoads, AdvancingKeepsLoading
      <4>3. j \in 0..(nextJob' - 1) /\ q.first # j
        BY <1>0, <3>4, <4>1, WithoutLoads DEF Loading
      <4>4. Loading(p, jobs', nextJob')
        BY <3>1, <4>2, <4>3 DEF Loading
      <4>5. QED BY <3>2, <4>1, <4>4, GoingOnKeepsJobs
    <3>5. QED BY <2>4, <3>3, <3>4
  <2>5. CASE Attaches(q) /\ Become(r, [n EXCEPT !.pc = "wait", !.job = run[q.unit]]) /\ Idle
    <3>1. run[q.unit] \in DOMAIN jobs /\ run[q.unit] \notin Terminal(jobs)
      BY <2>5 DEF Attaches, Ended, Terminal
    <3>2. QED BY <2>4, <2>5, <3>1
  <2>6. QED BY <2>1, <2>3, <2>4, <2>5, <1>c
<1>6. CASE Poll(r)
  <2>1. Idle
    BY <1>6 DEF Poll
  <2>2. \/ q.job \notin DOMAIN jobs /\ LoadFailed(r, q, "vanished")
        \/ /\ q.job \in DOMAIN jobs /\ Ended(q.job)
           /\ LoadFailed(r, q, jobs[q.job].state)
        \/ Become(r, [q EXCEPT !.pc = "reprobe"])
        \/ Become(r, [q EXCEPT !.pc = "forward"])
    BY <1>6 DEF Poll, q
  <2>3. ASSUME NEW where, Become(r, [q EXCEPT !.pc = where]) PROVE JobsInv'
    <3> DEFINE n == [q EXCEPT !.pc = where]
    <3>1. n.job = q.job /\ n.first = q.first
      BY <1>0 DEF Formed, Fields
    <3>2. Become(r, n)
      BY <2>3
    <3> HIDE DEF n
    <3>3. QED BY <2>1, <3>1, <3>2, <1>b
  <2>4. CASE q.job \notin DOMAIN jobs /\ LoadFailed(r, q, "vanished")
    BY <2>1, <2>4, LoadFailedKeepsJobs DEF q
  <2>5. CASE q.job \in DOMAIN jobs /\ Ended(q.job) /\ LoadFailed(r, q, jobs[q.job].state)
    <3>1. q.job \in Terminal(jobs)
      BY <2>5 DEF Ended, Terminal
    <3>2. QED BY <2>1, <2>5, <3>1, LoadFailedKeepsJobs DEF q
  <2>6. QED BY <2>2, <2>3, <2>4, <2>5
<1>7. CASE WaitTimesOut(r)
  <2>1. LoadFailed(r, req[r], "timeout") /\ Idle
    BY <1>7 DEF WaitTimesOut
  <2>2. QED BY <2>1, LoadFailedKeepsJobs
<1>8. CASE Reroute(r)
  <2> DEFINE n == [q EXCEPT !.route = Route(q.unit, q.rows, q.ask.model),
                            !.rows = <<>>, !.moved = FALSE, !.pc = "forward"]
  <2>1. Become(r, n) /\ Idle
    BY <1>8 DEF Reroute, q
  <2>2. n.job = q.job /\ n.first = q.first
    BY <1>0 DEF Formed, Fields
  <2> HIDE DEF n
  <2>3. QED BY <2>1, <2>2, <1>b
<1>9. CASE Forward(r)
  BY <1>9, <1>c DEF Forward
<1>10. QED
  BY <1>1, <1>2, <1>3, <1>4, <1>5, <1>6, <1>7, <1>8, <1>9 DEF RequestStep

\* The table and the loads are in order in every reachable state.
LEMMA JobsInvariant == Spec => []JobsInv
<1>1. Init => JobsInv
  <2> SUFFICES ASSUME Init PROVE JobsInv
    OBVIOUS
  <2>1. /\ jobs = <<>> /\ nextJob = 1 /\ DOMAIN jobs = {}
        /\ queue = [u \in Units |-> {}] /\ run = [u \in Units |-> NoJob]
        /\ req = [r \in Requests |-> Fresh0]
    BY DEF Init
  <2>2. JobTable(jobs, nextJob)
    BY <2>1 DEF JobTable
  <2>3. InLine(jobs, queue, run)
    BY <2>1 DEF InLine
  <2>4. Loading(Fresh0, jobs, nextJob)
    BY <2>1, CleanLocals DEF Loading, NoJob
  <2>5. QED BY <2>1, <2>2, <2>3, <2>4 DEF JobsInv
<1>2. PlacerInv /\ JobsInv /\ [Next]_vars => JobsInv'
  <2> SUFFICES ASSUME PlacerInv, JobsInv, [Next]_vars PROVE JobsInv'
    OBVIOUS
  <2>1. CASE UNCHANGED vars
    BY <2>1 DEF vars, JobsInv
  <2>2. CASE UnitStep
    BY <2>2, UnitStepKeepsJobs
  <2>3. CASE SweepStep
    <3>1. UNCHANGED <<jobs, nextJob, unitVars>>
      BY <2>3 DEF SweepStep, SweepEnds, SweepReads, CacheAges
    <3>2. ASSUME NEW r \in Requests
          PROVE  req'[r].job = req[r].job /\ req'[r].first = req[r].first
      <4>1. Formed(req[r])
        BY DEF PlacerInv, Placed
      <4>2. \/ req'[r] = req[r]
            \/ \E v : req'[r] = [req[r] EXCEPT !.view = v, !.gen = 0, !.pc = "rank"]
        <5>1. PICK g : SweepEnds(g) \/ UNCHANGED req
          BY <2>3 DEF SweepStep, SweepReads, CacheAges
        <5>2. CASE SweepEnds(g)
          <6>1. req'[r] = IF req[r].pc = "sweep" /\ req[r].gen = g
                          THEN [req[r] EXCEPT !.view = sweeps[g], !.gen = 0, !.pc = "rank"]
                          ELSE req[r]
            BY <5>2 DEF SweepEnds
          <6>2. CASE req[r].pc = "sweep" /\ req[r].gen = g
            <7>1. req'[r] = [req[r] EXCEPT !.view = sweeps[g], !.gen = 0, !.pc = "rank"]
              BY <6>1, <6>2
            <7>2. QED BY <7>1
          <6>3. QED BY <6>1, <6>2
        <5>3. QED BY <5>1, <5>2
      <4>3. QED BY <4>1, <4>2 DEF Formed, Fields
    <3>3. QED BY <3>1, <3>2 DEF JobsInv, unitVars, Loading
  <2>4. CASE \E r \in Requests : RequestStep(r)
    BY <2>4, RequestStepKeepsJobs
  <2>5. QED BY <2>1, <2>2, <2>3, <2>4 DEF Next
<1>3. QED BY <1>1, <1>2, PlacerInvariant, PTL DEF Spec

\* A request that was placed again waits for another load than its first, which has ended,
\* forgotten or not: it never holds up two units.
THEOREM OneLoadPerRequest == Spec => []OneLoadAtATime
<1>1. JobsInv => OneLoadAtATime
  BY DEF JobsInv, Loading, OneLoadAtATime, Terminal, Ended
<1>2. QED BY <1>1, JobsInvariant, PTL

\* No job that somebody may still run is forgotten: a request that waits and no longer finds
\* its job has lost one that had ended, never one that is in line for a unit.
THEOREM PendingJobsAreKept ==
    Spec => [](\A u \in Units : \A j \in queue[u] \union ({run[u]} \ {NoJob}) :
                  j \in DOMAIN jobs /\ ~Ended(j) /\ jobs[j].unit = u)
<1>1. JobsInv => \A u \in Units : \A j \in queue[u] \union ({run[u]} \ {NoJob}) :
                    j \in DOMAIN jobs /\ ~Ended(j) /\ jobs[j].unit = u
  BY DEF JobsInv, InLine, Pending, Terminal, Ended
<1>2. QED BY <1>1, JobsInvariant, PTL
-----------------------------------------------------------------------------
(* Routes.  What a request has been told of its unit is what runs there,   *)
(* unless the unit has moved since; and the route is taken from it.        *)

Serving(sv) == sv = [u \in Units |-> sv[u]] /\ \A u \in Units : DOMAIN sv[u] \subseteq Nat

AsProbed(q, sv) ==
    q.pc \in {"admit", "reroute"} /\ q.unit \in Units =>
        /\ DOMAIN q.rows \subseteq Nat
        /\ q.moved \/ \A p \in DOMAIN q.rows : p \in DOMAIN sv[q.unit] /\ sv[q.unit][p] = q.rows[p]

RoutesInv == Serving(serves) /\ \A r \in Requests : AsProbed(req[r], serves)

\* A request goes to the port of its model, where the rows have one.
LEMMA RouteIsThere ==
    ASSUME NEW u \in Sparks, NEW rows, DOMAIN rows \subseteq Nat, NEW m \in Range(rows)
    PROVE  Route(u, rows, m) \in DOMAIN rows /\ rows[Route(u, rows, m)] = m
<1> DEFINE P == {p \in DOMAIN rows : rows[p] = m}
<1>1. P \subseteq Nat /\ P # {} /\ Route(u, rows, m) = Min(P)
  BY DEF Range, Route
<1> HIDE DEF P
<1>2. Route(u, rows, m) \in P
  BY <1>1, MinIsLeast
<1>3. QED BY <1>2 DEF P

\* The servers of one unit change, and who has probed it is told.
LEMMA MovingKeepsRoutes ==
    ASSUME PlacerInv, RoutesInv, NEW u \in Units, Moving(u), NEW w, DOMAIN w \subseteq Nat,
           serves' = [serves EXCEPT ![u] = w] \/ serves' = serves
    PROVE  RoutesInv'
<1>1. Serving(serves')
  BY DEF RoutesInv, Serving
<1>2. ASSUME NEW r \in Requests PROVE AsProbed(req'[r], serves')
  <2> DEFINE q == req[r]
             b == q.moved \/ (q.unit = u /\ q.pc \in {"admit", "reroute"})
             n == [q EXCEPT !.moved = b]
  <2>1. req'[r] = n
    BY DEF Moving
  <2>2. Formed(q) /\ AsProbed(q, serves)
    BY DEF PlacerInv, Placed, RoutesInv
  <2> HIDE DEF q, b
  <2>3. n.pc = q.pc /\ n.unit = q.unit /\ n.rows = q.rows /\ n.moved = b
    BY <2>2 DEF Formed, Fields
  <2> HIDE DEF n
  <2>4. AsProbed(n, serves')
    <3>1. SUFFICES ASSUME q.pc \in {"admit", "reroute"}, q.unit \in Units
                   PROVE  /\ DOMAIN q.rows \subseteq Nat
                          /\ ~b => \A p \in DOMAIN q.rows :
                                p \in DOMAIN serves'[q.unit] /\ serves'[q.unit][p] = q.rows[p]
      BY <2>3 DEF AsProbed
    <3>2. b = (q.moved \/ (q.unit = u /\ q.pc \in {"admit", "reroute"}))
      BY DEF b, q
    <3>3. q.unit # u => serves'[q.unit] = serves[q.unit]
      BY <3>1 DEF RoutesInv, Serving
    <3>4. QED BY <2>2, <3>1, <3>2, <3>3 DEF AsProbed
  <2>5. QED BY <2>1, <2>4
<1>3. QED BY <1>1, <1>2 DEF RoutesInv

LEMMA UnitStepKeepsRoutes ==
    ASSUME PlacerInv, RoutesInv, UnitStep
    PROVE  RoutesInv'
<1>1. PICK u \in Units :
         \/ JobStarts(u) \/ JobGivesUp(u) \/ JobEvicts(u) \/ JobSucceeds(u) \/ JobFails(u)
         \/ (\E m \in Models : OtherLoad(u, m)) \/ RestUnload(u) \/ RestUnloaded
  BY DEF UnitStep
<1>2. CASE UNCHANGED <<serves, req>>
  BY <1>2 DEF RoutesInv
<1>3. \A M : DOMAIN Without(u, M) \subseteq Nat
  BY DEF Without, RoutesInv, Serving
<1>4. CASE JobEvicts(u)
  <2>1. PICK M : serves' = [serves EXCEPT ![u] = Without(u, M)] /\ Moving(u)
    BY <1>4 DEF JobEvicts
  <2>2. QED BY <1>3, <2>1, MovingKeepsRoutes
<1>5. CASE RestUnload(u)
  <2>1. PICK M : serves' = [serves EXCEPT ![u] = Without(u, M)] /\ Moving(u)
    BY <1>5 DEF RestUnload
  <2>2. QED BY <1>3, <2>1, MovingKeepsRoutes
<1>6. CASE JobSucceeds(u)
  <2> DEFINE m == jobs[run[u]].model
             w == [p \in DOMAIN serves[u] \union {Min(FreePorts(u))} |->
                      IF p \in DOMAIN serves[u] THEN serves[u][p] ELSE m]
  <2>1. Moving(u)
    BY <1>6 DEF JobSucceeds
  <2>2. \/ serves' = serves
        \/ FreePorts(u) # {} /\ serves' = [serves EXCEPT ![u] = w]
    BY <1>6 DEF JobSucceeds
  <2>3. CASE serves' = serves
    BY <1>3, <2>1, <2>3, MovingKeepsRoutes
  <2>4. CASE FreePorts(u) # {} /\ serves' = [serves EXCEPT ![u] = w]
    <3>1. FreePorts(u) \subseteq Nat
      BY GatewayAssumption DEF FreePorts
    <3>2. Min(FreePorts(u)) \in Nat
      BY <2>4, <3>1, MinIsLeast
    <3>3. DOMAIN w \subseteq Nat
      BY <3>2 DEF RoutesInv, Serving
    <3> HIDE DEF w
    <3>4. QED BY <2>1, <2>4, <3>3, MovingKeepsRoutes
  <2>5. QED BY <2>2, <2>3, <2>4
<1>7. \/ UNCHANGED <<serves, req>> \/ JobEvicts(u) \/ JobSucceeds(u) \/ RestUnload(u)
  BY <1>1 DEF JobStarts, JobGivesUp, JobFails, OtherLoad, NewJob, RestUnloaded, unitVars
<1>8. QED BY <1>2, <1>4, <1>5, <1>6, <1>7

\* A request becomes q, and no other changes.
LEMMA BecomesThat ==
    ASSUME PlacerInv, NEW r \in Requests, NEW q, Become(r, q)
    PROVE  req'[r] = q /\ \A s \in Requests : s # r => req'[s] = req[s]
BY DEF PlacerInv, Become

LEMMA PlacesThere ==
    ASSUME PlacerInv, NEW r \in Requests, NEW q, Formed(q), Place(r, q)
    PROVE  /\ req'[r].pc \in {"sweep", "rank"}
           /\ \A s \in Requests : s # r => req'[s] = req[s]
<1> DEFINE p == IF cache # None
                THEN [q EXCEPT !.view = cache, !.pc = "rank", !.since = moves]
                ELSE [q EXCEPT !.gen = gen, !.pc = "sweep", !.since = moves]
<1>1. Become(r, p)
  BY DEF Place
<1>2. p.pc \in {"sweep", "rank"}
  BY DEF Formed, Fields
<1> HIDE DEF p
<1>3. QED BY <1>1, <1>2, BecomesThat

\* Where a request goes in a step of its own: it is told of its unit, is sent to the port
\* that this says, or to a lane; or it goes elsewhere.
Told(r)   == Probe(r) /\ req'[r].pc \in {"admit", "reroute"}
Routed(r) == /\ req[r].pc \in {"admit", "reroute"} /\ req'[r].pc = "forward"
             /\ req'[r].route = Route(req[r].unit, req[r].rows, req[r].ask.model)
ToLane(r) == req'[r].pc = "forward" /\ ~Reroutes(req[r])
Elsewhere(r) == req'[r].pc \notin {"admit", "reroute", "forward"}

LEMMA FailedGoesElsewhere ==
    ASSUME PlacerInv, NEW r \in Requests, NEW q, NEW how, LoadFailed(r, q, how)
    PROVE  Elsewhere(r) /\ \A s \in Requests : s # r => req'[s] = req[s]
<1>1. CASE MayRetry(q, how)
  <2> DEFINE p == [Fresh0 EXCEPT !.ask = q.ask, !.excluded = {q.unit}, !.retried = TRUE,
                                 !.first = q.job]
  <2>1. Place(r, p)
    BY <1>1 DEF LoadFailed
  <2>2. Formed(p)
    BY CleanLocals DEF Formed, Fields
  <2> HIDE DEF p
  <2>3. QED BY <2>1, <2>2, PlacesThere DEF Elsewhere
<1>2. CASE ~MayRetry(q, how)
  BY <1>2, CleanLocals, BecomesThat DEF LoadFailed, Elsewhere
<1>3. QED BY <1>1, <1>2

LEMMA WhereRequestsGo ==
    ASSUME PlacerInv, NEW r \in Requests, RequestStep(r)
    PROVE  /\ Told(r) \/ Routed(r) \/ ToLane(r) \/ Elsewhere(r)
           /\ serves' = serves /\ \A s \in Requests : s # r => req'[s] = req[s]
<1> DEFINE q == req[r]
<1>0. Formed(q)
  BY DEF PlacerInv, Placed
<1>s. serves' = serves
  BY DEF RequestStep, Arrive, RankAndGate, RestLoad, Probe, Admit, Poll, WaitTimesOut, Reroute,
     Forward, NewJob, unitVars
<1> HIDE DEF q
<1>o. Over.pc = "over"
  BY CleanLocals
<1>1. CASE Arrive(r)
  <2>1. PICK a : \/ Place(r, [q EXCEPT !.ask = a])
                 \/ Become(r, [[q EXCEPT !.ask = a] EXCEPT !.unit = a.pin, !.pc = "probe"])
                 \/ Become(r, Over)
    BY <1>1 DEF Arrive, q
  <2> DEFINE p == [q EXCEPT !.ask = a]
             n == [p EXCEPT !.unit = a.pin, !.pc = "probe"]
  <2>2. Formed(p)
    BY <1>0 DEF Formed, Fields
  <2>3. Place(r, p) \/ Become(r, n) \/ Become(r, Over)
    BY <2>1
  <2> HIDE DEF p
  <2>4. n.pc = "probe"
    BY <2>2 DEF Formed, Fields
  <2> HIDE DEF n
  <2>5. QED BY <1>s, <1>o, <2>2, <2>3, <2>4, PlacesThere, BecomesThat DEF Elsewhere
<1>2. CASE RankAndGate(r)
  <2>1. PICK hot \in SUBSET Seen(q.view), held \in Refusals :
           LET d == Decision(q, hot, held)
               c == [Fresh0 EXCEPT !.pc = "probe", !.ask = q.ask, !.unit = d.unit,
                                   !.evict = d.victims,
                                   !.retried = q.retried, !.first = q.first]
           IN  \/ (Become(r, Over) \/ Become(r, c)) /\ UNCHANGED placerVars
               \/ Place(r, [q EXCEPT !.view = None, !.excluded = {d.unit}, !.tries = 1])
    BY <1>2 DEF RankAndGate, q
  <2> DEFINE d == Decision(q, hot, held)
  <2> DEFINE c == [Fresh0 EXCEPT !.pc = "probe", !.ask = q.ask, !.unit = d.unit,
                                 !.evict = d.victims,
                                 !.retried = q.retried, !.first = q.first]
             n == [q EXCEPT !.view = None, !.excluded = {d.unit}, !.tries = 1]
  <2>2. Place(r, n) \/ Become(r, Over) \/ Become(r, c)
    BY <2>1, Zenon
  <2> HIDE DEF d
  <2>3. c.pc = "probe"
    BY CleanLocals DEF Formed, Fields
  <2>4. Formed(n)
    BY <1>0 DEF Formed, Fields
  <2> HIDE DEF c, n
  <2>5. QED BY <1>s, <1>o, <2>2, <2>3, <2>4, PlacesThere, BecomesThat DEF Elsewhere
<1>3. CASE RestLoad(r) \/ Forward(r)
  BY <1>s, <1>o, <1>3, BecomesThat DEF RestLoad, Forward, Elsewhere
<1>4. CASE Probe(r)
  <2>1. q.pc \in {"probe", "reprobe"}
    BY <1>4 DEF Probe, q
  <2>2. PICK w : Become(r, [q EXCEPT !.rows = w, !.moved = FALSE,
                                     !.pc = IF @ = "probe" THEN "admit" ELSE "reroute"])
    BY <1>4 DEF Probe, q
  <2> DEFINE n == [q EXCEPT !.rows = w, !.moved = FALSE,
                            !.pc = IF @ = "probe" THEN "admit" ELSE "reroute"]
  <2>3. n.pc \in {"admit", "reroute"}
    BY <1>0 DEF Formed, Fields
  <2>4. Become(r, n)
    BY <2>2
  <2> HIDE DEF n
  <2>5. QED BY <1>s, <1>4, <2>3, <2>4, BecomesThat DEF Told
<1>5. CASE Admit(r)
  <2> DEFINE s == [q EXCEPT !.route = Route(q.unit, q.rows, q.ask.model),
                            !.rows = <<>>, !.evict = {}, !.moved = FALSE]
  <2>1. Formed(s) /\ s.route = Route(q.unit, q.rows, q.ask.model)
    BY <1>0 DEF Formed, Fields
  <2>2. /\ q.pc = "admit"
        /\ \/ Become(r, Over)
           \/ Become(r, [s EXCEPT !.pc = "forward"])
           \/ \E j : Become(r, [s EXCEPT !.pc = "wait", !.job = j])
    BY <1>5 DEF Admit, q
  <2> HIDE DEF s
  <2>3. CASE Become(r, [s EXCEPT !.pc = "forward"])
    <3> DEFINE n == [s EXCEPT !.pc = "forward"]
    <3>1. n.pc = "forward" /\ n.route = s.route /\ Become(r, n)
      BY <2>1, <2>3 DEF Formed, Fields
    <3> HIDE DEF n
    <3>2. req'[r] = n /\ \A x \in Requests : x # r => req'[x] = req[x]
      BY <3>1, BecomesThat
    <3>3. Routed(r)
      BY <2>1, <2>2, <3>1, <3>2 DEF Routed, q
    <3>4. QED BY <1>s, <3>2, <3>3
  <2>4. ASSUME NEW j, Become(r, [s EXCEPT !.pc = "wait", !.job = j])
        PROVE  Elsewhere(r) /\ \A x \in Requests : x # r => req'[x] = req[x]
    <3> DEFINE n == [s EXCEPT !.pc = "wait", !.job = j]
    <3>1. n.pc = "wait" /\ Become(r, n)
      BY <2>1, <2>4 DEF Formed, Fields
    <3> HIDE DEF n
    <3>2. QED BY <3>1, BecomesThat DEF Elsewhere
  <2>5. CASE Become(r, Over)
    BY <1>s, <1>o, <2>5, BecomesThat DEF Elsewhere
  <2>6. QED BY <1>s, <2>2, <2>3, <2>4, <2>5
<1>6. CASE Poll(r)
  <2>1. \/ \E how : LoadFailed(r, q, how)
        \/ Become(r, [q EXCEPT !.pc = IF Reroutes(q) THEN "reprobe" ELSE "forward"])
    BY <1>6 DEF Poll, q
  <2>2. CASE Become(r, [q EXCEPT !.pc = IF Reroutes(q) THEN "reprobe" ELSE "forward"])
    <3> DEFINE n == [q EXCEPT !.pc = IF Reroutes(q) THEN "reprobe" ELSE "forward"]
    <3>1. (n.pc = "reprobe" \/ (n.pc = "forward" /\ ~Reroutes(q))) /\ Become(r, n)
      BY <1>0, <2>2 DEF Formed, Fields
    <3> HIDE DEF n
    <3>2. req'[r] = n /\ \A x \in Requests : x # r => req'[x] = req[x]
      BY <3>1, BecomesThat
    <3>3. ToLane(r) \/ Elsewhere(r)
      BY <3>1, <3>2 DEF ToLane, Elsewhere, q
    <3>4. QED BY <1>s, <3>2, <3>3
  <2>3. QED BY <1>s, <2>1, <2>2, FailedGoesElsewhere
<1>7. CASE WaitTimesOut(r)
  BY <1>s, <1>7, FailedGoesElsewhere DEF WaitTimesOut
<1>8. CASE Reroute(r)
  <2> DEFINE n == [q EXCEPT !.route = Route(q.unit, q.rows, q.ask.model),
                            !.rows = <<>>, !.moved = FALSE, !.pc = "forward"]
  <2>1. Become(r, n) /\ q.pc = "reroute"
    BY <1>8 DEF Reroute, q
  <2>2. n.pc = "forward" /\ n.route = Route(q.unit, q.rows, q.ask.model)
    BY <1>0 DEF Formed, Fields
  <2> HIDE DEF n
  <2>3. req'[r] = n /\ \A x \in Requests : x # r => req'[x] = req[x]
    BY <2>1, BecomesThat
  <2>4. Routed(r)
    BY <2>1, <2>2, <2>3 DEF Routed, q
  <2>5. QED BY <1>s, <2>3, <2>4
<1>9. QED BY <1>1, <1>2, <1>3, <1>4, <1>5, <1>6, <1>7, <1>8 DEF RequestStep

\* What a probe tells is what is there, or less.
LEMMA ToldIsThere ==
    ASSUME PlacerInv, RoutesInv, NEW r \in Requests, Probe(r)
    PROVE  AsProbed(req'[r], serves)
<1> DEFINE q == req[r]
<1>1. PICK w \in Answers(q.unit) :
         Become(r, [q EXCEPT !.rows = w, !.moved = FALSE,
                             !.pc = IF @ = "probe" THEN "admit" ELSE "reroute"])
  BY DEF Probe
<1>2. Formed(q)
  BY DEF PlacerInv, Placed
<1> HIDE DEF q
<1> DEFINE n == [q EXCEPT !.rows = w, !.moved = FALSE,
                          !.pc = IF @ = "probe" THEN "admit" ELSE "reroute"]
<1>3. n.rows = w /\ n.unit = q.unit
  BY <1>2 DEF Formed, Fields
<1>4. Become(r, n)
  BY <1>1
<1>5. PICK P \in SUBSET DOMAIN serves[q.unit] : w = [p \in P |-> serves[q.unit][p]]
  BY DEF Answers
<1> HIDE DEF n
<1>6. AsProbed(n, serves)
  BY <1>3, <1>5 DEF AsProbed, RoutesInv, Serving
<1>7. QED BY <1>4, <1>6, BecomesThat

\* The rows of a request are what runs, in every reachable state.
LEMMA RoutesInvariant == Spec => []RoutesInv
<1>1. Init => RoutesInv
  <2> SUFFICES ASSUME Init PROVE RoutesInv
    OBVIOUS
  <2>1. serves \in Start /\ req = [r \in Requests |-> Fresh0]
    BY DEF Init
  <2>2. Serving(serves)
    BY <2>1, GatewayAssumption DEF Serving
  <2>3. AsProbed(Fresh0, serves)
    BY CleanLocals DEF AsProbed
  <2>4. QED BY <2>1, <2>2, <2>3 DEF RoutesInv
<1>2. PlacerInv /\ RoutesInv /\ [Next]_vars => RoutesInv'
  <2> SUFFICES ASSUME PlacerInv, RoutesInv, [Next]_vars PROVE RoutesInv'
    OBVIOUS
  <2>1. CASE UNCHANGED vars
    BY <2>1 DEF vars, RoutesInv
  <2>2. CASE UnitStep
    BY <2>2, UnitStepKeepsRoutes
  <2>3. CASE SweepStep
    <3>1. serves' = serves
      BY <2>3 DEF SweepStep, SweepEnds, SweepReads, CacheAges, unitVars
    <3>2. ASSUME NEW r \in Requests PROVE AsProbed(req'[r], serves)
      <4>1. Formed(req[r]) /\ AsProbed(req[r], serves)
        BY DEF PlacerInv, Placed, RoutesInv
      <4>2. PICK g : SweepEnds(g) \/ UNCHANGED req
        BY <2>3 DEF SweepStep, SweepReads, CacheAges
      <4>3. \/ req'[r] = req[r]
            \/ req'[r] = [req[r] EXCEPT !.view = sweeps[g], !.gen = 0, !.pc = "rank"]
        <5>1. CASE SweepEnds(g)
          BY <5>1 DEF SweepEnds
        <5>2. QED BY <4>2, <5>1
      <4>4. req'[r] = req[r] \/ req'[r].pc = "rank"
        BY <4>1, <4>3 DEF Formed, Fields
      <4>5. QED BY <4>1, <4>4 DEF AsProbed
    <3>3. QED BY <3>1, <3>2 DEF RoutesInv
  <2>4. ASSUME NEW r \in Requests, RequestStep(r) PROVE RoutesInv'
    <3>1. /\ Told(r) \/ Routed(r) \/ ToLane(r) \/ Elsewhere(r)
          /\ serves' = serves /\ \A s \in Requests : s # r => req'[s] = req[s]
      BY <2>4, WhereRequestsGo
    <3>2. AsProbed(req'[r], serves)
      <4>1. CASE Told(r)
        BY <4>1, ToldIsThere DEF Told
      <4>2. CASE Routed(r) \/ ToLane(r) \/ Elsewhere(r)
        BY <4>2 DEF AsProbed, Routed, ToLane, Elsewhere
      <4>3. QED BY <3>1, <4>1, <4>2
    <3>3. \A s \in Requests : AsProbed(req'[s], serves)
      BY <3>1, <3>2 DEF RoutesInv
    <3>4. QED BY <3>1, <3>3 DEF RoutesInv
  <2>5. QED BY <2>1, <2>2, <2>3, <2>4 DEF Next
<1>3. QED BY <1>1, <1>2, PlacerInvariant, PTL DEF Spec

\* A request that is forwarded has taken that step itself.
LEMMA ForwardsItself ==
    ASSUME PlacerInv, [Next]_vars, NEW r \in Requests,
           req'[r].pc = "forward", req[r].pc # "forward"
    PROVE  RequestStep(r)
<1>1. ASSUME NEW s \in Requests, RequestStep(s) PROVE s = r
  BY <1>1, WhereRequestsGo
<1>2. Formed(req[r])
  BY DEF PlacerInv, Placed
<1>3. ~UnitStep
  <2>1. ASSUME NEW u, Moving(u) PROVE req'[r].pc = req[r].pc
    BY <1>2, <2>1 DEF Moving, Formed, Fields
  <2>2. UnitStep => req' = req \/ \E u : Moving(u)
    BY DEF UnitStep, JobStarts, JobGivesUp, JobEvicts, JobSucceeds, JobFails, OtherLoad,
       RestUnload, RestUnloaded
  <2>3. QED BY <2>1, <2>2
<1>4. ~SweepStep
  <2>1. ASSUME NEW g, SweepEnds(g)
        PROVE  \/ req'[r] = req[r]
               \/ req'[r] = [req[r] EXCEPT !.view = sweeps[g], !.gen = 0, !.pc = "rank"]
    BY <2>1 DEF SweepEnds
  <2>2. SweepStep =>
           \/ req'[r] = req[r]
           \/ \E v : req'[r] = [req[r] EXCEPT !.view = v, !.gen = 0, !.pc = "rank"]
    BY <2>1 DEF SweepStep, SweepReads, CacheAges
  <2>3. QED BY <1>2, <2>2 DEF Formed, Fields
<1>5. QED BY <1>1, <1>3, <1>4 DEF Next, vars

\* What is forwarded on a node goes where the node said that the model is.
LEMMA ForwardsAsTold ==
    ASSUME PlacerInv, RoutesInv, [Next]_vars, NEW r \in Requests,
           req'[r].pc = "forward", req[r].pc # "forward", req[r].unit \in Sparks,
           req'[r].route \in DOMAIN serves[req[r].unit],
           serves[req[r].unit][req'[r].route] # req[r].ask.model
    PROVE  /\ req[r].pc \in {"admit", "reroute"}
           /\ req[r].moved \/ req[r].ask.model \notin Range(req[r].rows)
<1> DEFINE q == req[r]
           p == req'[r].route
<1>1. Told(r) \/ Routed(r) \/ ToLane(r) \/ Elsewhere(r)
  BY ForwardsItself, WhereRequestsGo
<1>2. Routed(r)
  BY <1>1 DEF Told, ToLane, Elsewhere, Reroutes
<1>3. AsProbed(q, serves) /\ q.unit \in Units
  BY GatewayAssumption DEF RoutesInv
<1>4. ASSUME ~q.moved, q.ask.model \in Range(q.rows) PROVE FALSE
  <2>1. DOMAIN q.rows \subseteq Nat
    BY <1>2, <1>3 DEF AsProbed, Routed
  <2>2. p \in DOMAIN q.rows /\ q.rows[p] = q.ask.model
    BY <1>2, <1>4, <2>1, RouteIsThere DEF Routed
  <2>3. QED BY <1>2, <1>3, <1>4, <2>2 DEF AsProbed, Routed
<1>5. QED BY <1>2, <1>4 DEF Routed

\* A request is sent to the port of another model on a node only if the node did not name
\* its own, or has moved since it was asked (_route, _reroute of openai_gateway.py).
THEOREM RoutedWhereToldTo == Spec => RoutedToItsModel
<1> DEFINE A ==
        \A r \in Requests :
          LET q == req[r]  p == req'[r].route
          IN  req'[r].pc = "forward" /\ q.pc # "forward" /\ q.unit \in Sparks
              /\ p \in DOMAIN serves[q.unit] /\ serves[q.unit][p] # q.ask.model
              => /\ q.pc \in {"admit", "reroute"}
                 /\ q.moved \/ q.ask.model \notin Range(q.rows)
<1>1. PlacerInv /\ RoutesInv /\ [Next]_vars => A
  BY ForwardsAsTold
<1>2. QED BY <1>1, PlacerInvariant, RoutesInvariant, PTL DEF Spec, RoutedToItsModel

-----------------------------------------------------------------------------
(* Types.  A request is sent to a unit, and a job evicts models: rank() is *)
(* asked about units that are what it takes them for.                      *)

Runs(u, w) == DOMAIN w \subseteq Ports[u] /\ w \in [DOMAIN w -> Models]

\* the statuses of all units, and those that a sweep has so far
Viewed(v) == \A u \in Units : Runs(u, v.seen[u].rows)
Read(seen) == /\ seen = [u \in Units |-> seen[u]]
              /\ \A u \in Units : seen[u] = None \/ Runs(u, seen[u].rows)

Asking(q) ==
    /\ q.pc \in Where /\ q.evict \subseteq Models
    /\ q.pc \notin {"new", "over"} => q.ask \in Ask
    /\ q.pc \in {"probe", "admit", "wait", "reprobe", "reroute"} => q.unit \in Units
    /\ q.pc = "rank" => Viewed(q.view)
    /\ q.pc = "wait" => q.job # NoJob

UnitsTyped == serves = [u \in Units |-> serves[u]] /\ \A u \in Units : Runs(u, serves[u])
JobsTyped  == \A j \in DOMAIN jobs : jobs[j] \in Job
SweepsTyped ==
    /\ cache # None => Viewed(cache)
    /\ \A g \in DOMAIN sweeps : Read(sweeps[g].seen)

TypesInv == UnitsTyped /\ JobsTyped /\ SweepsTyped /\ \A r \in Requests : Asking(req[r])

\* Some of what runs on a unit runs on it.
LEMMA SomeRun ==
    ASSUME NEW u \in Units, NEW w, Runs(u, w), NEW P \in SUBSET DOMAIN w
    PROVE  Runs(u, [p \in P |-> w[p]])
BY DEF Runs

\* create() and start(): the new job is one.
LEMMA NewJobIsTyped ==
    ASSUME JobsTyped, NEW u \in Units, NEW m \in Models, NEW E \in SUBSET Models, NewJob(u, m, E)
    PROVE  JobsTyped'
<1> DEFINE js == [j \in DOMAIN jobs \union {nextJob} |->
                    IF j = nextJob
                    THEN [unit |-> u, model |-> m, evict |-> E, state |-> "running"]
                    ELSE jobs[j]]
<1>1. jobs' = Pruned(js)
  BY DEF NewJob
<1>2. \A j \in DOMAIN js : js[j] \in Job
  BY DEF JobsTyped, Job
<1> HIDE DEF js
<1>3. QED BY <1>1, <1>2, PrunedOnlyTerminal DEF JobsTyped

\* A job goes on, or ends.
LEMMA SettingIsTyped ==
    ASSUME JobsTyped, NEW j, NEW how \in {"running", "launching", "succeeded", "failed", "conflict"},
           Set(j, how)
    PROVE  JobsTyped'
<1>1. jobs' = [jobs EXCEPT ![j].state = how]
  BY DEF Set
<1>2. ASSUME NEW k \in DOMAIN jobs' PROVE jobs'[k] \in Job
  <2>1. k \in DOMAIN jobs /\ jobs[k] \in Job
    BY <1>1 DEF JobsTyped
  <2>2. jobs'[k] = jobs[k] \/ jobs'[k] = [jobs[k] EXCEPT !.state = how]
    BY <1>1, <2>1
  <2>3. QED BY <2>1, <2>2 DEF Job
<1>3. QED BY <1>2 DEF JobsTyped

\* The requests stay as they are, but for what they know of their unit.
LEMMA MovingKeepsAsking ==
    ASSUME PlacerInv, TypesInv, NEW u, Moving(u) \/ UNCHANGED req
    PROVE  \A r \in Requests : Asking(req'[r])
<1>1. ASSUME NEW r \in Requests PROVE Asking(req'[r])
  <2>1. Formed(req[r]) /\ Asking(req[r])
    BY DEF PlacerInv, Placed, TypesInv
  <2>2. req'[r] = req[r] \/ \E b : req'[r] = [req[r] EXCEPT !.moved = b]
    BY DEF Moving
  <2>3. /\ req'[r].pc = req[r].pc /\ req'[r].evict = req[r].evict /\ req'[r].ask = req[r].ask
        /\ req'[r].unit = req[r].unit /\ req'[r].view = req[r].view /\ req'[r].job = req[r].job
    BY <2>1, <2>2 DEF Formed, Fields
  <2>4. QED BY <2>1, <2>3 DEF Asking
<1>2. QED BY <1>1

\* Jobs and units.
LEMMA UnitStepKeepsTypes ==
    ASSUME PlacerInv, JobsInv, TypesInv, UnitStep
    PROVE  TypesInv'
<1>1. UnitsTyped /\ JobsTyped /\ SweepsTyped
  BY DEF TypesInv
<1>2. ASSUME NEW u \in Units, Moving(u) \/ UNCHANGED req, UNCHANGED <<cache, sweeps>> \/ Invalidate,
             UnitsTyped', JobsTyped'
      PROVE  TypesInv'
  <2>1. \A r \in Requests : Asking(req'[r])
    BY <1>2, MovingKeepsAsking
  <2>2. SweepsTyped'
    BY <1>1, <1>2 DEF SweepsTyped, Invalidate
  <2>3. QED BY <1>2, <2>1, <2>2 DEF TypesInv
<1>3. UNCHANGED serves => UnitsTyped'
  BY <1>1 DEF UnitsTyped
<1>4. UNCHANGED jobs => JobsTyped'
  BY <1>1 DEF JobsTyped
<1>5. ASSUME NEW u \in Units, NEW w, Runs(u, w), serves' = [serves EXCEPT ![u] = w]
      PROVE  UnitsTyped'
  BY <1>1, <1>5 DEF UnitsTyped
<1>6. ASSUME NEW u \in Units, NEW M PROVE Runs(u, Without(u, M))
  BY <1>1, SomeRun DEF Without, UnitsTyped
<1>7. ASSUME NEW u \in Units, JobStarts(u) PROVE TypesInv'
  BY <1>2, <1>3, <1>4, <1>7 DEF JobStarts, placerVars
<1>8. ASSUME NEW u \in Units, JobGivesUp(u) PROVE TypesInv'
  BY <1>1, <1>2, <1>3, <1>8, SettingIsTyped DEF JobGivesUp, placerVars
<1>9. ASSUME NEW u \in Units, JobEvicts(u) PROVE TypesInv'
  <2>1. PICK M : serves' = [serves EXCEPT ![u] = Without(u, M)]
    BY <1>9 DEF JobEvicts
  <2>2. UnitsTyped' /\ JobsTyped'
    BY <1>1, <1>5, <1>6, <1>9, <2>1, SettingIsTyped DEF JobEvicts
  <2>3. QED BY <1>2, <1>9, <2>2 DEF JobEvicts, placerVars
<1>10. ASSUME NEW u \in Units, JobSucceeds(u) PROVE TypesInv'
  <2> DEFINE m == jobs[run[u]].model
             w == [p \in DOMAIN serves[u] \union {Min(FreePorts(u))} |->
                      IF p \in DOMAIN serves[u] THEN serves[u][p] ELSE m]
  <2>1. \/ serves' = serves
        \/ FreePorts(u) # {} /\ serves' = [serves EXCEPT ![u] = w]
    BY <1>10 DEF JobSucceeds
  <2>2. ASSUME FreePorts(u) # {} PROVE Runs(u, w)
    <3>1. FreePorts(u) \subseteq Nat /\ FreePorts(u) \subseteq Ports[u]
      BY GatewayAssumption DEF FreePorts
    <3>2. Min(FreePorts(u)) \in Ports[u]
      BY <2>2, <3>1, MinIsLeast
    <3>3. m \in Models
      <4>1. Pending(jobs, u, run[u])
        BY <1>10 DEF JobsInv, InLine, JobSucceeds
      <4>2. QED BY <1>1, <4>1 DEF Pending, JobsTyped, Job
    <3>4. Runs(u, serves[u])
      BY <1>1 DEF UnitsTyped
    <3> HIDE DEF m
    <3>5. QED BY <3>2, <3>3, <3>4 DEF Runs
  <2> HIDE DEF w
  <2>3. UnitsTyped'
    BY <1>3, <1>5, <2>1, <2>2
  <2>4. JobsTyped'
    BY <1>1, <1>10, SettingIsTyped DEF JobSucceeds
  <2>5. QED BY <1>2, <1>10, <2>3, <2>4 DEF JobSucceeds, placerVars
<1>11. ASSUME NEW u \in Units, JobFails(u) PROVE TypesInv'
  BY <1>1, <1>2, <1>3, <1>11, SettingIsTyped DEF JobFails, placerVars
<1>12. ASSUME NEW u \in Units, NEW m \in Models, OtherLoad(u, m) PROVE TypesInv'
  <2>1. JobsTyped'
    BY <1>1, <1>12, NewJobIsTyped DEF OtherLoad
  <2>2. UNCHANGED <<serves, req, cache, sweeps>>
    BY <1>12 DEF OtherLoad, NewJob, placerVars
  <2>3. QED BY <1>2, <1>3, <2>1, <2>2
<1>13. ASSUME NEW u \in Units, RestUnload(u) PROVE TypesInv'
  <2>1. PICK M : serves' = [serves EXCEPT ![u] = Without(u, M)]
    BY <1>13 DEF RestUnload
  <2>2. UnitsTyped' /\ JobsTyped'
    BY <1>4, <1>5, <1>6, <1>13, <2>1 DEF RestUnload
  <2>3. QED BY <1>2, <1>13, <2>2 DEF RestUnload, placerVars
<1>14. ASSUME NEW u \in Units, RestUnloaded PROVE TypesInv'
  BY <1>2, <1>3, <1>4, <1>14 DEF RestUnloaded, unitVars
<1>15. QED BY <1>7, <1>8, <1>9, <1>10, <1>11, <1>12, <1>13, <1>14 DEF UnitStep

\* A sweep is told the status of a unit, ends, and ages.
LEMMA SweepStepKeepsTypes ==
    ASSUME PlacerInv, TypesInv, SweepStep
    PROVE  TypesInv'
<1>0. UnitsTyped /\ JobsTyped /\ SweepsTyped /\ \A r \in Requests : Asking(req[r])
  BY DEF TypesInv
<1>1. UNCHANGED <<jobs, unitVars>>
  BY DEF SweepStep, SweepEnds, SweepReads, CacheAges
<1>2. UnitsTyped' /\ JobsTyped'
  BY <1>0, <1>1 DEF UnitsTyped, JobsTyped, unitVars
<1>3. ASSUME NEW g \in DOMAIN sweeps, SweepEnds(g) PROVE TypesInv'
  <2>1. Viewed(sweeps[g])
    BY <1>0, <1>3 DEF SweepEnds, SweepsTyped, Read, Viewed
  <2>2. SweepsTyped'
    <3>1. cache' \in {sweeps[g], cache, None}
      BY <1>3 DEF SweepEnds
    <3>2. sweeps' = [h \in DOMAIN sweeps \ {g} |-> sweeps[h]]
      BY <1>3 DEF SweepEnds
    <3>3. QED BY <1>0, <2>1, <3>1, <3>2 DEF SweepsTyped
  <2>3. ASSUME NEW r \in Requests PROVE Asking(req'[r])
    <3>1. Formed(req[r]) /\ Asking(req[r])
      BY <1>0 DEF PlacerInv, Placed
    <3>2. CASE req[r].pc = "sweep" /\ req[r].gen = g
      <4>1. req'[r] = [req[r] EXCEPT !.view = sweeps[g], !.gen = 0, !.pc = "rank"]
        BY <1>3, <3>2 DEF SweepEnds
      <4>2. /\ req'[r].pc = "rank" /\ req'[r].view = sweeps[g] /\ req'[r].ask = req[r].ask
            /\ req'[r].evict = req[r].evict
        BY <3>1, <4>1 DEF Formed, Fields
      <4>3. QED BY <2>1, <3>1, <3>2, <4>2 DEF Asking, Where
    <3>3. CASE ~(req[r].pc = "sweep" /\ req[r].gen = g)
      BY <1>3, <3>1, <3>3 DEF SweepEnds
    <3>4. QED BY <3>2, <3>3
  <2>4. QED BY <1>2, <2>2, <2>3 DEF TypesInv
<1>4. ASSUME NEW g \in DOMAIN sweeps, NEW u \in Units, SweepReads(g, u) PROVE TypesInv'
  <2>1. /\ UNCHANGED <<cache, req>>
        /\ \E st \in Status(u) : sweeps' = [sweeps EXCEPT ![g].seen[u] = st]
    BY <1>4 DEF SweepReads
  <2>2. PICK st \in Status(u) : sweeps' = [sweeps EXCEPT ![g].seen[u] = st]
    BY <2>1
  <2>3. Runs(u, st.rows)
    <3>1. st.rows \in Answers(u) \/ st.rows = <<>>
      BY DEF Status
    <3>2. \A w \in Answers(u) : \E P \in SUBSET DOMAIN serves[u] : w = [p \in P |-> serves[u][p]]
      BY DEF Answers
    <3>3. Runs(u, <<>>)
      BY DEF Runs
    <3>4. QED BY <1>0, <3>1, <3>2, <3>3, SomeRun DEF UnitsTyped
  <2>4. sweeps[g] = [since |-> g, seen |-> sweeps[g].seen]
    BY DEF PlacerInv, Sweeping
  <2>5. Read(sweeps[g].seen)
    BY <1>0 DEF SweepsTyped
  <2>6. ASSUME NEW h \in DOMAIN sweeps PROVE Read(sweeps'[h].seen)
    <3>1. CASE h = g
      <4>1. sweeps'[g].seen = [sweeps[g].seen EXCEPT ![u] = st]
        BY <2>2, <2>4
      <4>2. QED BY <2>3, <2>5, <3>1, <4>1 DEF Read
    <3>2. CASE h # g
      BY <1>0, <2>2, <3>2 DEF SweepsTyped
    <3>3. QED BY <3>1, <3>2
  <2>7. SweepsTyped'
    BY <1>0, <2>1, <2>2, <2>6 DEF SweepsTyped
  <2>8. QED BY <1>0, <1>2, <2>1, <2>7 DEF TypesInv
<1>5. ASSUME CacheAges PROVE TypesInv'
  <2>1. SweepsTyped' /\ UNCHANGED req
    BY <1>0, <1>5 DEF CacheAges, SweepsTyped
  <2>2. QED BY <1>0, <1>2, <2>1 DEF TypesInv
<1>6. QED BY <1>3, <1>4, <1>5 DEF SweepStep

\* One request goes on.
LEMMA GoingOnKeepsTypes ==
    ASSUME PlacerInv, TypesInv, NEW r \in Requests, NEW q, Become(r, q), Asking(q),
           UNCHANGED <<serves>>, JobsTyped', SweepsTyped'
    PROVE  TypesInv'
<1>1. UnitsTyped'
  BY DEF TypesInv, UnitsTyped
<1>2. \A s \in Requests : Asking(req'[s])
  BY BecomesThat DEF TypesInv
<1>3. QED BY <1>1, <1>2 DEF TypesInv

\* A request asks for a placement.
LEMMA PlacingIsTyped ==
    ASSUME PlacerInv, TypesInv, NEW r \in Requests, NEW q, Formed(q), Place(r, q),
           q.ask \in Ask, q.evict \subseteq Models, UNCHANGED <<jobs, nextJob, unitVars>>
    PROVE  TypesInv'
<1> DEFINE p == IF cache # None
                THEN [q EXCEPT !.view = cache, !.pc = "rank", !.since = moves]
                ELSE [q EXCEPT !.gen = gen, !.pc = "sweep", !.since = moves]
<1>1. Become(r, p)
  BY DEF Place
<1>2. /\ p.ask = q.ask /\ p.evict = q.evict
      /\ p.pc = "sweep" \/ (p.pc = "rank" /\ cache # None /\ p.view = cache)
  BY DEF Formed, Fields
<1> HIDE DEF p
<1>3. SweepsTyped
  BY DEF TypesInv
<1>4. Asking(p)
  BY <1>2, <1>3 DEF Asking, SweepsTyped, Where
<1>5. SweepsTyped'
  <2>1. UNCHANGED cache
    BY DEF Place
  <2>2. CASE sweeps' = sweeps
    BY <1>3, <2>1, <2>2 DEF SweepsTyped
  <2>3. CASE sweeps' = [g \in DOMAIN sweeps \union {gen} |->
                          IF g = gen THEN [since |-> moves, seen |-> [u \in Units |-> None]]
                          ELSE sweeps[g]]
    <3>1. Read([u \in Units |-> None])
      BY DEF Read
    <3>2. \A g \in DOMAIN sweeps' : Read(sweeps'[g].seen)
      <4>1. TAKE g \in DOMAIN sweeps'
      <4>2. CASE g = gen
        BY <2>3, <3>1, <4>2
      <4>3. CASE g # gen
        BY <1>3, <2>3, <4>3 DEF SweepsTyped
      <4>4. QED BY <4>2, <4>3
    <3>3. QED BY <1>3, <2>1, <3>2 DEF SweepsTyped
  <2>4. QED BY <2>2, <2>3 DEF Place
<1>6. JobsTyped' /\ UNCHANGED serves
  BY DEF TypesInv, JobsTyped, unitVars
<1>7. QED BY <1>1, <1>4, <1>5, <1>6, GoingOnKeepsTypes

\* A row of a server without a lease.
LEMMA PlainRows ==
    ASSUME NEW m, NEW a \in 0..MaxAge, NEW b \in Nat
    PROVE  IsRow([model |-> m, lease |-> "none", prio |-> 0, age |-> a, budget |-> b,
                  span |-> 1, group |-> FALSE])
BY DEF IsRow

\* What is known of a unit is what rank() takes it for.
LEMMA FactsAreFacts ==
    ASSUME JobsTyped, NEW u \in Units, NEW st, Runs(u, st.rows), NEW m \in Models, NEW hot, NEW held
    PROVE  IsCandidate(Facts(u, st, m, hot, held))
<1> DEFINE c == Facts(u, st, m, hot, held)
<1>1. /\ DOMAIN st.rows \subseteq Nat /\ IsFiniteSet(DOMAIN st.rows)
      /\ \A p \in DOMAIN st.rows : st.rows[p] \in Models
  BY GatewayAssumption, FS_Subset DEF Runs
<1>2. \A n \in Models : Mem[n] \in Nat
  BY GatewayAssumption, PlacementAssumption
<1>3. /\ {c.swap, c.whole, c.slot, c.refused, c.proven, c.blocked} \subseteq BOOLEAN
      /\ c.want \in Nat /\ c.est \in Nat /\ c.fill \in Nat /\ c.order \in Nat /\ c.members \in Nat
  BY <1>2, GatewayAssumption, PlacementAssumption DEF Facts
<1>4. c.inflight \in Nat
  BY <1>2 DEF Facts, JobsTyped, Job
<1>5. /\ DOMAIN c.rows = DOMAIN st.rows
      /\ \A p \in DOMAIN c.rows : IsRow(c.rows[p])
  <2>1. \A p \in DOMAIN st.rows :
           c.rows[p] = [model |-> st.rows[p], lease |-> "none", prio |-> 0,
                        age |-> IF st.rows[p] \in hot THEN 0 ELSE MaxAge,
                        budget |-> Mem[st.rows[p]], span |-> 1, group |-> FALSE]
    BY DEF Facts
  <2>2. DOMAIN c.rows = DOMAIN st.rows
    BY DEF Facts
  <2> HIDE DEF c
  <2>3. ASSUME NEW p \in DOMAIN st.rows PROVE IsRow(c.rows[p])
    <3>1. Mem[st.rows[p]] \in Nat /\ MaxAge \in Nat
      BY <1>1, <1>2, PlacementAssumption
    <3>2. (IF st.rows[p] \in hot THEN 0 ELSE MaxAge) \in 0..MaxAge
      BY <3>1
    <3>3. QED BY <2>1, <3>1, <3>2, PlainRows
  <2>4. QED BY <2>2, <2>3
<1> HIDE DEF c
<1>6. QED BY <1>1, <1>3, <1>4, <1>5 DEF IsCandidate, c

AsSeen(v, m, hot, held) == {Facts(u, v.seen[u], m, hot, held) : u \in Tell(v)}

\* The units as a sweep has seen them are a fleet.
LEMMA FactsAreFleet ==
    ASSUME JobsTyped, NEW v, Viewed(v), NEW m \in Models, NEW hot, NEW held
    PROVE  IsFleet(AsSeen(v, m, hot, held))
<1> DEFINE T == Tell(v)
           f == [u \in T |-> Facts(u, v.seen[u], m, hot, held)]
           C == {Facts(u, v.seen[u], m, hot, held) : u \in T}
<1>0. T \subseteq Units /\ IsFiniteSet(T)
  <2>1. T \subseteq Units
    BY DEF Tell
  <2>2. QED BY <2>1, GatewayAssumption, FS_Subset
<1> HIDE DEF T
<1>1. IsFiniteSet(C)
  <2>1. f \in Surjection(T, C)
    BY DEF Surjection
  <2> HIDE DEF f, C
  <2>2. QED BY <1>0, <2>1, FS_Surjection
<1>2. \A c \in C : IsCandidate(c)
  BY <1>0, FactsAreFacts DEF Viewed
<1>3. ASSUME NEW c \in C, NEW d \in C, c.order = d.order PROVE c = d
  <2>1. PICK u \in Units : c = Facts(u, v.seen[u], m, hot, held)
    BY <1>0
  <2>2. PICK w \in Units : d = Facts(w, v.seen[w], m, hot, held)
    BY <1>0
  <2>3. Order[u] = Order[w]
    BY <1>3, <2>1, <2>2 DEF Facts
  <2>4. u = w
    BY <2>3, GatewayAssumption DEF IsInjective
  <2>5. QED BY <2>1, <2>2, <2>4
<1>4. QED BY <1>1, <1>2, <1>3 DEF IsFleet, AsSeen, T

\* A placement names a unit, and models to evict.
LEMMA DecisionIsTyped ==
    ASSUME JobsTyped, NEW q, q.ask \in Ask, Viewed(q.view), NEW hot, NEW held,
           NEW d, d = Decision(q, hot, held), d.outcome \in {"pin", "place"}
    PROVE  d.unit \in Units /\ d.victims \subseteq Models
<1> DEFINE m == q.ask.model
           C == AsSeen(q.view, m, hot, held)
<1>1. m \in Models /\ q.ask.wl \in Workload
  BY DEF Ask
<1>2. IsFleet(C)
  BY <1>1, FactsAreFleet
<1>3. d = Rank(m, C, q.excluded, q.ask.wl)
  BY DEF Decision, AsSeen
<1>4. \A c \in C : c.unit \in Units /\ \A i \in DOMAIN c.rows : c.rows[i].model \in Models
  <2>1. TAKE c \in C
  <2>2. PICK u \in Units : c = Facts(u, q.view.seen[u], m, hot, held)
    BY DEF AsSeen, Tell
  <2>3. /\ c.unit = u /\ DOMAIN c.rows = DOMAIN q.view.seen[u].rows
        /\ \A i \in DOMAIN c.rows : c.rows[i].model = q.view.seen[u].rows[i]
    BY <2>2 DEF Facts
  <2>4. Runs(u, q.view.seen[u].rows)
    BY DEF Viewed
  <2>5. QED BY <2>3, <2>4 DEF Runs
<1> HIDE DEF C, m
<1>5. WellChosen(d, m, C, q.excluded, q.ask.wl)
  BY <1>1, <1>2, <1>3, RankChoosesWell
<1>6. PICK c \in C : \/ \E how, t : d = Choice(how, c, t)
                      \/ \E V \in SUBSET DOMAIN c.rows : d = Displace(<<c, V>>)
  BY <1>5 DEF WellChosen, Within, Eligible
<1>7. CASE \E how, t : d = Choice(how, c, t)
  <2>1. d.unit = c.unit /\ d.victims = {}
    BY <1>7 DEF Choice
  <2>2. QED BY <1>4, <2>1
<1>8. ASSUME NEW V \in SUBSET DOMAIN c.rows, d = Displace(<<c, V>>)
      PROVE  d.unit \in Units /\ d.victims \subseteq Models
  <2>1. /\ d.unit = c.unit
        /\ d.victims = {c.rows[i].model : i \in {j \in V : c.rows[j].group = FALSE}}
    BY <1>8 DEF Displace, Choice
  <2>2. QED BY <1>4, <2>1
<1>9. QED BY <1>6, <1>7, <1>8

\* A request that is new, or over, asks for nothing.
LEMMA CleanRequests ==
    Fresh0.evict = {} /\ Asking(Fresh0) /\ Asking(Over)
<1>1. Fresh0.evict = {} /\ Over.evict = {}
  BY DEF Fresh0, Over
<1>2. QED BY <1>1, CleanLocals DEF Asking, Where

\* Nothing is committed, or a load is.
LEMMA SweepsStayTyped ==
    ASSUME TypesInv, UNCHANGED placerVars \/ Invalidate
    PROVE  SweepsTyped'
BY DEF TypesInv, SweepsTyped, placerVars, Invalidate

\* A load has failed: the request is placed again, or it is over.
LEMMA LoadFailedKeepsTypes ==
    ASSUME PlacerInv, TypesInv, NEW r \in Requests, NEW q, q.ask \in Ask, NEW how,
           LoadFailed(r, q, how), UNCHANGED <<jobs, nextJob, unitVars>>
    PROVE  TypesInv'
<1>1. CASE MayRetry(q, how)
  <2> DEFINE p == [Fresh0 EXCEPT !.ask = q.ask, !.excluded = {q.unit}, !.retried = TRUE,
                                 !.first = q.job]
  <2>1. Place(r, p)
    BY <1>1 DEF LoadFailed
  <2>2. Formed(p) /\ p.ask = q.ask /\ p.evict = {}
    BY CleanLocals, CleanRequests DEF Formed, Fields
  <2> HIDE DEF p
  <2>3. QED BY <2>1, <2>2, PlacingIsTyped
<1>2. CASE ~MayRetry(q, how)
  <2>1. Become(r, Over) /\ UNCHANGED placerVars
    BY <1>2 DEF LoadFailed
  <2>2. JobsTyped' /\ UNCHANGED serves
    BY DEF TypesInv, JobsTyped, unitVars
  <2>3. QED BY <2>1, <2>2, CleanRequests, SweepsStayTyped, GoingOnKeepsTypes
<1>3. QED BY <1>1, <1>2

\* A request, step by step.
LEMMA RequestStepKeepsTypes ==
    ASSUME PlacerInv, JobsInv, TypesInv, NEW r \in Requests, RequestStep(r)
    PROVE  TypesInv'
<1> DEFINE q == req[r]
           Idle == UNCHANGED <<jobs, nextJob, unitVars>>
<1>0. Formed(q) /\ Asking(q)
  BY DEF PlacerInv, Placed, TypesInv
<1> HIDE DEF q
<1>a. Idle => JobsTyped' /\ UNCHANGED serves
  BY DEF TypesInv, JobsTyped, unitVars
<1>b. ASSUME NEW n, Become(r, n), Asking(n), Idle, UNCHANGED placerVars PROVE TypesInv'
  BY <1>a, <1>b, SweepsStayTyped, GoingOnKeepsTypes
<1>c. ASSUME NEW n, Become(r, n), Asking(n), UNCHANGED placerVars \/ Invalidate,
             NEW u \in Units, NEW m \in Models, NEW E \in SUBSET Models, NewJob(u, m, E)
      PROVE  TypesInv'
  <2>1. JobsTyped' /\ UNCHANGED serves
    BY <1>c, NewJobIsTyped DEF TypesInv, NewJob
  <2>2. QED BY <1>c, <2>1, SweepsStayTyped, GoingOnKeepsTypes
<1>d. ASSUME NEW where \in Where \ {"rank", "wait"}, q.ask \in Ask, q.unit \in Units,
             NEW n, n.pc = where, n.ask = q.ask, n.unit = q.unit, n.evict \subseteq Models
      PROVE  Asking(n)
  BY <1>d DEF Asking
<1>1. CASE Arrive(r)
  <2>1. Idle /\ q.pc = "new"
    BY <1>1 DEF Arrive, q
  <2>2. PICK a \in Asked :
           \/ Place(r, [q EXCEPT !.ask = a])
           \/ /\ \/ /\ a.pin # None
                    /\ Become(r, [[q EXCEPT !.ask = a] EXCEPT !.unit = a.pin, !.pc = "probe"])
                 \/ Become(r, Over)
              /\ UNCHANGED placerVars
    BY <1>1 DEF Arrive, q
  <2> DEFINE p == [q EXCEPT !.ask = a]
             n == [p EXCEPT !.unit = a.pin, !.pc = "probe"]
  <2>3. \/ Place(r, p)
        \/ a.pin # None /\ Become(r, n) /\ UNCHANGED placerVars
        \/ Become(r, Over) /\ UNCHANGED placerVars
    BY <2>2
  <2>4. Formed(p) /\ p.ask = a /\ p.evict = q.evict
    BY <1>0 DEF Formed, Fields
  <2> HIDE DEF p
  <2>5. n.ask = a /\ n.evict = q.evict /\ n.unit = a.pin /\ n.pc = "probe"
    BY <2>4 DEF Formed, Fields
  <2> HIDE DEF n
  <2>6. a \in Ask /\ (a.pin # None => a.pin \in Units)
    BY GatewayAssumption DEF Ask
  <2>7. q.evict \subseteq Models
    BY <1>0 DEF Asking
  <2>8. CASE Place(r, p)
    BY <2>1, <2>4, <2>6, <2>7, <2>8, PlacingIsTyped
  <2>9. CASE a.pin # None /\ Become(r, n) /\ UNCHANGED placerVars
    <3>1. Asking(n)
      BY <2>5, <2>6, <2>7, <2>9 DEF Asking, Where
    <3>2. QED BY <2>1, <2>9, <3>1, <1>b
  <2>10. CASE Become(r, Over) /\ UNCHANGED placerVars
    BY <2>1, <2>10, <1>b, CleanRequests
  <2>11. QED BY <2>3, <2>8, <2>9, <2>10
<1>2. CASE RankAndGate(r)
  <2>1. Idle /\ q.pc = "rank"
    BY <1>2 DEF RankAndGate, q
  <2>2. PICK hot \in SUBSET Seen(q.view), held \in Refusals :
           LET d == Decision(q, hot, held)
               c == [Fresh0 EXCEPT !.pc = "probe", !.ask = q.ask, !.unit = d.unit,
                                   !.evict = d.victims,
                                   !.retried = q.retried, !.first = q.first]
           IN  \/ Become(r, Over) /\ UNCHANGED placerVars
               \/ d.outcome \in {"pin", "place"} /\ Become(r, c) /\ UNCHANGED placerVars
               \/ Place(r, [q EXCEPT !.view = None, !.excluded = {d.unit}, !.tries = 1])
    BY <1>2 DEF RankAndGate, q
  <2> DEFINE d == Decision(q, hot, held)
  <2> DEFINE c == [Fresh0 EXCEPT !.pc = "probe", !.ask = q.ask, !.unit = d.unit,
                                 !.evict = d.victims,
                                 !.retried = q.retried, !.first = q.first]
             n == [q EXCEPT !.view = None, !.excluded = {d.unit}, !.tries = 1]
  <2>3. \/ Place(r, n)
        \/ d.outcome \in {"pin", "place"} /\ Become(r, c) /\ UNCHANGED placerVars
        \/ Become(r, Over) /\ UNCHANGED placerVars
    BY <2>2, Zenon
  <2>4. q.ask \in Ask /\ Viewed(q.view) /\ q.evict \subseteq Models
    BY <1>0, <2>1 DEF Asking
  <2>5. d.outcome \in {"pin", "place"} => d.unit \in Units /\ d.victims \subseteq Models
    BY <2>4, DecisionIsTyped DEF TypesInv
  <2> HIDE DEF d
  <2>6. c.pc = "probe" /\ c.ask = q.ask /\ c.unit = d.unit /\ c.evict = d.victims
    BY CleanLocals DEF Formed, Fields
  <2>7. Formed(n) /\ n.ask = q.ask /\ n.evict = q.evict
    BY <1>0 DEF Formed, Fields
  <2> HIDE DEF c, n
  <2>8. CASE Place(r, n)
    BY <2>1, <2>4, <2>7, <2>8, PlacingIsTyped
  <2>9. CASE d.outcome \in {"pin", "place"} /\ Become(r, c) /\ UNCHANGED placerVars
    <3>1. Asking(c)
      BY <2>4, <2>5, <2>6, <2>9 DEF Asking, Where
    <3>2. QED BY <2>1, <2>9, <3>1, <1>b
  <2>10. CASE Become(r, Over) /\ UNCHANGED placerVars
    BY <2>1, <2>10, <1>b, CleanRequests
  <2>11. QED BY <2>3, <2>8, <2>9, <2>10
<1>3. CASE RestLoad(r)
  <2>1. Become(r, Over) /\ q.pc = "rank"
    BY <1>3 DEF RestLoad, q
  <2>2. PICK hot \in SUBSET Seen(q.view), held \in Refusals :
           LET d == Decision(q, hot, held)
           IN  \/ /\ d.outcome \in {"pin", "place"}
                  /\ NewJob(d.unit, q.ask.model, d.victims) /\ Invalidate
               \/ Idle /\ UNCHANGED placerVars
    BY <1>3 DEF RestLoad, q
  <2> DEFINE d == Decision(q, hot, held)
  <2>3. \/ /\ d.outcome \in {"pin", "place"}
           /\ NewJob(d.unit, q.ask.model, d.victims) /\ Invalidate
        \/ Idle /\ UNCHANGED placerVars
    BY <2>2, Zenon
  <2>4. q.ask \in Ask /\ Viewed(q.view)
    BY <1>0, <2>1 DEF Asking
  <2>5. d.outcome \in {"pin", "place"} => d.unit \in Units /\ d.victims \subseteq Models
    BY <2>4, DecisionIsTyped DEF TypesInv
  <2> HIDE DEF d
  <2>6. q.ask.model \in Models
    BY <2>4 DEF Ask
  <2>7. QED BY <1>b, <1>c, <2>1, <2>3, <2>5, <2>6, CleanRequests
<1>4. CASE Probe(r)
  <2>1. /\ Idle /\ UNCHANGED placerVars
        /\ q.pc \in {"probe", "reprobe"}
        /\ \E w : Become(r, [q EXCEPT !.rows = w, !.moved = FALSE,
                                      !.pc = IF @ = "probe" THEN "admit" ELSE "reroute"])
    BY <1>4 DEF Probe, q
  <2>2. PICK w : Become(r, [q EXCEPT !.rows = w, !.moved = FALSE,
                                     !.pc = IF @ = "probe" THEN "admit" ELSE "reroute"])
    BY <2>1
  <2> DEFINE n == [q EXCEPT !.rows = w, !.moved = FALSE,
                            !.pc = IF @ = "probe" THEN "admit" ELSE "reroute"]
  <2>3. /\ n.pc \in {"admit", "reroute"} /\ n.ask = q.ask /\ n.unit = q.unit
        /\ n.evict = q.evict
    BY <1>0 DEF Formed, Fields
  <2>4. Become(r, n)
    BY <2>2
  <2> HIDE DEF n
  <2>5. Asking(n)
    BY <1>0, <2>1, <2>3 DEF Asking, Where
  <2>6. QED BY <1>b, <2>1, <2>4, <2>5
<1>5. CASE Admit(r)
  <2> DEFINE n == [q EXCEPT !.route = Route(q.unit, q.rows, q.ask.model),
                            !.rows = <<>>, !.evict = {}, !.moved = FALSE]
  <2>1. /\ q.pc = "admit"
        /\ \/ Become(r, [n EXCEPT !.pc = "forward"]) /\ Idle /\ UNCHANGED placerVars
           \/ /\ Attaches(q) /\ Become(r, [n EXCEPT !.pc = "wait", !.job = run[q.unit]])
              /\ Idle /\ UNCHANGED placerVars
           \/ Become(r, Over) /\ Idle /\ UNCHANGED placerVars
           \/ /\ NewJob(q.unit, q.ask.model, q.evict) /\ Invalidate
              /\ Become(r, [n EXCEPT !.pc = "wait", !.job = nextJob])
    BY <1>5 DEF Admit, q
  <2>2. Formed(n) /\ n.ask = q.ask /\ n.unit = q.unit /\ n.evict = {}
    BY <1>0 DEF Formed, Fields
  <2> HIDE DEF n
  <2>3. /\ q.ask \in Ask /\ q.unit \in Units /\ q.evict \subseteq Models
        /\ q.ask.model \in Models
    BY <1>0, <2>1 DEF Asking, Ask
  <2>4. CASE Become(r, [n EXCEPT !.pc = "forward"]) /\ Idle /\ UNCHANGED placerVars
    <3> DEFINE p == [n EXCEPT !.pc = "forward"]
    <3>1. p.pc = "forward" /\ p.ask = q.ask /\ p.evict = {}
      BY <2>2 DEF Formed, Fields
    <3>2. Become(r, p)
      BY <2>4
    <3> HIDE DEF p
    <3>3. Asking(p)
      BY <2>3, <3>1 DEF Asking, Where
    <3>4. QED BY <1>b, <2>4, <3>2, <3>3
  <2>5. ASSUME NEW j, j # NoJob PROVE Asking([n EXCEPT !.pc = "wait", !.job = j])
    <3> DEFINE p == [n EXCEPT !.pc = "wait", !.job = j]
    <3>1. p.pc = "wait" /\ p.ask = q.ask /\ p.unit = q.unit /\ p.evict = {} /\ p.job = j
      BY <2>2 DEF Formed, Fields
    <3> HIDE DEF p
    <3>2. Asking(p)
      BY <2>3, <2>5, <3>1 DEF Asking, Where
    <3>3. QED BY <3>2 DEF p
  <2>6. CASE /\ Attaches(q) /\ Become(r, [n EXCEPT !.pc = "wait", !.job = run[q.unit]])
             /\ Idle /\ UNCHANGED placerVars
    <3>1. run[q.unit] # NoJob
      BY <2>6, WithoutLoads DEF Attaches, NoJob
    <3>2. QED BY <1>b, <2>5, <2>6, <3>1
  <2>7. CASE /\ NewJob(q.unit, q.ask.model, q.evict) /\ Invalidate
             /\ Become(r, [n EXCEPT !.pc = "wait", !.job = nextJob])
    <3>1. nextJob # NoJob
      BY WithoutLoads DEF NoJob
    <3>2. QED BY <1>c, <2>3, <2>5, <2>7, <3>1
  <2>8. QED BY <1>b, <2>1, <2>4, <2>6, <2>7, CleanRequests
<1>6. CASE Poll(r)
  <2>1. /\ Idle /\ q.pc = "wait"
        /\ \/ \E how : LoadFailed(r, q, how)
           \/ /\ UNCHANGED placerVars
              /\ \/ Become(r, [q EXCEPT !.pc = "reprobe"])
                 \/ Become(r, [q EXCEPT !.pc = "forward"])
    BY <1>6 DEF Poll, q
  <2>2. q.ask \in Ask /\ q.unit \in Units /\ q.evict \subseteq Models
    BY <1>0, <2>1 DEF Asking
  <2>3. ASSUME NEW where \in {"reprobe", "forward"} PROVE Asking([q EXCEPT !.pc = where])
    <3> DEFINE n == [q EXCEPT !.pc = where]
    <3>1. n.pc = where /\ n.ask = q.ask /\ n.unit = q.unit /\ n.evict = q.evict
      BY <1>0 DEF Formed, Fields
    <3> HIDE DEF n
    <3>2. Asking(n)
      BY <1>d, <2>2, <3>1 DEF Where
    <3>3. QED BY <3>2 DEF n
  <2>4. QED BY <1>b, <2>1, <2>2, <2>3, LoadFailedKeepsTypes
<1>7. CASE WaitTimesOut(r)
  <2>1. Idle /\ q.pc = "wait" /\ LoadFailed(r, q, "timeout")
    BY <1>7 DEF WaitTimesOut, q
  <2>2. q.ask \in Ask
    BY <1>0, <2>1 DEF Asking
  <2>3. QED BY <2>1, <2>2, LoadFailedKeepsTypes
<1>8. CASE Reroute(r)
  <2> DEFINE n == [q EXCEPT !.route = Route(q.unit, q.rows, q.ask.model),
                            !.rows = <<>>, !.moved = FALSE, !.pc = "forward"]
  <2>1. Become(r, n) /\ Idle /\ UNCHANGED placerVars /\ q.pc = "reroute"
    BY <1>8 DEF Reroute, q
  <2>2. n.pc = "forward" /\ n.ask = q.ask /\ n.unit = q.unit /\ n.evict = q.evict
    BY <1>0 DEF Formed, Fields
  <2> HIDE DEF n
  <2>3. Asking(n)
    BY <1>0, <2>1, <2>2 DEF Asking, Where
  <2>4. QED BY <1>b, <2>1, <2>3
<1>9. CASE Forward(r)
  BY <1>9, <1>b, CleanRequests DEF Forward
<1>10. QED
  BY <1>1, <1>2, <1>3, <1>4, <1>5, <1>6, <1>7, <1>8, <1>9 DEF RequestStep

\* The types hold in every reachable state.
LEMMA TypesInvariant == Spec => []TypesInv
<1>1. Init => TypesInv
  <2> SUFFICES ASSUME Init PROVE TypesInv
    OBVIOUS
  <2>1. UnitsTyped
    BY GatewayAssumption DEF Init, UnitsTyped, Runs
  <2>2. JobsTyped /\ SweepsTyped
    BY DEF Init, JobsTyped, SweepsTyped
  <2>3. \A r \in Requests : Asking(req[r])
    BY CleanRequests DEF Init
  <2>4. QED BY <2>1, <2>2, <2>3 DEF TypesInv
<1>2. PlacerInv /\ JobsInv /\ TypesInv /\ [Next]_vars => TypesInv'
  <2> SUFFICES ASSUME PlacerInv, JobsInv, TypesInv, [Next]_vars PROVE TypesInv'
    OBVIOUS
  <2>1. CASE UNCHANGED vars
    BY <2>1 DEF vars, TypesInv, UnitsTyped, JobsTyped, SweepsTyped
  <2>2. CASE Next
    BY <2>2, UnitStepKeepsTypes, SweepStepKeepsTypes, RequestStepKeepsTypes DEF Next
  <2>3. QED BY <2>1, <2>2
<1>3. QED BY <1>1, <1>2, PlacerInvariant, JobsInvariant, PTL DEF Spec

\* Everything is well-formed, in every reachable state: a request that waits has a job, its
\* unit is one, and the jobs in line are in the table and have not ended.
THEOREM GatewayTyped == Spec => []TypeOK
<1>1. PlacerInv /\ JobsInv /\ TypesInv => TypeOK
  <2> SUFFICES ASSUME PlacerInv, JobsInv, TypesInv PROVE TypeOK
    OBVIOUS
  <2>1. /\ jobs = [j \in DOMAIN jobs |-> jobs[j]] /\ DOMAIN jobs \subseteq 1..(nextJob - 1)
        /\ \A j \in DOMAIN jobs : jobs[j] \in Job
    BY DEF JobsInv, JobTable, TypesInv, JobsTyped
  <2>2. ASSUME NEW u \in Units
        PROVE  /\ serves[u] \in [DOMAIN serves[u] -> Models] /\ DOMAIN serves[u] \subseteq Ports[u]
               /\ \A j \in queue[u] \union ({run[u]} \ {NoJob}) :
                     j \in DOMAIN jobs /\ ~Ended(j)
    <3>1. Runs(u, serves[u])
      BY DEF TypesInv, UnitsTyped
    <3>2. \A j \in queue[u] \union ({run[u]} \ {NoJob}) : Pending(jobs, u, j)
      BY DEF JobsInv, InLine
    <3>3. QED BY <3>1, <3>2 DEF Runs, Pending, Ended, Terminal
  <2>3. ASSUME NEW r \in Requests
        PROVE  /\ req[r].pc \in Where
               /\ req[r].pc = "sweep" => req[r].gen \in DOMAIN sweeps
               /\ req[r].pc = "wait" => req[r].job \in 1..(nextJob - 1)
    <3>1. Placed(req[r], DOMAIN sweeps) /\ Loading(req[r], jobs, nextJob) /\ Asking(req[r])
      BY DEF PlacerInv, JobsInv, TypesInv
    <3>2. nextJob \in Nat
      BY DEF JobsInv, JobTable
    <3>3. QED BY <3>1, <3>2 DEF Placed, Loading, Asking, NoJob
  <2>4. QED BY <2>1, <2>2, <2>3 DEF TypeOK
<1>2. QED BY <1>1, PlacerInvariant, JobsInvariant, TypesInvariant, PTL
=============================================================================
