-------------------------- MODULE PathfinderProofs ---------------------------
(***************************************************************************)
(* Proofs about Pathfinder: for levels of any size and shape, any walls,   *)
(* doors, penalties and requests, and any number of searches, the path     *)
(* that is answered is a cheapest way.                                     *)
(*                                                                         *)
(* The search by itself is a relation (Sound) between what each cell is    *)
(* known to cost, the cells that are closed, their parents and what is     *)
(* open.  It holds at first, and closing the cell of the best entry keeps  *)
(* it: what the search hopes of a cell, the diagonal shortcut, is never    *)
(* more than a step and what it hopes of the cell after it, so that a cell *)
(* that is closed is never found nearer again.  When the goal is the best  *)
(* entry, no way is cheaper than what is known of it, and the parents are  *)
(* a way that costs just that; when nothing is open, there is no way.      *)
(*                                                                         *)
(* The invariant of the state (PathInv) says that the nodes, as Touch      *)
(* gives them, and the heap are in that relation, whatever the arena keeps *)
(* of earlier searches, and where the kept grid, and the rooms copied to   *)
(* the one that is being built, may differ from the game.                  *)
(*                                                                         *)
(* What follows by induction over numbers is shown from the least number   *)
(* that would be an exception.                                             *)
(***************************************************************************)
EXTENDS Pathfinder, FiniteSetTheorems, SequenceTheorems, TLAPS

(* The least element of a set of numbers. *)
LEMMA LeastNumber ==
  ASSUME NEW T \in SUBSET Nat, T # {}
  PROVE  \E m \in T : \A k \in T : m <= k
<1> DEFINE U == {0..k : k \in T}
<1>1. IsWellFoundedOn(StrictSubsetOrdering(Nat), FiniteSubsetsOf(Nat))
  BY FS_StrictSubsetOrderingWellFounded
<1>2. \A k \in T : IsFiniteSet(0..k) /\ 0..k \in SUBSET Nat
  BY FS_Interval
<1>3. U \subseteq FiniteSubsetsOf(Nat) /\ U # {}
  BY <1>2, Zenon DEF FiniteSubsetsOf
<1>4. PICK V \in U : \A W \in U : <<W, V>> \notin StrictSubsetOrdering(Nat)
  <2> HIDE DEF U
  <2> QED
    BY <1>1, <1>3, WFMin
<1>5. PICK m \in T : V = 0..m
  OBVIOUS
<1>6. ASSUME NEW k \in T, k < m
      PROVE  FALSE
  <2>1. m \in 0..m /\ m \notin 0..k
    BY <1>6
  <2>2. 0..k \subseteq 0..m /\ 0..k # 0..m /\ 0..k \in SUBSET Nat /\ 0..m \in SUBSET Nat
    BY <1>6, <2>1
  <2>3. <<0..k, V>> \notin StrictSubsetOrdering(Nat)
    BY <1>4
  <2> QED
    BY <2>2, <2>3, <1>5, Zenon DEF StrictSubsetOrdering
<1> QED
  BY <1>6

(* Induction up to a bound: what holds at 0 and goes from each number to   *)
(* the next holds of them all.                                             *)
LEMMA UpTo ==
  ASSUME NEW n \in Nat, NEW T, 0 \in T, \A k \in 1..n : k - 1 \in T => k \in T
  PROVE  \A k \in 0..n : k \in T
<1> SUFFICES ASSUME NEW z \in 0..n, z \notin T
             PROVE  FALSE
  OBVIOUS
<1> DEFINE Out == {k \in 0..n : k \notin T}
<1>1. Out \in SUBSET Nat /\ Out # {}
  OBVIOUS
<1>2. PICK m \in Out : \A k \in Out : m <= k
  <2> HIDE DEF Out
  <2> QED
    BY <1>1, LeastNumber
<1>3. m \in 1..n
  OBVIOUS
<1>4. m - 1 \in 0..n /\ m - 1 \notin Out
  BY <1>2, <1>3
<1> QED
  BY <1>3, <1>4

(* A function may be defined by what it is at 0 and how each value follows *)
(* from the one before.                                                    *)
Leads(step, n, D) == step \in [D \X (1..n) -> D]

Follows(f, n, D, a, step) ==
  f \in [0..n -> D] /\ f[0] = a /\ \A k \in 1..n : f[k] = step[<<f[k - 1], k>>]

LEMMA StepByStep ==
  ASSUME NEW n \in Nat, NEW D, NEW a \in D, NEW step, Leads(step, n, D)
  PROVE  \E f : Follows(f, n, D, a, step)
<1> DEFINE T == {m \in 0..n : \E f : Follows(f, m, D, a, step)}
<1>1. 0 \in T
  <2> DEFINE f == [i \in 0..0 |-> a]
  <2>1. Follows(f, 0, D, a, step)
    BY DEF Follows
  <2>2. 0 \in 0..n
    OBVIOUS
  <2> HIDE DEF f
  <2> QED
    BY <2>1, <2>2
<1>2. ASSUME NEW m \in 1..n, m - 1 \in T
      PROVE  m \in T
  <2>1. PICK f : Follows(f, m - 1, D, a, step)
    BY <1>2
  <2> DEFINE g == [i \in 0..m |-> IF i = m THEN step[<<f[m - 1], m>>] ELSE f[i]]
  <2>2. step[<<f[m - 1], m>>] \in D
    <3>1. m - 1 \in 0..m - 1
      OBVIOUS
    <3>2. f[m - 1] \in D
      BY <2>1, <3>1 DEF Follows
    <3> QED
      BY <3>2 DEF Leads
  <2>3. g \in [0..m -> D]
    BY <2>1, <2>2 DEF Follows
  <2>4. Follows(g, m, D, a, step)
    <3>1. g[0] = a
      BY <2>1 DEF Follows
    <3>2. ASSUME NEW k \in 1..m
          PROVE  g[k] = step[<<g[k - 1], k>>]
      <4>1. g[k - 1] = f[k - 1]
        OBVIOUS
      <4>2. k # m => k \in 1..m - 1 /\ g[k] = f[k]
        OBVIOUS
      <4>3. k = m => g[k] = step[<<f[m - 1], m>>]
        OBVIOUS
      <4> QED
        BY <2>1, <4>1, <4>2, <4>3 DEF Follows
    <3> QED
      BY <2>3, <3>1, <3>2 DEF Follows
  <2>5. m \in 0..n
    OBVIOUS
  <2> HIDE DEF g
  <2> QED
    BY <2>4, <2>5
<1>3. n \in T
  <2>1. n \in 0..n
    OBVIOUS
  <2> HIDE DEF T
  <2> QED
    BY <1>1, <1>2, <2>1, UpTo
<1> QED
  BY <1>3

(* The least of some costs. *)
LEMMA MinIsLeast ==
  ASSUME NEW S \in SUBSET Nat, S # {}
  PROVE  Min(S) \in S /\ \A x \in S : Min(S) <= x
<1>1. \E m \in S : \A k \in S : m <= k
  BY LeastNumber
<1> QED
  BY <1>1 DEF Min

-----------------------------------------------------------------------------
(* Costs. *)

(* The costs are numbers, and those of a level stay below Infinity. *)
LEMMA InfinityIsNat == Infinity \in Nat
  BY DEF Infinity

LEMMA RequestFacts ==
  ASSUME NEW r \in Requests
  PROVE  /\ r.level \in LevelIds /\ r.start \in Cells[r.level] /\ r.goal \in Cells[r.level]
         /\ r.penalties \in BOOLEAN
         /\ IsFiniteSet(Cells[r.level]) /\ Nothing \notin Cells[r.level]
         /\ Cardinality(Cells[r.level]) \in Nat /\ Cardinality(Cells[r.level]) * MaxStep < Infinity
         /\ \A c \in Cells[r.level] : c[1] \in Nat /\ c[2] \in Nat
<1>1. r.level \in LevelIds /\ {r.start, r.goal} \subseteq Cells[r.level] /\ r.penalties \in BOOLEAN
  BY PathAssumption
<1>2. /\ IsFiniteSet(Cells[r.level]) /\ Nothing \notin Cells[r.level]
      /\ Cardinality(Cells[r.level]) * MaxStep < Infinity
      /\ Cells[r.level] \subseteq Nat \X Nat
  BY <1>1, PathAssumption
<1>3. Cardinality(Cells[r.level]) \in Nat
  BY <1>2, FS_CardinalityType
<1> QED
  BY <1>1, <1>2, <1>3

(* What the search hopes is left from a cell to the goal. *)
H(r, c) == DiagonalShortcut(c, r.goal)

(* A step brings the diagonal shortcut down by what it costs at most. *)
LEMMA ShortcutFacts ==
  ASSUME NEW a1 \in Nat, NEW a2 \in Nat, NEW b1 \in Nat, NEW b2 \in Nat, NEW g1 \in Nat, NEW g2 \in Nat,
         Abs(b1, a1) <= 1, Abs(b2, a2) <= 1
  PROVE  DiagonalShortcut(<<a1, a2>>, <<g1, g2>>)
           <= (IF b1 # a1 /\ b2 # a2 THEN 14 ELSE 10) + DiagonalShortcut(<<b1, b2>>, <<g1, g2>>)
  BY DEF DiagonalShortcut, Abs

(* What a cell of a terrain costs more than a bare one. *)
Tame(r, B) == \A n \in Cells[r.level] : B.penalty[n] \in 0..80

(* It never hopes for more than a step and what is left after it. *)
LEMMA HopeIsConsistent ==
  ASSUME NEW r \in Requests, NEW B, Tame(r, B), NEW c \in Cells[r.level], NEW n \in Neighbours(r.level, c)
  PROVE  /\ n \in Cells[r.level] /\ n # c
         /\ H(r, c) \in Nat /\ H(r, n) \in Nat
         /\ StepCost(c, n, B) \in 1..MaxStep
         /\ H(r, c) <= StepCost(c, n, B) + H(r, n)
<1>1. n \in Cells[r.level] /\ n # c /\ Abs(n[1], c[1]) <= 1 /\ Abs(n[2], c[2]) <= 1
  BY DEF Neighbours
<1>2. /\ c[1] \in Nat /\ c[2] \in Nat /\ n[1] \in Nat /\ n[2] \in Nat
      /\ r.goal[1] \in Nat /\ r.goal[2] \in Nat /\ B.penalty[n] \in 0..80
  BY <1>1, RequestFacts DEF Tame
<1>3. DiagonalShortcut(<<c[1], c[2]>>, <<r.goal[1], r.goal[2]>>)
        <= (IF n[1] # c[1] /\ n[2] # c[2] THEN 14 ELSE 10) + DiagonalShortcut(<<n[1], n[2]>>, <<r.goal[1], r.goal[2]>>)
  BY <1>1, <1>2, ShortcutFacts
<1>4. H(r, c) = DiagonalShortcut(<<c[1], c[2]>>, <<r.goal[1], r.goal[2]>>)
      /\ H(r, n) = DiagonalShortcut(<<n[1], n[2]>>, <<r.goal[1], r.goal[2]>>)
  BY DEF H, DiagonalShortcut
<1>5. H(r, c) \in Nat /\ H(r, n) \in Nat
  BY <1>2 DEF H, DiagonalShortcut, Abs
<1>6. /\ StepCost(c, n, B) \in 1..MaxStep
      /\ StepCost(c, n, B) >= (IF n[1] # c[1] /\ n[2] # c[2] THEN 14 ELSE 10)
  BY <1>2 DEF StepCost, MaxStep
<1> QED
  BY <1>1, <1>3, <1>4, <1>5, <1>6 DEF MaxStep

LEMMA HopeFacts ==
  ASSUME NEW r \in Requests, NEW c \in Cells[r.level]
  PROVE  H(r, c) \in Nat /\ (c = r.goal => H(r, c) = 0)
<1>1. c[1] \in Nat /\ c[2] \in Nat /\ r.goal[1] \in Nat /\ r.goal[2] \in Nat
  BY RequestFacts
<1>2. H(r, c) \in Nat
  BY <1>1 DEF H, DiagonalShortcut, Abs
<1>3. H(r, r.goal) = 0
  BY <1>1 DEF H, DiagonalShortcut, Abs
<1> QED
  BY <1>2, <1>3

-----------------------------------------------------------------------------
(* The search, by itself.  G is what each cell is known to cost, K are the *)
(* cells that are closed, P the parents, O what is open.                   *)

(* What is known leads back to the start, by closed cells and at the cost  *)
(* it says.                                                                *)
Tree(r, B, G, K, P) ==
  /\ Tame(r, B)
  /\ G \in [Cells[r.level] -> Nat] /\ K \subseteq Cells[r.level]
  /\ G[r.start] = 0 /\ P[r.start] = Nothing
  /\ \A c \in Cells[r.level] : G[c] <= Infinity
  /\ \A c \in K : G[c] < Infinity
  /\ \A c \in Cells[r.level] : G[c] < Infinity /\ c # r.start =>
       /\ P[c] \in K /\ c \in Neighbours(r.level, P[c]) /\ MayEnter(r, B, c)
       /\ G[c] = G[P[c]] + StepCost(P[c], c, B)

(* What is known stays small, as each closed cell adds a step at most. *)
Small(r, G, K) ==
  \A c \in Cells[r.level] : G[c] < Infinity => G[c] <= Cardinality(K) * MaxStep

(* Open is every cell that is known and not closed, and nothing that is    *)
(* hoped to be nearer to the goal than what is closed.                     *)
Frontier(r, G, K, O) ==
  /\ \A e \in O : e = <<e[1], e[2]>> /\ e[1] \in Nat /\ e[2] \in Cells[r.level]
  /\ \A c \in Cells[r.level] : G[c] < Infinity /\ c \notin K => <<G[c] + H(r, c), c>> \in O
  /\ \A e \in O : G[e[2]] < Infinity /\ G[e[2]] + H(r, e[2]) <= e[1]
  /\ \A k \in K : \A e \in O : G[k] + H(r, k) <= e[1]

(* A closed cell has told its neighbours what it costs to come from there. *)
Told(r, B, G, K) ==
  /\ r.goal \notin K
  /\ \A k \in K : \A n \in Neighbours(r.level, k) :
       MayEnter(r, B, n) => G[n] < Infinity /\ G[n] <= G[k] + StepCost(k, n, B)

Sound(r, B, G, K, P, O) ==
  Tree(r, B, G, K, P) /\ Small(r, G, K) /\ Frontier(r, G, K, O) /\ Told(r, B, G, K)

(* What an entry's cell makes of them. *)
NearerFrom(r, B, G, K, c) ==
  {n \in Neighbours(r.level, c) : MayEnter(r, B, n) /\ n \notin K /\ G[c] + StepCost(c, n, B) < G[n]}

GAfter(r, B, G, K, c) ==
  [n \in Cells[r.level] |-> IF n \in NearerFrom(r, B, G, K, c) THEN G[c] + StepCost(c, n, B) ELSE G[n]]

PAfter(r, B, G, K, P, c) ==
  [n \in Cells[r.level] |-> IF n \in NearerFrom(r, B, G, K, c) THEN c ELSE P[n]]

OAfter(r, B, G, K, O, e) ==
  (O \ {e}) \union
    {<<G[e[2]] + StepCost(e[2], n, B) + H(r, n), n>> : n \in NearerFrom(r, B, G, K, e[2])}

(* The best entry, of a cell that is not closed, says what that costs.     *)
LEMMA BestEntry ==
  ASSUME NEW r \in Requests, NEW B, NEW G, NEW K, NEW P, NEW O, Sound(r, B, G, K, P, O),
         NEW e \in O, \A other \in O : e[1] <= other[1], e[2] \notin K
  PROVE  /\ e[2] \in Cells[r.level] /\ G[e[2]] \in Nat /\ G[e[2]] < Infinity
         /\ H(r, e[2]) \in Nat /\ e[1] = G[e[2]] + H(r, e[2])
         /\ \A k \in K : k \in Cells[r.level] /\ G[k] \in Nat /\ H(r, k) \in Nat
                         /\ G[k] + H(r, k) <= G[e[2]] + H(r, e[2])
<1>1. /\ e[2] \in Cells[r.level] /\ G[e[2]] < Infinity /\ e[1] \in Nat
      /\ G[e[2]] + H(r, e[2]) <= e[1] /\ \A k \in K : G[k] + H(r, k) <= e[1]
  BY DEF Sound, Frontier
<1>2. <<G[e[2]] + H(r, e[2]), e[2]>> \in O
  BY <1>1 DEF Sound, Frontier
<1>3. G \in [Cells[r.level] -> Nat] /\ K \subseteq Cells[r.level]
  BY DEF Sound, Tree
<1>4. \A c \in Cells[r.level] : G[c] \in Nat /\ H(r, c) \in Nat
  BY <1>3, HopeFacts
<1>5. e[1] <= G[e[2]] + H(r, e[2])
  BY <1>2
<1>6. e[1] = G[e[2]] + H(r, e[2])
  BY <1>1, <1>4, <1>5
<1> QED
  BY <1>1, <1>3, <1>4, <1>6

(* What is known of a cell then. *)
IsAfter(r, B, G, K, P, c, n) ==
  /\ GAfter(r, B, G, K, c)[n] \in Nat /\ GAfter(r, B, G, K, c)[n] <= G[n]
  /\ n \in NearerFrom(r, B, G, K, c) =>
       /\ GAfter(r, B, G, K, c)[n] = G[c] + StepCost(c, n, B)
       /\ PAfter(r, B, G, K, P, c)[n] = c
       /\ n \in Neighbours(r.level, c) /\ MayEnter(r, B, n) /\ n \notin K
       /\ n # c /\ n # r.start
  /\ n \notin NearerFrom(r, B, G, K, c) =>
       /\ GAfter(r, B, G, K, c)[n] = G[n]
       /\ PAfter(r, B, G, K, P, c)[n] = P[n]

(* What is closed and what is known after a step. *)
LEMMA AfterFacts ==
  ASSUME NEW r \in Requests, NEW B, NEW G, NEW K, NEW P, NEW O, Sound(r, B, G, K, P, O),
         NEW c \in Cells[r.level], G[c] < Infinity, c \notin K
  PROVE  /\ \A n \in Neighbours(r.level, c) :
              /\ G[c] + StepCost(c, n, B) \in Nat /\ G[c] + StepCost(c, n, B) < Infinity
              /\ G[c] + StepCost(c, n, B) <= Cardinality(K \union {c}) * MaxStep
         /\ Cardinality(K) * MaxStep <= Cardinality(K \union {c}) * MaxStep
         /\ \A n \in Cells[r.level] : IsAfter(r, B, G, K, P, c, n)
<1> DEFINE N == NearerFrom(r, B, G, K, c)
<1>0. Tame(r, B)
  BY DEF Sound, Tree
<1>1. /\ G \in [Cells[r.level] -> Nat] /\ K \subseteq Cells[r.level] /\ G[r.start] = 0
      /\ G[c] \in Nat /\ G[c] <= Cardinality(K) * MaxStep
  BY DEF Sound, Tree, Small
<1>2. /\ IsFiniteSet(K) /\ Cardinality(K) \in Nat
      /\ Cardinality(K \union {c}) = Cardinality(K) + 1
      /\ Cardinality(K \union {c}) <= Cardinality(Cells[r.level])
  <2>1. IsFiniteSet(K)
    BY <1>1, RequestFacts, FS_Subset
  <2>2. K \union {c} \subseteq Cells[r.level]
    BY <1>1
  <2> QED
    BY <2>1, <2>2, RequestFacts, FS_Subset, FS_AddElement, FS_CardinalityType
<1>3. /\ Cardinality(K \union {c}) * MaxStep = Cardinality(K) * MaxStep + MaxStep
      /\ Cardinality(K \union {c}) * MaxStep <= Cardinality(Cells[r.level]) * MaxStep
      /\ Cardinality(K) * MaxStep \in Nat /\ Cardinality(Cells[r.level]) * MaxStep \in Nat
  BY <1>2, RequestFacts DEF MaxStep
<1>4. ASSUME NEW n \in Neighbours(r.level, c)
      PROVE  /\ G[c] + StepCost(c, n, B) \in Nat /\ G[c] + StepCost(c, n, B) < Infinity
             /\ G[c] + StepCost(c, n, B) <= Cardinality(K \union {c}) * MaxStep
             /\ G[c] + StepCost(c, n, B) # 0
  <2>1. StepCost(c, n, B) \in 1..MaxStep
    BY <1>0, HopeIsConsistent
  <2> QED
    BY <2>1, <1>1, <1>3, RequestFacts, InfinityIsNat DEF MaxStep
<1>5. Cardinality(K) * MaxStep <= Cardinality(K \union {c}) * MaxStep
  BY <1>3 DEF MaxStep
<1>6. ASSUME NEW n \in Cells[r.level]
      PROVE  /\ n \in N =>
                  /\ GAfter(r, B, G, K, c)[n] = G[c] + StepCost(c, n, B)
                  /\ PAfter(r, B, G, K, P, c)[n] = c
                  /\ n \in Neighbours(r.level, c) /\ MayEnter(r, B, n) /\ n \notin K
                  /\ G[c] + StepCost(c, n, B) < G[n]
             /\ n \notin N =>
                  /\ GAfter(r, B, G, K, c)[n] = G[n]
                  /\ PAfter(r, B, G, K, P, c)[n] = P[n]
  BY DEF GAfter, PAfter, NearerFrom
<1>7. ASSUME NEW n \in Cells[r.level]
      PROVE  /\ GAfter(r, B, G, K, c)[n] \in Nat /\ GAfter(r, B, G, K, c)[n] <= G[n]
             /\ n \in N => n # c /\ n # r.start
  <2>1. G[n] \in Nat
    BY <1>1
  <2>2. CASE n \in N
    <3>1. n \in Neighbours(r.level, c) /\ G[c] + StepCost(c, n, B) < G[n]
          /\ GAfter(r, B, G, K, c)[n] = G[c] + StepCost(c, n, B)
      BY <2>2, <1>6
    <3>2. n # c
      BY <3>1, <1>0, HopeIsConsistent
    <3> QED
      BY <3>1, <3>2, <2>1, <1>4, <1>1
  <2>3. CASE n \notin N
    BY <2>3, <2>1, <1>6
  <2> QED
    BY <2>2, <2>3
<1>8. \A n \in Cells[r.level] : IsAfter(r, B, G, K, P, c, n)
  BY <1>6, <1>7 DEF IsAfter
<1> QED
  BY <1>4, <1>5, <1>8

(* Closing the cell of the best entry keeps all of it. *)
LEMMA RelaxKeepsSound ==
  ASSUME NEW r \in Requests, NEW B, NEW G, NEW K, NEW P, NEW O, Sound(r, B, G, K, P, O),
         NEW e \in O, \A other \in O : e[1] <= other[1], e[2] \notin K, e[2] # r.goal
  PROVE  Sound(r, B, GAfter(r, B, G, K, e[2]), K \union {e[2]}, PAfter(r, B, G, K, P, e[2]),
               OAfter(r, B, G, K, O, e))
<1> DEFINE c == e[2]
           N == NearerFrom(r, B, G, K, c)
           G2 == GAfter(r, B, G, K, c)
           K2 == K \union {c}
           P2 == PAfter(r, B, G, K, P, c)
           O2 == OAfter(r, B, G, K, O, e)
           L == Cells[r.level]
<1>0. Tame(r, B)
  BY DEF Sound, Tree
<1>1. /\ c \in L /\ G[c] \in Nat /\ G[c] < Infinity
      /\ H(r, c) \in Nat /\ e[1] = G[c] + H(r, c)
      /\ \A k \in K : k \in L /\ G[k] \in Nat /\ H(r, k) \in Nat /\ G[k] + H(r, k) <= G[c] + H(r, c)
  BY BestEntry
<1>2. /\ \A n \in Neighbours(r.level, c) :
           /\ G[c] + StepCost(c, n, B) \in Nat /\ G[c] + StepCost(c, n, B) < Infinity
           /\ G[c] + StepCost(c, n, B) <= Cardinality(K2) * MaxStep
      /\ Cardinality(K) * MaxStep <= Cardinality(K2) * MaxStep
      /\ \A n \in L :
           /\ G2[n] \in Nat /\ G2[n] <= G[n]
           /\ n \in N => /\ G2[n] = G[c] + StepCost(c, n, B) /\ P2[n] = c
                         /\ n \in Neighbours(r.level, c) /\ MayEnter(r, B, n) /\ n \notin K
                         /\ n # c /\ n # r.start
           /\ n \notin N => G2[n] = G[n] /\ P2[n] = P[n]
  <2>1. c \in Cells[r.level] /\ G[c] < Infinity /\ c \notin K
    BY <1>1
  <2> HIDE DEF c
  <2>2. /\ \A n \in Neighbours(r.level, c) :
             /\ G[c] + StepCost(c, n, B) \in Nat /\ G[c] + StepCost(c, n, B) < Infinity
             /\ G[c] + StepCost(c, n, B) <= Cardinality(K2) * MaxStep
        /\ Cardinality(K) * MaxStep <= Cardinality(K2) * MaxStep
    BY <2>1, AfterFacts
  <2>3. ASSUME NEW n \in L
        PROVE  /\ G2[n] \in Nat /\ G2[n] <= G[n]
               /\ n \in N => /\ G2[n] = G[c] + StepCost(c, n, B) /\ P2[n] = c
                             /\ n \in Neighbours(r.level, c) /\ MayEnter(r, B, n) /\ n \notin K
                             /\ n # c /\ n # r.start
               /\ n \notin N => G2[n] = G[n] /\ P2[n] = P[n]
    <3>1. IsAfter(r, B, G, K, P, c, n)
      BY <2>1, AfterFacts
    <3> QED
      BY <3>1 DEF IsAfter
  <2> HIDE DEF N, G2, K2, P2, L
  <2> QED
    BY <2>2, <2>3
<1>3. \A n \in Neighbours(r.level, c) :
        /\ n \in L /\ H(r, n) \in Nat /\ StepCost(c, n, B) \in 1..MaxStep
        /\ H(r, c) <= StepCost(c, n, B) + H(r, n)
  BY <1>1, <1>0, HopeIsConsistent
<1>4. /\ \A n \in N : n \in L
      /\ G2 \in [L -> Nat]
      /\ K2 \subseteq L /\ K \subseteq K2 /\ c \in K2
      /\ \A k \in K2 : k \in K \/ k = c
      /\ \A x \in L : (x \in Neighbours(r.level, c) /\ MayEnter(r, B, x) /\ x \notin K) =>
           x \in N \/ ~(G[c] + StepCost(c, x, B) < G[x])
      /\ \A x \in O2 : (x \in O /\ x # e) \/ \E n \in N : x = <<G[c] + StepCost(c, n, B) + H(r, n), n>>
      /\ \A x \in O : x # e => x \in O2
      /\ \A n \in N : <<G[c] + StepCost(c, n, B) + H(r, n), n>> \in O2
  <2>1. \A n \in N : n \in L
    BY DEF NearerFrom, Neighbours
  <2>2. G2 \in [L -> Nat]
    <3>1. G2 = [n \in L |-> G2[n]]
      BY DEF GAfter
    <3>2. \A n \in L : G2[n] \in Nat
      BY <1>2
    <3> HIDE DEF G2
    <3> QED
      BY <3>1, <3>2, Zenon
  <2>3. K \subseteq L
    BY DEF Sound, Tree
  <2> QED
    BY <2>1, <2>2, <2>3, <1>1 DEF NearerFrom, OAfter
<1>5. /\ G \in [L -> Nat] /\ K \subseteq L /\ G[r.start] = 0 /\ P[r.start] = Nothing
      /\ \A x \in L : G[x] \in Nat /\ G[x] <= Infinity
      /\ \A x \in K : G[x] < Infinity
      /\ \A x \in L : G[x] < Infinity /\ x # r.start =>
           /\ P[x] \in K /\ x \in Neighbours(r.level, P[x]) /\ MayEnter(r, B, x)
           /\ G[x] = G[P[x]] + StepCost(P[x], x, B)
  BY DEF Sound, Tree
<1> HIDE DEF c, N, G2, K2, P2, O2, L
<1>6. Tree(r, B, G2, K2, P2)
  <2>1. r.start \in L
    BY RequestFacts DEF L
  <2>2. G2[r.start] = 0 /\ P2[r.start] = Nothing
    BY <2>1, <1>2, <1>5
  <2>3. \A x \in L : G2[x] <= Infinity
    BY <1>2, <1>5, InfinityIsNat
  <2>4. \A x \in K2 : G2[x] < Infinity
    BY <1>1, <1>2, <1>4, <1>5, InfinityIsNat
  <2>5. ASSUME NEW x \in L, G2[x] < Infinity, x # r.start
        PROVE  /\ P2[x] \in K2 /\ x \in Neighbours(r.level, P2[x]) /\ MayEnter(r, B, x)
               /\ G2[x] = G2[P2[x]] + StepCost(P2[x], x, B)
    <3>1. CASE x \in N
      <4>1. P2[x] = c /\ G2[x] = G[c] + StepCost(c, x, B) /\ x \in Neighbours(r.level, c) /\ MayEnter(r, B, x)
        BY <3>1, <2>5, <1>2
      <4>2. G2[c] = G[c]
        BY <1>1, <1>2
      <4> QED
        BY <4>1, <4>2, <1>4
    <3>2. CASE x \notin N
      <4>1. P2[x] = P[x] /\ G2[x] = G[x]
        BY <3>2, <2>5, <1>2
      <4>2. /\ P[x] \in K /\ x \in Neighbours(r.level, P[x]) /\ MayEnter(r, B, x)
            /\ G[x] = G[P[x]] + StepCost(P[x], x, B)
        BY <4>1, <2>5, <1>5
      <4>3. P[x] \in L /\ P[x] \notin N
        BY <4>2, <1>1, <1>2
      <4>4. G2[P[x]] = G[P[x]]
        BY <4>3, <1>2
      <4> QED
        BY <4>1, <4>2, <4>4, <1>4
    <3> QED
      BY <3>1, <3>2
  <2> QED
    BY <2>2, <2>3, <2>4, <2>5, <1>0, <1>4 DEF Tree, L
<1>7. Small(r, G2, K2)
  <2> SUFFICES ASSUME NEW x \in L, G2[x] < Infinity
               PROVE  G2[x] <= Cardinality(K2) * MaxStep
    BY DEF Small, L
  <2>1. CASE x \in N
    BY <2>1, <1>2
  <2>2. CASE x \notin N
    <3>1. G2[x] = G[x] /\ G[x] \in Nat /\ G[x] <= Cardinality(K) * MaxStep
      BY <2>2, <1>2, <1>5 DEF Sound, Small, L
    <3>2. IsFiniteSet(K) /\ IsFiniteSet(K2)
      BY <1>4, <1>5, RequestFacts, FS_Subset DEF L
    <3>3. Cardinality(K) \in Nat /\ Cardinality(K2) \in Nat
      BY <3>2, FS_CardinalityType
    <3> QED
      BY <3>1, <3>3, <1>2 DEF MaxStep
  <2> QED
    BY <2>1, <2>2
<1>8. Frontier(r, G2, K2, O2)
  <2>1. ASSUME NEW x \in O2
        PROVE  /\ x = <<x[1], x[2]>> /\ x[1] \in Nat /\ x[2] \in L
               /\ G2[x[2]] < Infinity /\ G2[x[2]] + H(r, x[2]) <= x[1]
               /\ G[c] + H(r, c) <= x[1]
    <3>1. CASE x \in O
      <4>1. /\ x = <<x[1], x[2]>> /\ x[1] \in Nat /\ x[2] \in L
            /\ G[x[2]] < Infinity /\ G[x[2]] + H(r, x[2]) <= x[1]
        BY <3>1 DEF Sound, Frontier, L
      <4>2. H(r, x[2]) \in Nat
        BY <4>1, HopeFacts DEF L
      <4>3. e[1] <= x[1]
        BY <3>1
      <4>4. G2[x[2]] <= G[x[2]] /\ G2[x[2]] \in Nat /\ G[x[2]] \in Nat
        BY <4>1, <1>2, <1>5
      <4> QED
        BY <4>1, <4>2, <4>3, <4>4, <1>1, InfinityIsNat
    <3>2. CASE \E n \in N : x = <<G[c] + StepCost(c, n, B) + H(r, n), n>>
      <4>1. PICK n \in N : x = <<G[c] + StepCost(c, n, B) + H(r, n), n>>
        BY <3>2
      <4>2. x[1] = G[c] + StepCost(c, n, B) + H(r, n) /\ x[2] = n
        BY <4>1
      <4>3. n \in L /\ n \in Neighbours(r.level, c) /\ G2[n] = G[c] + StepCost(c, n, B)
        BY <1>2, <1>4
      <4>4. /\ H(r, n) \in Nat /\ StepCost(c, n, B) \in Nat /\ H(r, c) <= StepCost(c, n, B) + H(r, n)
            /\ G[c] + StepCost(c, n, B) < Infinity
        BY <4>3, <1>2, <1>3 DEF MaxStep
      <4> QED
        BY <4>1, <4>2, <4>3, <4>4, <1>1
    <3> QED
      BY <3>1, <3>2, <1>4
  <2>2. ASSUME NEW x \in L, G2[x] < Infinity, x \notin K2
        PROVE  <<G2[x] + H(r, x), x>> \in O2
    <3>1. CASE x \in N
      BY <3>1, <1>2, <1>4
    <3>2. CASE x \notin N
      <4>1. G2[x] = G[x] /\ x \notin K /\ x # c
        BY <3>2, <2>2, <1>2, <1>4
      <4>2. <<G[x] + H(r, x), x>> \in O
        BY <4>1, <2>2 DEF Sound, Frontier, L
      <4>3. <<G[x] + H(r, x), x>> # e
        BY <4>1 DEF c
      <4> QED
        BY <4>1, <4>2, <4>3, <1>4
    <3> QED
      BY <3>1, <3>2
  <2>3. ASSUME NEW k \in K2, NEW x \in O2
        PROVE  G2[k] + H(r, k) <= x[1]
    <3>1. k \in L /\ G2[k] = G[k] /\ G[k] \in Nat /\ H(r, k) \in Nat
      BY <1>1, <1>2, <1>4
    <3>2. G[k] + H(r, k) <= G[c] + H(r, c)
      BY <1>1, <1>4
    <3>3. G[c] + H(r, c) <= x[1] /\ x[1] \in Nat
      BY <2>1
    <3> QED
      BY <3>1, <3>2, <3>3, <1>1
  <2> QED
    BY <2>1, <2>2, <2>3 DEF Frontier, L
<1>9. Told(r, B, G2, K2)
  <2>1. r.goal \notin K2
    <3>1. r.goal \notin K
      BY DEF Sound, Told
    <3> QED
      BY <3>1 DEF K2, c
  <2>2. ASSUME NEW k \in K2, NEW n \in Neighbours(r.level, k), MayEnter(r, B, n)
        PROVE  G2[n] < Infinity /\ G2[n] <= G2[k] + StepCost(k, n, B)
    <3>1. k \in L /\ G2[k] = G[k] /\ G[k] \in Nat
      BY <1>1, <1>2, <1>4
    <3>2. /\ n \in L /\ StepCost(k, n, B) \in Nat /\ H(r, k) \in Nat /\ H(r, n) \in Nat
          /\ H(r, k) <= StepCost(k, n, B) + H(r, n)
      BY <3>1, <1>0, HopeIsConsistent DEF L, MaxStep
    <3>3. G2[n] \in Nat /\ G2[n] <= G[n] /\ G[n] \in Nat
      BY <3>2, <1>2, <1>5
    <3>4. CASE k \in K
      <4>1. G[n] < Infinity /\ G[n] <= G[k] + StepCost(k, n, B)
        BY <3>4, <2>2 DEF Sound, Told
      <4> QED
        BY <4>1, <3>1, <3>2, <3>3, InfinityIsNat
    <3>5. CASE k = c /\ n \in K
      <4>1. G[n] < Infinity /\ G[n] + H(r, n) <= G[c] + H(r, c)
        BY <3>5, <1>1, <1>5
      <4> QED
        BY <4>1, <3>1, <3>2, <3>3, <3>5, InfinityIsNat
    <3>6. CASE k = c /\ n \notin K
      <4>1. n \in Neighbours(r.level, c)
        BY <3>6, <2>2
      <4>2. n \in N \/ ~(G[c] + StepCost(c, n, B) < G[n])
        BY <3>2, <3>6, <4>1, <2>2, <1>4
      <4>3. G[c] + StepCost(c, n, B) < Infinity
        BY <4>1, <1>2
      <4>4. n \in N => G2[n] = G[c] + StepCost(c, n, B)
        BY <3>2, <1>2
      <4>5. StepCost(c, n, B) \in Nat
        BY <3>2, <3>6
      <4>6. n \notin N => G[n] <= G[c] + StepCost(c, n, B)
        BY <4>2, <4>5, <3>3, <1>1
      <4> QED
        BY <4>3, <4>4, <4>5, <4>6, <3>1, <3>3, <3>6, <1>1, InfinityIsNat
    <3> QED
      BY <3>4, <3>5, <3>6, <1>4
  <2> QED
    BY <2>1, <2>2 DEF Told
<1> QED
  BY <1>6, <1>7, <1>8, <1>9 DEF Sound, c, G2, K2, P2, O2

(* So does taking an entry off whose cell is closed. *)
LEMMA DropKeepsSound ==
  ASSUME NEW r \in Requests, NEW B, NEW G, NEW K, NEW P, NEW O, Sound(r, B, G, K, P, O),
         NEW e \in O, e[2] \in K
  PROVE  Sound(r, B, G, K, P, O \ {e})
<1>1. Frontier(r, G, K, O \ {e})
  <2>1. ASSUME NEW c \in Cells[r.level], G[c] < Infinity, c \notin K
        PROVE  <<G[c] + H(r, c), c>> \in O \ {e}
    <3>1. <<G[c] + H(r, c), c>> \in O
      BY <2>1 DEF Sound, Frontier
    <3> QED
      BY <3>1, <2>1
  <2> QED
    BY <2>1 DEF Sound, Frontier
<1> QED
  BY <1>1 DEF Sound

(* At the beginning only the start is known. *)
LEMMA SoundAtFirst ==
  ASSUME NEW r \in Requests, NEW B, Tame(r, B), NEW G, NEW P, G \in [Cells[r.level] -> Nat],
         G[r.start] = 0, P[r.start] = Nothing, \A c \in Cells[r.level] : c # r.start => G[c] = Infinity
  PROVE  Sound(r, B, G, {}, P, {<<DiagonalShortcut(r.start, r.goal), r.start>>})
<1>1. r.start \in Cells[r.level] /\ H(r, r.start) = DiagonalShortcut(r.start, r.goal) /\ H(r, r.start) \in Nat
  BY RequestFacts, HopeFacts DEF H
<1>2. \A c \in Cells[r.level] : G[c] < Infinity <=> c = r.start
  BY <1>1, InfinityIsNat DEF Infinity
<1>3. Tree(r, B, G, {}, P)
  BY <1>1, <1>2, InfinityIsNat DEF Tree
<1>4. Small(r, G, {})
  <2>1. Cardinality({}) = 0
    BY FS_EmptySet
  <2> QED
    BY <1>2, <2>1 DEF Small, MaxStep
<1>5. Frontier(r, G, {}, {<<H(r, r.start), r.start>>})
  BY <1>1, <1>2 DEF Frontier
<1>6. Told(r, B, G, {})
  BY DEF Told
<1> QED
  BY <1>1, <1>3, <1>4, <1>5, <1>6 DEF Sound

-----------------------------------------------------------------------------
(* The reference. *)

(* Ways end at cells of the level and cost a number. *)
LEMMA OnwardStays ==
  ASSUME NEW r \in Requests, NEW B, Tame(r, B), NEW W \in SUBSET (Cells[r.level] \X Nat)
  PROVE  Onward(W, r, B) \in SUBSET (Cells[r.level] \X Nat)
<1>1. ASSUME NEW way \in W, NEW n \in Neighbours(r.level, way[1])
      PROVE  <<n, way[2] + StepCost(way[1], n, B)>> \in Cells[r.level] \X Nat
  <2>1. way[1] \in Cells[r.level] /\ way[2] \in Nat
    OBVIOUS
  <2>2. n \in Cells[r.level] /\ StepCost(way[1], n, B) \in Nat
    BY <2>1, HopeIsConsistent DEF MaxStep
  <2>3. way[2] + StepCost(way[1], n, B) \in Nat
    BY <2>1, <2>2
  <2> QED
    BY <2>2, <2>3
<1> QED
  BY <1>1 DEF Onward

(* Of the ways to a cell the cheapest is left, and no other. *)
LEMMA CheapestStays ==
  ASSUME NEW r \in Requests, NEW W \in SUBSET (Cells[r.level] \X Nat)
  PROVE  /\ CheapestOf(W) \subseteq W
         /\ \A w \in W : \E v \in CheapestOf(W) : v[1] = w[1] /\ v[2] <= w[2]
         /\ \A v \in CheapestOf(W) : \A w \in CheapestOf(W) : v[1] = w[1] => v = w
<1>1. ASSUME NEW w \in W
      PROVE  /\ w = <<w[1], w[2]>> /\ w[1] \in Cells[r.level] /\ w[2] \in Nat
             /\ CostsAt(W, w[1]) \in SUBSET Nat /\ w[2] \in CostsAt(W, w[1])
  BY DEF CostsAt
<1>2. ASSUME NEW w \in W
      PROVE  /\ Min(CostsAt(W, w[1])) \in CostsAt(W, w[1])
             /\ Min(CostsAt(W, w[1])) <= w[2]
             /\ <<w[1], Min(CostsAt(W, w[1]))>> \in W
  <2>1. CostsAt(W, w[1]) \in SUBSET Nat /\ w[2] \in CostsAt(W, w[1])
    BY <1>1
  <2>2. Min(CostsAt(W, w[1])) \in CostsAt(W, w[1]) /\ Min(CostsAt(W, w[1])) <= w[2]
    BY <2>1, MinIsLeast
  <2>3. PICK x \in W : x[1] = w[1] /\ x[2] = Min(CostsAt(W, w[1]))
    BY <2>2 DEF CostsAt
  <2>4. x = <<x[1], x[2]>>
    BY <1>1
  <2> QED
    BY <2>2, <2>3, <2>4
<1>3. \A v \in CheapestOf(W) : \E w \in W : v = <<w[1], Min(CostsAt(W, w[1]))>>
  BY DEF CheapestOf
<1>4. \A w \in W : <<w[1], Min(CostsAt(W, w[1]))>> \in CheapestOf(W)
  BY DEF CheapestOf
<1>5. CheapestOf(W) \subseteq W
  BY <1>2, <1>3
<1>6. ASSUME NEW w \in W
      PROVE  \E v \in CheapestOf(W) : v[1] = w[1] /\ v[2] <= w[2]
  BY <1>2, <1>4
<1>7. ASSUME NEW v \in CheapestOf(W), NEW w \in CheapestOf(W), v[1] = w[1]
      PROVE  v = w
  <2>1. v = <<v[1], Min(CostsAt(W, v[1]))>>
    BY <1>3
  <2>2. w = <<w[1], Min(CostsAt(W, w[1]))>>
    BY <1>3
  <2> QED
    BY <2>1, <2>2, <1>7
<1> QED
  BY <1>5, <1>6, <1>7

(* Ways of at most k steps, k by k. *)
IsUpTo(u, r, B) ==
  /\ u[0] = {<<r.start, 0>>}
  /\ \A k \in 1..Cardinality(Cells[r.level]) : u[k] = CheapestOf(Onward(u[k - 1], r, B))
  /\ \A k \in 0..Cardinality(Cells[r.level]) : u[k] \in SUBSET (Cells[r.level] \X Nat)

LEMMA WaysByLength ==
  ASSUME NEW r \in Requests, NEW B, Tame(r, B)
  PROVE  \E u : IsUpTo(u, r, B) /\ Ways(r, B) = u[Cardinality(Cells[r.level])]
<1> DEFINE n == Cardinality(Cells[r.level])
           D == SUBSET (Cells[r.level] \X Nat)
           Body(f) == [k \in 0..n |-> IF k = 0 THEN {<<r.start, 0>>} ELSE CheapestOf(Onward(f[k - 1], r, B))]
           u == CHOOSE f : f = Body(f)
           step == [p \in D \X (1..n) |-> CheapestOf(Onward(p[1], r, B))]
<1>1. n \in Nat
  BY RequestFacts
<1>2. {<<r.start, 0>>} \in D
  BY RequestFacts
<1>3. \A W \in D : CheapestOf(Onward(W, r, B)) \in D
  <2> TAKE W \in D
  <2>1. Onward(W, r, B) \in D
    BY OnwardStays
  <2>2. CheapestOf(Onward(W, r, B)) \subseteq Onward(W, r, B)
    BY <2>1, CheapestStays
  <2> QED
    BY <2>1, <2>2
<1>4. step \in [D \X (1..n) -> D]
  BY <1>3
<1>5. PICK f \in [0..n -> D] : f[0] = {<<r.start, 0>>} /\ \A k \in 1..n : f[k] = step[<<f[k - 1], k>>]
  <2> HIDE DEF n, D, step
  <2>1. \E f : Follows(f, n, D, {<<r.start, 0>>}, step)
    BY <1>1, <1>2, <1>4, StepByStep DEF Leads
  <2> QED
    BY <2>1 DEF Follows
<1>6. f = Body(f)
  <2>1. ASSUME NEW k \in 0..n
        PROVE  f[k] = IF k = 0 THEN {<<r.start, 0>>} ELSE CheapestOf(Onward(f[k - 1], r, B))
    <3>1. CASE k = 0
      BY <3>1, <1>5
    <3>2. CASE k # 0
      <4>1. k \in 1..n /\ k - 1 \in 0..n
        BY <1>1, <3>2
      <4>2. f[k - 1] \in D
        BY <4>1, <1>5
      <4>3. <<f[k - 1], k>> \in D \X (1..n)
        BY <4>1, <4>2
      <4>4. step[<<f[k - 1], k>>] = CheapestOf(Onward(f[k - 1], r, B))
        BY <4>3
      <4> QED
        BY <4>1, <4>4, <1>5, <3>2
    <3> QED
      BY <3>1, <3>2
  <2>2. f = [k \in 0..n |-> f[k]]
    BY <1>5
  <2> QED
    BY <2>1, <2>2
<1>7. u = Body(u)
  BY <1>6
<1>8. Ways(r, B) = u[n]
  BY DEF Ways
<1>9. u[0] = {<<r.start, 0>>} /\ \A k \in 1..n : u[k] = CheapestOf(Onward(u[k - 1], r, B))
  <2>1. \A k \in 0..n : u[k] = IF k = 0 THEN {<<r.start, 0>>} ELSE CheapestOf(Onward(u[k - 1], r, B))
    <3> HIDE DEF u, n
    <3> QED
      BY <1>7
  <2>2. 0 \in 0..n /\ \A k \in 1..n : k \in 0..n /\ k # 0
    BY <1>1
  <2> HIDE DEF u, n
  <2> QED
    BY <2>1, <2>2
<1>10. \A k \in 0..n : u[k] \in D
  <2> DEFINE T == {k \in 0..n : u[k] \in D}
  <2>1. 0 \in T
    BY <1>1, <1>2, <1>9
  <2>2. \A k \in 1..n : k - 1 \in T => k \in T
    <3> HIDE DEF u
    <3> TAKE k \in 1..n
    <3>1. k \in 0..n
      BY <1>1
    <3>2. k - 1 \in T => u[k - 1] \in D
      OBVIOUS
    <3> QED
      BY <3>1, <3>2, <1>3, <1>9
  <2>3. \A k \in 0..n : k \in T
    <3> HIDE DEF T
    <3> QED
      BY <1>1, <2>1, <2>2, UpTo
  <2> QED
    BY <2>3
<1> QED
  BY <1>8, <1>9, <1>10 DEF IsUpTo


(* What a step more makes of the ways. *)
LEMMA OneStepMore ==
  ASSUME NEW r \in Requests, NEW B, Tame(r, B), NEW u, IsUpTo(u, r, B), NEW k \in 1..Cardinality(Cells[r.level])
  PROVE  /\ \A w \in u[k] :
              \/ w \in u[k - 1]
              \/ \E way \in u[k - 1] : \E n \in Neighbours(r.level, way[1]) :
                   MayEnter(r, B, n) /\ w = <<n, way[2] + StepCost(way[1], n, B)>>
         /\ \A w \in u[k - 1] : \E v \in u[k] : v[1] = w[1] /\ v[2] <= w[2]
         /\ \A w \in u[k - 1] : \A n \in Neighbours(r.level, w[1]) :
              MayEnter(r, B, n) => \E v \in u[k] : v[1] = n /\ v[2] <= w[2] + StepCost(w[1], n, B)
         /\ \A v \in u[k] : \A w \in u[k] : v[1] = w[1] => v = w
<1> DEFINE W == u[k - 1]
           All == Onward(W, r, B)
<1>1. W \in SUBSET (Cells[r.level] \X Nat)
  <2>1. k - 1 \in 0..Cardinality(Cells[r.level])
    BY RequestFacts
  <2> QED
    BY <2>1 DEF IsUpTo
<1>2. All \in SUBSET (Cells[r.level] \X Nat)
  BY <1>1, OnwardStays
<1>3. u[k] = CheapestOf(All)
  BY DEF IsUpTo
<1>4. /\ CheapestOf(All) \subseteq All
      /\ \A w \in All : \E v \in CheapestOf(All) : v[1] = w[1] /\ v[2] <= w[2]
      /\ \A v \in CheapestOf(All) : \A w \in CheapestOf(All) : v[1] = w[1] => v = w
  <2> HIDE DEF All
  <2> QED
    BY <1>2, CheapestStays
<1>5. /\ \A w \in All : \/ w \in W
                        \/ \E way \in W : \E n \in Neighbours(r.level, way[1]) :
                             MayEnter(r, B, n) /\ w = <<n, way[2] + StepCost(way[1], n, B)>>
      /\ W \subseteq All
      /\ \A w \in W : \A n \in Neighbours(r.level, w[1]) :
           MayEnter(r, B, n) => <<n, w[2] + StepCost(w[1], n, B)>> \in All
  BY DEF Onward
<1> HIDE DEF All, W
<1>6. ASSUME NEW w \in W, NEW n \in Neighbours(r.level, w[1]), MayEnter(r, B, n)
      PROVE  \E v \in u[k] : v[1] = n /\ v[2] <= w[2] + StepCost(w[1], n, B)
  <2> DEFINE x == <<n, w[2] + StepCost(w[1], n, B)>>
  <2>1. x \in All
    BY <1>5, <1>6
  <2>2. x[1] = n /\ x[2] = w[2] + StepCost(w[1], n, B)
    OBVIOUS
  <2> HIDE DEF x
  <2> QED
    BY <2>1, <2>2, <1>3, <1>4
<1> QED
  BY <1>3, <1>4, <1>5, <1>6 DEF W

(* All that is open may at best hope for D. *)
NotNearer(r, G, K, D) ==
  \A c \in Cells[r.level] : G[c] < Infinity /\ c \notin K => D <= G[c] + H(r, c)

(* A way ends where it costs no less than is known, or leaves no less than *)
(* D to hope for.                                                          *)
AtLeast(w, r, G, K, D) == (w[1] \in K /\ G[w[1]] <= w[2]) \/ D <= w[2] + H(r, w[1])

LEMMA OnwardIsAtLeast ==
  ASSUME NEW r \in Requests, NEW B, NEW G, NEW K, NEW P, NEW O, Sound(r, B, G, K, P, O),
         NEW D \in Nat, NotNearer(r, G, K, D),
         NEW c \in Cells[r.level], NEW m \in Nat, AtLeast(<<c, m>>, r, G, K, D),
         NEW n \in Neighbours(r.level, c), MayEnter(r, B, n)
  PROVE  AtLeast(<<n, m + StepCost(c, n, B)>>, r, G, K, D)
<1>0. Tame(r, B)
  BY DEF Sound, Tree
<1>1. /\ n \in Cells[r.level] /\ H(r, c) \in Nat /\ H(r, n) \in Nat /\ StepCost(c, n, B) \in Nat
      /\ H(r, c) <= StepCost(c, n, B) + H(r, n)
  BY <1>0, HopeIsConsistent DEF MaxStep
<1>2. G[c] \in Nat /\ G[n] \in Nat
  BY <1>1 DEF Sound, Tree
<1>3. CASE c \in K /\ G[c] <= m
  <2>1. G[n] < Infinity /\ G[n] <= G[c] + StepCost(c, n, B)
    BY <1>3 DEF Sound, Told
  <2>2. G[n] <= m + StepCost(c, n, B)
    BY <1>1, <1>2, <1>3, <2>1
  <2>3. n \notin K => D <= G[n] + H(r, n)
    BY <1>1, <2>1 DEF NotNearer
  <2> QED
    BY <1>1, <1>2, <2>2, <2>3 DEF AtLeast
<1>4. CASE D <= m + H(r, c)
  <2>1. D <= m + StepCost(c, n, B) + H(r, n)
    BY <1>1, <1>4
  <2> QED
    BY <2>1 DEF AtLeast
<1> QED
  BY <1>3, <1>4 DEF AtLeast

LEMMA WaysAreAtLeast ==
  ASSUME NEW r \in Requests, NEW B, NEW G, NEW K, NEW P, NEW O, Sound(r, B, G, K, P, O),
         NEW D \in Nat, NotNearer(r, G, K, D), NEW u, IsUpTo(u, r, B)
  PROVE  \A k \in 0..Cardinality(Cells[r.level]) : \A w \in u[k] : AtLeast(w, r, G, K, D)
<1> DEFINE n == Cardinality(Cells[r.level])
           T == {k \in 0..n : \A w \in u[k] : AtLeast(w, r, G, K, D)}
<1>0. Tame(r, B)
  BY DEF Sound, Tree
<1>1. n \in Nat
  BY RequestFacts
<1>2. 0 \in T
  <2>1. r.start \in Cells[r.level] /\ G[r.start] = 0 /\ H(r, r.start) \in Nat
    BY RequestFacts, HopeFacts DEF Sound, Tree
  <2>2. 0 < Infinity
    BY DEF Infinity
  <2>3. r.start \notin K => D <= H(r, r.start)
    BY <2>1, <2>2 DEF NotNearer
  <2>4. AtLeast(<<r.start, 0>>, r, G, K, D)
    BY <2>1, <2>3 DEF AtLeast
  <2>5. u[0] = {<<r.start, 0>>}
    BY DEF IsUpTo
  <2> QED
    BY <1>1, <2>4, <2>5
<1>3. ASSUME NEW k \in 1..n, k - 1 \in T
      PROVE  k \in T
  <2>1. k - 1 \in 0..n /\ k \in 0..n
    BY <1>1
  <2>2. u[k - 1] \in SUBSET (Cells[r.level] \X Nat) /\ \A w \in u[k - 1] : AtLeast(w, r, G, K, D)
    BY <1>3, <2>1 DEF IsUpTo
  <2>3. ASSUME NEW w \in u[k]
        PROVE  AtLeast(w, r, G, K, D)
    <3>1. CASE w \in u[k - 1]
      BY <2>2, <3>1
    <3>2. CASE \E way \in u[k - 1] : \E m \in Neighbours(r.level, way[1]) :
                 MayEnter(r, B, m) /\ w = <<m, way[2] + StepCost(way[1], m, B)>>
      <4>1. PICK way \in u[k - 1] : \E m \in Neighbours(r.level, way[1]) :
                 MayEnter(r, B, m) /\ w = <<m, way[2] + StepCost(way[1], m, B)>>
        BY <3>2
      <4>2. PICK m \in Neighbours(r.level, way[1]) :
                 MayEnter(r, B, m) /\ w = <<m, way[2] + StepCost(way[1], m, B)>>
        BY <4>1
      <4>3. way[1] \in Cells[r.level] /\ way[2] \in Nat /\ way = <<way[1], way[2]>>
        BY <2>2
      <4>4. AtLeast(<<way[1], way[2]>>, r, G, K, D)
        BY <2>2, <4>3
      <4> QED
        BY <4>2, <4>3, <4>4, OnwardIsAtLeast
    <3> QED
      BY <3>1, <3>2, <1>0, OneStepMore
  <2> QED
    BY <2>1, <2>3
<1>4. \A k \in 0..n : k \in T
  <2> HIDE DEF T
  <2> QED
    BY <1>1, <1>2, <1>3, UpTo
<1> QED
  BY <1>4

(* So no way to the goal costs less than D. *)
LEMMA NoWayIsCheaper ==
  ASSUME NEW r \in Requests, NEW B, NEW G, NEW K, NEW P, NEW O, Sound(r, B, G, K, P, O),
         NEW D \in Nat, NotNearer(r, G, K, D)
  PROVE  \A m \in Cheapest(r, B) : m \in Nat /\ D <= m
<1> DEFINE n == Cardinality(Cells[r.level])
<1>0. Tame(r, B)
  BY DEF Sound, Tree
<1>1. PICK u : IsUpTo(u, r, B) /\ Ways(r, B) = u[n]
  BY <1>0, WaysByLength
<1>2. n \in 0..n
  BY RequestFacts
<1>3. u[n] \in SUBSET (Cells[r.level] \X Nat)
  BY <1>1, <1>2 DEF IsUpTo
<1>4. \A w \in u[n] : AtLeast(w, r, G, K, D)
  BY <1>1, <1>2, WaysAreAtLeast
<1>5. r.goal \notin K /\ H(r, r.goal) = 0
  BY RequestFacts, HopeFacts DEF Sound, Told
<1>6. ASSUME NEW m \in Cheapest(r, B)
      PROVE  m \in Nat /\ D <= m
  <2>1. PICK w \in u[n] : w[1] = r.goal /\ w[2] = m
    BY <1>1 DEF Cheapest, CostsAt
  <2>2. m \in Nat
    BY <1>3, <2>1
  <2>3. D <= w[2] + H(r, w[1])
    BY <1>4, <1>5, <2>1 DEF AtLeast
  <2> QED
    BY <1>5, <2>1, <2>2, <2>3
<1> QED
  BY <1>6

(* When nothing is open, there is no way. *)
LEMMA NothingOpenNoWay ==
  ASSUME NEW r \in Requests, NEW B, NEW G, NEW K, NEW P, Sound(r, B, G, K, P, {})
  PROVE  Cheapest(r, B) = {}
<1>1. \A D \in Nat : NotNearer(r, G, K, D)
  BY DEF Sound, Frontier, NotNearer
<1>2. \A D \in Nat : \A m \in Cheapest(r, B) : m \in Nat /\ D <= m
  BY <1>1, NoWayIsCheaper
<1>3. ASSUME NEW m \in Cheapest(r, B)
      PROVE  FALSE
  <2>1. m \in Nat
    BY <1>2, <1>3
  <2>2. m + 1 \in Nat
    BY <2>1
  <2>3. m + 1 <= m
    BY <1>2, <2>2
  <2> QED
    BY <2>1, <2>3
<1> QED
  BY <1>3


-----------------------------------------------------------------------------
(* The answer. *)

(* A trail to the goal, each of its steps known. *)
Trail(p, r, B, G) ==
  /\ p \in Seq(Cells[r.level]) /\ Len(p) >= 1 /\ p[Len(p)] = r.goal
  /\ \A i \in 1..Len(p) : G[p[i]] < Infinity
  /\ \A i \in 2..Len(p) :
       /\ p[i] \in Neighbours(r.level, p[i - 1]) /\ MayEnter(r, B, p[i])
       /\ G[p[i]] = G[p[i - 1]] + StepCost(p[i - 1], p[i], B)

(* A trail of a known cell, which is not the start, goes back to a parent. *)
LEMMA TrailGoesBack ==
  ASSUME NEW r \in Requests, NEW B, NEW G, NEW K, NEW P, Tree(r, B, G, K, P),
         NEW p, Trail(p, r, B, G), p[1] # r.start
  PROVE  /\ P[p[1]] # Nothing
         /\ Trail(<<P[p[1]]>> \o p, r, B, G)
         /\ Len(<<P[p[1]]>> \o p) = Len(p) + 1
<1> DEFINE x == P[p[1]]
           q == <<x>> \o p
<1>1. p \in Seq(Cells[r.level]) /\ Len(p) \in Nat /\ Len(p) >= 1 /\ 1 \in 1..Len(p)
  BY DEF Trail
<1>2. p[1] \in Cells[r.level] /\ G[p[1]] < Infinity
  BY <1>1 DEF Trail
<1>3. /\ x \in K /\ p[1] \in Neighbours(r.level, x) /\ MayEnter(r, B, p[1])
      /\ G[p[1]] = G[x] + StepCost(x, p[1], B) /\ x \in Cells[r.level] /\ G[x] < Infinity
  BY <1>2 DEF Tree
<1>4. x # Nothing
  BY <1>3, RequestFacts
<1>5. /\ q \in Seq(Cells[r.level]) /\ Len(q) = Len(p) + 1
      /\ q[1] = x /\ \A i \in 2..Len(q) : q[i] = p[i - 1] /\ i - 1 \in 1..Len(p)
  <2>1. x \in Cells[r.level]
    BY <1>3
  <2> HIDE DEF x
  <2> DEFINE S == Cells[r.level]
  <2>2. <<x>> \in Seq(S)
    <3>1. x \in S
      BY <2>1
    <3> HIDE DEF S
    <3> QED
      BY <3>1
  <2> QED
    BY <1>1, <2>2
<1> HIDE DEF q, x
<1>6. q[Len(q)] = r.goal
  <2>1. Len(q) \in 2..Len(q) /\ Len(q) - 1 = Len(p)
    BY <1>1, <1>5
  <2> QED
    BY <1>5, <2>1 DEF Trail
<1>7. ASSUME NEW i \in 1..Len(q)
      PROVE  G[q[i]] < Infinity
  <2>1. CASE i = 1
    BY <2>1, <1>3, <1>5
  <2>2. CASE i # 1
    <3>1. i \in 2..Len(q)
      BY <2>2, <1>1, <1>5
    <3> QED
      BY <3>1, <1>5 DEF Trail
  <2> QED
    BY <2>1, <2>2
<1>8. ASSUME NEW i \in 2..Len(q)
      PROVE  /\ q[i] \in Neighbours(r.level, q[i - 1]) /\ MayEnter(r, B, q[i])
             /\ G[q[i]] = G[q[i - 1]] + StepCost(q[i - 1], q[i], B)
  <2>1. CASE i = 2
    <3>1. q[i] = p[1] /\ q[i - 1] = x
      BY <2>1, <1>5
    <3> QED
      BY <3>1, <1>3
  <2>2. CASE i # 2
    <3>1. i - 1 \in 2..Len(q) /\ i - 1 \in 2..Len(p)
      BY <2>2, <1>1, <1>5
    <3>2. q[i] = p[i - 1] /\ q[i - 1] = p[(i - 1) - 1]
      BY <3>1, <1>5
    <3> QED
      BY <3>1, <3>2 DEF Trail
  <2> QED
    BY <2>1, <2>2
<1>9. Trail(q, r, B, G)
  BY <1>1, <1>5, <1>6, <1>7, <1>8 DEF Trail
<1> QED
  BY <1>4, <1>5, <1>9 DEF q, x

(* The costs along a trail rise, so that it meets no cell twice. *)
LEMMA TrailIsShort ==
  ASSUME NEW r \in Requests, NEW B, NEW G, NEW K, NEW P, Tree(r, B, G, K, P),
         NEW p, Trail(p, r, B, G)
  PROVE  Len(p) <= Cardinality(Cells[r.level])
<1>0. Tame(r, B)
  BY DEF Tree
<1>1. p \in Seq(Cells[r.level]) /\ Len(p) \in Nat /\ Len(p) >= 1 /\ G \in [Cells[r.level] -> Nat]
  BY DEF Trail, Tree
<1>2. \A i \in 1..Len(p) : p[i] \in Cells[r.level] /\ G[p[i]] \in Nat
  BY <1>1
<1>3. ASSUME NEW i \in 2..Len(p)
      PROVE  G[p[i - 1]] < G[p[i]]
  <2>1. i - 1 \in 1..Len(p) /\ i \in 1..Len(p)
    BY <1>1
  <2>2. p[i - 1] \in Cells[r.level] /\ p[i] \in Neighbours(r.level, p[i - 1])
        /\ G[p[i]] = G[p[i - 1]] + StepCost(p[i - 1], p[i], B)
    BY <1>2, <2>1 DEF Trail
  <2>3. StepCost(p[i - 1], p[i], B) \in 1..MaxStep
    BY <2>2, <1>0, HopeIsConsistent
  <2>4. G[p[i - 1]] \in Nat /\ G[p[i]] \in Nat
    BY <1>2, <2>1
  <2>5. StepCost(p[i - 1], p[i], B) > 0 /\ StepCost(p[i - 1], p[i], B) \in Nat
    <3> DEFINE d == StepCost(p[i - 1], p[i], B)
    <3>1. d \in 1..94
      BY <2>3 DEF MaxStep
    <3> HIDE DEF d
    <3>2. d > 0 /\ d \in Nat
      BY <3>1
    <3> QED
      BY <3>2 DEF d
  <2> QED
    BY <2>2, <2>4, <2>5
<1>4. ASSUME NEW i \in 1..Len(p), NEW j \in 1..Len(p), i < j
      PROVE  G[p[i]] < G[p[j]]
  <2> DEFINE T == {k \in 0..Len(p) - i - 1 : G[p[i]] < G[p[i + k + 1]]}
  <2>1. Len(p) - i - 1 \in Nat
    BY <1>1, <1>4
  <2>2. 0 \in T
    <3>1. i + 1 \in 2..Len(p) /\ (i + 1) - 1 = i /\ i + 0 + 1 = i + 1
      BY <1>1, <1>4
    <3>2. G[p[i]] < G[p[i + 0 + 1]]
      BY <1>3, <3>1
    <3>3. 0 \in 0..Len(p) - i - 1
      BY <2>1
    <3> QED
      BY <3>2, <3>3
  <2>3. ASSUME NEW k \in 1..Len(p) - i - 1, k - 1 \in T
        PROVE  k \in T
    <3>1. i + k + 1 \in 2..Len(p) /\ (i + k + 1) - 1 = i + (k - 1) + 1 /\ k \in 0..Len(p) - i - 1
      BY <1>1, <2>1
    <3>2. G[p[i + (k - 1) + 1]] < G[p[i + k + 1]]
      BY <1>3, <3>1
    <3>3. G[p[i]] < G[p[i + (k - 1) + 1]]
      BY <2>3
    <3>4. i + (k - 1) + 1 \in 1..Len(p) /\ i + k + 1 \in 1..Len(p)
      <4>1. i \in Nat /\ k \in Nat /\ i >= 1 /\ k >= 1 /\ k <= Len(p) - i - 1
        BY <1>1, <2>1
      <4> QED
        BY <4>1, <1>1
    <3>5. G[p[i]] \in Nat /\ G[p[i + (k - 1) + 1]] \in Nat /\ G[p[i + k + 1]] \in Nat
      BY <1>2, <3>4
    <3>6. G[p[i]] < G[p[i + k + 1]]
      BY <3>2, <3>3, <3>5
    <3> QED
      BY <3>1, <3>6
  <2>4. \A k \in 0..Len(p) - i - 1 : k \in T
    <3> HIDE DEF T
    <3> QED
      BY <2>1, <2>2, <2>3, UpTo
  <2>5. j - i - 1 \in 0..Len(p) - i - 1 /\ i + (j - i - 1) + 1 = j
    BY <1>1, <1>4
  <2>6. j - i - 1 \in T
    BY <2>4, <2>5
  <2> QED
    BY <2>5, <2>6
<1>5. ASSUME NEW i \in 1..Len(p), NEW j \in 1..Len(p), i # j
      PROVE  p[i] # p[j]
  <2>1. i < j \/ j < i
    BY <1>5
  <2>2. G[p[i]] < G[p[j]] \/ G[p[j]] < G[p[i]]
    BY <1>4, <2>1
  <2>3. G[p[i]] \in Nat /\ G[p[j]] \in Nat
    BY <1>2
  <2> QED
    BY <2>2, <2>3
<1>6. IsFiniteSet(1..Len(p)) /\ Cardinality(1..Len(p)) = Len(p)
  BY <1>1, FS_Interval
<1>7. p \in [1..Len(p) -> Cells[r.level]]
  BY <1>1
<1>8. IsFiniteSet(Cells[r.level]) /\ Cardinality(Cells[r.level]) \in Nat
  BY RequestFacts
<1>9. ASSUME ~(Len(p) <= Cardinality(Cells[r.level]))
      PROVE  FALSE
  <2>1. Cardinality(Cells[r.level]) < Cardinality(1..Len(p))
    BY <1>1, <1>6, <1>8, <1>9
  <2>2. \E i, j \in 1..Len(p) : i # j /\ p[i] = p[j]
    BY <1>6, <1>7, <1>8, <2>1, FS_PigeonHole
  <2> QED
    BY <1>5, <2>2
<1> QED
  BY <1>9


(* The cells of a trail. *)
LEMMA TrailFacts ==
  ASSUME NEW r \in Requests, NEW B, NEW G, NEW K, NEW P, Tree(r, B, G, K, P),
         NEW p, Trail(p, r, B, G)
  PROVE  /\ p \in Seq(Cells[r.level]) /\ Len(p) \in Nat /\ Len(p) >= 1 /\ p # <<>>
         /\ \A i \in 1..Len(p) : p[i] \in Cells[r.level] /\ G[p[i]] \in Nat
         /\ G[p[Len(p)]] = G[r.goal]
<1>1. p \in Seq(Cells[r.level]) /\ Len(p) \in Nat /\ Len(p) >= 1 /\ G \in [Cells[r.level] -> Nat]
  BY DEF Trail, Tree
<1>2. \A i \in 1..Len(p) : p[i] \in Cells[r.level] /\ G[p[i]] \in Nat
  BY <1>1
<1>3. p # <<>>
  BY <1>1
<1> QED
  BY <1>1, <1>2, <1>3 DEF Trail

(* What a trail costs is what is known of the goal. *)
LEMMA TrailCosts ==
  ASSUME NEW r \in Requests, NEW B, NEW G, NEW K, NEW P, Tree(r, B, G, K, P),
         NEW p, Trail(p, r, B, G), p[1] = r.start
  PROVE  CostOf(p, B) = G[r.goal]
<1> DEFINE Body(f) == [i \in 1..Len(p) |-> IF i = 1 THEN 0 ELSE f[i - 1] + StepCost(p[i - 1], p[i], B)]
           cost == CHOOSE f : f = Body(f)
           g == [i \in 1..Len(p) |-> G[p[i]]]
<1>1. Len(p) \in Nat /\ Len(p) >= 1 /\ G[r.start] = 0 /\ G[p[Len(p)]] = G[r.goal]
  <2>1. Len(p) \in Nat /\ Len(p) >= 1 /\ G[p[Len(p)]] = G[r.goal]
    BY TrailFacts
  <2>2. G[r.start] = 0
    BY DEF Tree
  <2> QED
    BY <2>1, <2>2
<1>2. g = Body(g)
  <2>1. ASSUME NEW i \in 1..Len(p)
        PROVE  g[i] = IF i = 1 THEN 0 ELSE g[i - 1] + StepCost(p[i - 1], p[i], B)
    <3>1. CASE i = 1
      BY <1>1, <3>1
    <3>2. CASE i # 1
      <4>1. i \in 2..Len(p) /\ i - 1 \in 1..Len(p)
        BY <1>1, <3>2
      <4>2. G[p[i]] = G[p[i - 1]] + StepCost(p[i - 1], p[i], B)
        BY <4>1 DEF Trail
      <4> QED
        BY <3>2, <4>1, <4>2
    <3> QED
      BY <3>1, <3>2
  <2> QED
    BY <2>1
<1>3. cost = Body(cost)
  BY <1>2
<1>4. \A i \in 1..Len(p) : cost[i] = IF i = 1 THEN 0 ELSE cost[i - 1] + StepCost(p[i - 1], p[i], B)
  <2> HIDE DEF cost
  <2> QED
    BY <1>3
<1>5. CostOf(p, B) = cost[Len(p)]
  BY DEF CostOf
<1> HIDE DEF cost
<1>6. cost[Len(p)] = G[p[Len(p)]]
  <2> DEFINE n == Len(p) - 1
             T == {k \in 0..n : cost[k + 1] = G[p[k + 1]]}
  <2>1. n \in Nat
    BY <1>1
  <2>2. 0 \in T
    <3>1. 0 \in 0..n /\ 1 \in 1..Len(p)
      BY <1>1
    <3>2. cost[1] = 0 /\ G[p[1]] = 0
      BY <1>1, <1>4, <3>1
    <3>3. cost[0 + 1] = G[p[0 + 1]]
      BY <3>2
    <3> QED
      BY <3>1, <3>3
  <2>3. ASSUME NEW k \in 1..n, k - 1 \in T
        PROVE  k \in T
    <3>1. k + 1 \in 2..Len(p) /\ k + 1 \in 1..Len(p) /\ k + 1 # 1 /\ (k + 1) - 1 = k /\ (k - 1) + 1 = k /\ k \in 0..n
      BY <1>1
    <3>2. cost[k] = G[p[k]]
      BY <2>3, <3>1
    <3>3. cost[k + 1] = cost[k] + StepCost(p[k], p[k + 1], B)
      BY <1>4, <3>1
    <3>4. G[p[k + 1]] = G[p[k]] + StepCost(p[k], p[k + 1], B)
      BY <3>1 DEF Trail
    <3> QED
      BY <3>1, <3>2, <3>3, <3>4
  <2>4. \A k \in 0..n : k \in T
    <3> HIDE DEF T, n
    <3> QED
      BY <2>1, <2>2, <2>3, UpTo
  <2>5. n \in 0..n /\ n + 1 = Len(p)
    BY <1>1
  <2> QED
    BY <2>4, <2>5
<1> QED
  BY <1>1, <1>5, <1>6

(* Along a trail there are ways that cost no more than it. *)
LEMMA WaysAlongTrail ==
  ASSUME NEW r \in Requests, NEW B, NEW G, NEW K, NEW P, Tree(r, B, G, K, P),
         NEW p, Trail(p, r, B, G), p[1] = r.start, NEW u, IsUpTo(u, r, B)
  PROVE  \E w \in u[Cardinality(Cells[r.level])] : w[1] = r.goal /\ w[2] <= G[r.goal]
<1> DEFINE n == Cardinality(Cells[r.level])
           Reached(k, i) == \E w \in u[k] : w[1] = p[i] /\ w[2] <= G[p[i]]
           last(k) == IF k < Len(p) THEN k + 1 ELSE Len(p)
           T == {k \in 0..n : Reached(k, last(k))}
<1>0. Tame(r, B)
  BY DEF Tree
<1>1. /\ Len(p) \in Nat /\ Len(p) >= 1 /\ Len(p) <= n /\ n \in Nat
      /\ \A i \in 1..Len(p) : p[i] \in Cells[r.level] /\ G[p[i]] \in Nat
      /\ G[p[Len(p)]] = G[r.goal] /\ G[r.start] = 0
  <2>1. Len(p) \in Nat /\ Len(p) >= 1 /\ G[p[Len(p)]] = G[r.goal]
        /\ \A i \in 1..Len(p) : p[i] \in Cells[r.level] /\ G[p[i]] \in Nat
    BY TrailFacts
  <2>2. Len(p) <= n /\ n \in Nat
    BY TrailIsShort, RequestFacts
  <2>3. G[r.start] = 0
    BY DEF Tree
  <2> QED
    BY <2>1, <2>2, <2>3
<1>2. 0 \in T
  <2>1. u[0] = {<<r.start, 0>>} /\ last(0) = 1
    BY <1>1 DEF IsUpTo
  <2>2. Reached(0, 1)
    BY <1>1, <2>1
  <2> QED
    BY <1>1, <2>1, <2>2
<1>3. ASSUME NEW k \in 1..n, k - 1 \in T
      PROVE  k \in T
  <2>1. k - 1 \in 0..n /\ k \in 0..n
    BY <1>1
  <2>2. u[k - 1] \in SUBSET (Cells[r.level] \X Nat) /\ u[k] \in SUBSET (Cells[r.level] \X Nat)
    BY <2>1 DEF IsUpTo
  <2>3. PICK w \in u[k - 1] : w[1] = p[last(k - 1)] /\ w[2] <= G[p[last(k - 1)]]
    BY <1>3
  <2>4. w[2] \in Nat
    BY <2>2
  <2>5. CASE k < Len(p)
    <3>1. last(k - 1) = k /\ last(k) = k + 1 /\ k \in 1..Len(p) /\ k + 1 \in 2..Len(p) /\ (k + 1) - 1 = k
          /\ k + 1 \in 1..Len(p)
      BY <1>1, <2>5
    <3>2. /\ p[k + 1] \in Neighbours(r.level, p[k]) /\ MayEnter(r, B, p[k + 1])
          /\ G[p[k + 1]] = G[p[k]] + StepCost(p[k], p[k + 1], B)
      BY <3>1 DEF Trail
    <3>3. PICK v \in u[k] : v[1] = p[k + 1] /\ v[2] <= w[2] + StepCost(p[k], p[k + 1], B)
      BY <2>3, <3>1, <3>2, <1>0, OneStepMore, Z3
    <3>4. StepCost(p[k], p[k + 1], B) \in 1..MaxStep
      BY <1>1, <3>1, <3>2, <1>0, HopeIsConsistent
    <3>5. v[2] <= G[p[k + 1]]
      <4> DEFINE d == StepCost(p[k], p[k + 1], B)
      <4>1. d \in 1..94 /\ w[2] <= G[p[k]] /\ v[2] <= w[2] + d /\ G[p[k + 1]] = G[p[k]] + d
        BY <2>3, <3>1, <3>2, <3>3, <3>4 DEF MaxStep
      <4>2. v[2] \in Nat /\ G[p[k]] \in Nat
        BY <1>1, <2>2, <3>1
      <4> HIDE DEF d
      <4> QED
        BY <4>1, <4>2, <2>4
    <3>6. Reached(k, last(k))
      BY <3>1, <3>3, <3>5
    <3> QED
      BY <2>1, <3>6
  <2>6. CASE ~(k < Len(p))
    <3>1. last(k - 1) = Len(p) /\ last(k) = Len(p)
      BY <1>1, <2>6
    <3>2. PICK v \in u[k] : v[1] = w[1] /\ v[2] <= w[2]
      BY <1>0, OneStepMore
    <3>3. Len(p) \in 1..Len(p)
      BY <1>1
    <3>4. v[2] \in Nat /\ G[p[Len(p)]] \in Nat
      BY <1>1, <2>2, <3>3
    <3>5. v[1] = p[Len(p)] /\ v[2] <= G[p[Len(p)]]
      BY <2>3, <2>4, <3>1, <3>2, <3>4
    <3>6. Reached(k, last(k))
      BY <3>1, <3>5
    <3> QED
      BY <2>1, <3>6
  <2> QED
    BY <2>5, <2>6
<1>4. \A k \in 0..n : k \in T
  <2> HIDE DEF T, n
  <2> QED
    BY <1>1, <1>2, <1>3, UpTo
<1>5. n \in 0..n /\ last(n) = Len(p)
  BY <1>1
<1>6. Reached(n, Len(p))
  BY <1>4, <1>5
<1>7. p[Len(p)] = r.goal
  BY DEF Trail
<1> QED
  BY <1>6, <1>7

(* So a trail from the start is a cheapest way, if all that is open could  *)
(* only be further.                                                        *)
LEMMA TrailIsCheapest ==
  ASSUME NEW r \in Requests, NEW B, NEW G, NEW K, NEW P, NEW O, Sound(r, B, G, K, P, O),
         NEW p, Trail(p, r, B, G), p[1] = r.start, NotNearer(r, G, K, G[r.goal])
  PROVE  p # <<>> /\ IsWay(p, r, B) /\ Cheapest(r, B) = {CostOf(p, B)}
<1> DEFINE n == Cardinality(Cells[r.level])
<1>0. Tame(r, B)
  BY DEF Sound, Tree
<1>1. Tree(r, B, G, K, P)
  BY DEF Sound
<1>2. CostOf(p, B) = G[r.goal] /\ G[r.goal] \in Nat
  <2>1. CostOf(p, B) = G[r.goal]
    BY <1>1, TrailCosts
  <2>2. G[r.goal] \in Nat
    BY <1>1, RequestFacts DEF Tree
  <2> QED
    BY <2>1, <2>2
<1>3. p # <<>> /\ p[Len(p)] = r.goal
  BY <1>1, TrailFacts DEF Trail
<1>4. IsWay(p, r, B)
  BY <1>3 DEF IsWay, Trail
<1>5. PICK u : IsUpTo(u, r, B) /\ Ways(r, B) = u[n]
  BY <1>0, WaysByLength
<1>6. PICK w \in u[n] : w[1] = r.goal /\ w[2] <= G[r.goal]
  BY <1>1, <1>5, WaysAlongTrail
<1>7. \A m \in Cheapest(r, B) : m \in Nat /\ G[r.goal] <= m
  BY <1>2, NoWayIsCheaper
<1>8. w[2] \in Cheapest(r, B)
  BY <1>5, <1>6 DEF Cheapest, CostsAt
<1>9. w[2] = G[r.goal]
  BY <1>2, <1>6, <1>7, <1>8
<1>10. \A v \in u[n] : \A z \in u[n] : v[1] = z[1] => v = z
  <2>1. n \in Nat
    BY RequestFacts
  <2>2. CASE n = 0
    BY <1>5, <2>2 DEF IsUpTo
  <2>3. CASE n # 0
    <3>1. n \in 1..n
      BY <2>1, <2>3
    <3> QED
      BY <1>5, <3>1, <1>0, OneStepMore
  <2> QED
    BY <2>2, <2>3
<1>11. ASSUME NEW m \in Cheapest(r, B)
       PROVE  m = G[r.goal]
  <2>1. PICK v \in u[n] : v[1] = r.goal /\ v[2] = m
    BY <1>5 DEF Cheapest, CostsAt
  <2>2. v = w
    BY <1>6, <1>10, <2>1
  <2> QED
    BY <1>9, <2>1, <2>2
<1> QED
  BY <1>2, <1>3, <1>4, <1>8, <1>9, <1>11


(* The parents, as the arena has them, give such a trail. *)
LEMMA ChainIsTrail ==
  ASSUME NEW r \in Requests, NEW B, NEW G, NEW K, NEW P, Tree(r, B, G, K, P),
         DOMAIN arena = Cells[r.level], G[r.goal] < Infinity,
         \A c \in Cells[r.level] : G[c] < Infinity => arena[c].parent = P[c]
  PROVE  Trail(Chain(r.goal), r, B, G) /\ Chain(r.goal)[1] = r.start
<1> DEFINE n == Cardinality(DOMAIN arena)
           first == <<r.goal>>
           D == {p \in Seq(Cells[r.level]) : Trail(p, r, B, G)}
           Body(f) == [k \in 0..n |-> IF k = 0 THEN first ELSE WithParent(f[k - 1])]
           back == CHOOSE f : f = Body(f)
           step == [q \in D \X (1..n) |-> WithParent(q[1])]
<1>1. n \in Nat /\ n = Cardinality(Cells[r.level])
  BY RequestFacts
<1>2. first \in D
  <2>1. r.goal \in Cells[r.level]
    BY RequestFacts
  <2> DEFINE S == Cells[r.level]
  <2>2. first \in Seq(S)
    <3>1. r.goal \in S
      BY <2>1
    <3> HIDE DEF S
    <3> QED
      BY <3>1
  <2>3. Len(first) = 1 /\ first[1] = r.goal
    OBVIOUS
  <2>4. Trail(first, r, B, G)
    <3> HIDE DEF first
    <3> QED
      BY <2>2, <2>3 DEF Trail
  <2> QED
    BY <2>2, <2>4
<1>3. ASSUME NEW p, Trail(p, r, B, G)
      PROVE  /\ Trail(WithParent(p), r, B, G)
             /\ p[1] = r.start => WithParent(p) = p
             /\ p[1] # r.start => Len(WithParent(p)) = Len(p) + 1
  <2>1. p \in Seq(Cells[r.level]) /\ p # <<>> /\ Head(p) = p[1] /\ p[1] \in Cells[r.level] /\ G[p[1]] < Infinity
    <3>1. p \in Seq(Cells[r.level]) /\ Len(p) \in Nat /\ Len(p) >= 1 /\ p # <<>>
          /\ \A i \in 1..Len(p) : p[i] \in Cells[r.level]
      BY <1>3, TrailFacts
    <3>2. 1 \in 1..Len(p)
      BY <3>1
    <3>3. G[p[1]] < Infinity
      BY <1>3, <3>2 DEF Trail
    <3> QED
      BY <3>1, <3>2, <3>3
  <2>2. arena[Head(p)].parent = P[p[1]]
    BY <2>1
  <2>3. CASE p[1] = r.start
    <3>1. P[p[1]] = Nothing
      BY <2>3 DEF Tree
    <3>2. WithParent(p) = p
      BY <2>2, <3>1 DEF WithParent
    <3> QED
      BY <1>3, <2>3, <3>2
  <2>4. CASE p[1] # r.start
    <3>1. /\ P[p[1]] # Nothing /\ Trail(<<P[p[1]]>> \o p, r, B, G)
          /\ Len(<<P[p[1]]>> \o p) = Len(p) + 1
      BY <1>3, <2>4, TrailGoesBack
    <3>2. WithParent(p) = <<P[p[1]]>> \o p
      BY <2>2, <3>1, Zenon DEF WithParent
    <3> QED
      BY <2>4, <3>1, <3>2
  <2> QED
    BY <2>3, <2>4
<1>4. step \in [D \X (1..n) -> D]
  <2>1. ASSUME NEW p \in D
        PROVE  WithParent(p) \in D
    <3>1. Trail(WithParent(p), r, B, G)
      BY <1>3
    <3> QED
      BY <3>1 DEF Trail
  <2> QED
    BY <2>1
<1>5. PICK f \in [0..n -> D] : f[0] = first /\ \A k \in 1..n : f[k] = step[<<f[k - 1], k>>]
  <2> HIDE DEF n, D, step, first
  <2>1. \E f : Follows(f, n, D, first, step)
    BY <1>1, <1>2, <1>4, StepByStep DEF Leads
  <2> QED
    BY <2>1 DEF Follows
<1>6. f = Body(f)
  <2>1. ASSUME NEW k \in 0..n
        PROVE  f[k] = IF k = 0 THEN first ELSE WithParent(f[k - 1])
    <3>1. CASE k = 0
      BY <3>1, <1>5
    <3>2. CASE k # 0
      <4>1. k \in 1..n /\ k - 1 \in 0..n
        BY <1>1, <3>2
      <4>2. f[k - 1] \in D
        BY <4>1, <1>5
      <4>3. <<f[k - 1], k>> \in D \X (1..n)
        BY <4>1, <4>2
      <4>4. step[<<f[k - 1], k>>] = WithParent(f[k - 1])
        <5> HIDE DEF D
        <5> QED
          BY <4>3
      <4> QED
        BY <4>1, <4>4, <1>5, <3>2
    <3> QED
      BY <3>1, <3>2
  <2>2. f = [k \in 0..n |-> f[k]]
    BY <1>5
  <2> QED
    BY <2>1, <2>2
<1>7. back = Body(back)
  BY <1>6
<1>8. Chain(r.goal) = back[n]
  BY DEF Chain
<1>9. back[0] = first /\ \A k \in 1..n : back[k] = WithParent(back[k - 1])
  <2>1. \A k \in 0..n : back[k] = IF k = 0 THEN first ELSE WithParent(back[k - 1])
    <3> HIDE DEF back, n, first
    <3> QED
      BY <1>7
  <2>2. 0 \in 0..n /\ \A k \in 1..n : k \in 0..n /\ k # 0
    BY <1>1
  <2> HIDE DEF back, n, first
  <2> QED
    BY <2>1, <2>2
<1> DEFINE T == {k \in 0..n : Trail(back[k], r, B, G) /\ (back[k][1] = r.start \/ Len(back[k]) = k + 1)}
<1> HIDE DEF back
<1>10. 0 \in T
  <2>1. Trail(back[0], r, B, G) /\ Len(back[0]) = 0 + 1
    BY <1>2, <1>9
  <2> QED
    BY <1>1, <2>1
<1>11. ASSUME NEW k \in 1..n, k - 1 \in T
       PROVE  k \in T
  <2>1. k \in 0..n /\ (k - 1) + 1 = k
    BY <1>1
  <2>2. Trail(back[k - 1], r, B, G) /\ (back[k - 1][1] = r.start \/ Len(back[k - 1]) = k)
    BY <1>11, <2>1
  <2>3. back[k] = WithParent(back[k - 1])
    BY <1>9
  <2>4. Trail(back[k], r, B, G)
    BY <1>3, <2>2, <2>3
  <2>5. back[k][1] = r.start \/ Len(back[k]) = k + 1
    <3>1. CASE back[k - 1][1] = r.start
      BY <3>1, <1>3, <2>2, <2>3
    <3>2. CASE back[k - 1][1] # r.start
      <4>1. Len(back[k - 1]) = k
        BY <2>2, <3>2
      <4> QED
        BY <3>2, <4>1, <1>3, <2>2, <2>3
    <3> QED
      BY <3>1, <3>2
  <2> QED
    BY <2>1, <2>4, <2>5
<1>12. \A k \in 0..n : k \in T
  <2> HIDE DEF T, n
  <2> QED
    BY <1>1, <1>10, <1>11, UpTo
<1>13. Trail(back[n], r, B, G) /\ (back[n][1] = r.start \/ Len(back[n]) = n + 1)
  <2>1. n \in 0..n
    BY <1>1
  <2> QED
    BY <1>12, <2>1
<1>14. Len(back[n]) <= Cardinality(Cells[r.level])
  BY <1>13, TrailIsShort
<1>15. ~(Len(back[n]) = n + 1)
  BY <1>1, <1>14
<1> QED
  BY <1>8, <1>13, <1>15


-----------------------------------------------------------------------------
(* The state. *)

(* What each cell is known to cost, what is closed, and the parents, with  *)
(* the nodes of earlier searches as good as new.                           *)
Gs(l) == [c \in Cells[l] |-> Touch(c).g]
Ks(l) == {c \in Cells[l] : Touch(c).closed}
Ps(l) == [c \in Cells[l] |-> Touch(c).parent]

WorldInv ==
  /\ world = [seed |-> world.seed, opened |-> world.opened, player |-> world.player]
  /\ world.seed \in Seeds
  /\ gCurrentGen \in 0..MaxGen

(* A node of the arena is of this search or of an earlier one. *)
IsNode(x) ==
  /\ x = [generation |-> x.generation, g |-> x.g, parent |-> x.parent, closed |-> x.closed]
  /\ x.generation \in 0..gCurrentGen /\ x.g \in Nat /\ x.closed \in BOOLEAN

ArenaIsGood ==
  /\ arena = [c \in DOMAIN arena |-> arena[c]]
  /\ \A c \in DOMAIN arena : IsNode(arena[c])

ArenaInv == arena # Nothing => ArenaIsGood

Calls == [request : Requests, fits : BOOLEAN, steady : BOOLEAN]

(* A call that has found its grid kept has it of this game, unless the     *)
(* game has been left since.                                               *)
CallInv ==
  call # Nothing =>
    /\ call \in Calls /\ search = Nothing
    /\ call.fits =>
         /\ lookup # Nothing /\ lookup.level = call.request.level
         /\ call.steady => lookup.seed = world.seed

(* Where the grid that is kept is not what the game has, a door has opened *)
(* unseen.                                                                 *)
LookupInv ==
  lookup # Nothing =>
    /\ lookup = [level |-> lookup.level, seed |-> lookup.seed, flags |-> lookup.flags]
    /\ lookup.flags = [c \in Cells[lookup.level] |-> lookup.flags[c]]
    /\ lookup.seed \in Seeds /\ lookup.seed <= world.seed
    /\ lookup.seed = world.seed =>
         \A c \in Cells[lookup.level] :
           lookup.flags[c] = GameFlags(lookup.level)[c] \/ <<lookup.level, c>> \in unseen

(* So it is for the rooms copied to the grid that is built, and until it   *)
(* is, there is no other.                                                  *)
GridInv ==
  grid # Nothing =>
    /\ grid = [level |-> grid.level, seed |-> grid.seed, flags |-> grid.flags, rooms |-> grid.rooms]
    /\ grid.flags = [c \in Cells[grid.level] |-> grid.flags[c]]
    /\ grid.seed \in Seeds /\ grid.seed <= world.seed
    /\ grid.seed = world.seed =>
         \A c \in Cells[grid.level] :
           \/ RoomOf(c) \in grid.rooms
           \/ grid.flags[c] = GameFlags(grid.level)[c]
           \/ <<grid.level, c>> \in unseen
    /\ lookup = Nothing
    /\ call # Nothing /\ ~call.fits /\ grid.level = call.request.level
    /\ call.steady => grid.seed = world.seed

SearchInv ==
  search # Nothing =>
    LET r == search.request IN
    /\ call = Nothing
    /\ search = [request |-> r, open |-> search.open]
    /\ answer = [request |-> r, terrain |-> answer.terrain, known |-> answer.known, path |-> Nothing]
    /\ r \in Requests
    /\ ArenaIsGood /\ DOMAIN arena = Cells[r.level]
    /\ answer.known => Terrain(r, lookup.flags) = answer.terrain
    /\ Sound(r, Terrain(r, lookup.flags), Gs(r.level), Ks(r.level), Ps(r.level), search.open)

PathInv == WorldInv /\ ArenaInv /\ CallInv /\ LookupInv /\ GridInv /\ SearchInv /\ PathIsShortest

(* No penalty is more than a door's. *)
LEMMA TerrainIsTame ==
  ASSUME NEW r, NEW flags
  PROVE  Tame(r, Terrain(r, flags))
<1>1. ASSUME NEW c
      PROVE  GetPenalty(flags, c) \in 0..80
  BY DEF GetPenalty
<1>2. ASSUME NEW n \in Cells[r.level]
      PROVE  Terrain(r, flags).penalty[n] = IF r.penalties THEN GetPenalty(flags, n) ELSE 0
  BY DEF Terrain
<1>3. 0 \in 0..80
  OBVIOUS
<1> QED
  BY <1>1, <1>2, <1>3 DEF Tame

(* What Touch gives. *)
LEMMA TouchFacts ==
  ASSUME ArenaIsGood, NEW c \in DOMAIN arena, gCurrentGen \in Nat
  PROVE  /\ Touch(c) = [generation |-> gCurrentGen, g |-> Touch(c).g, parent |-> Touch(c).parent,
                        closed |-> Touch(c).closed]
         /\ Touch(c).g \in Nat /\ Touch(c).closed \in BOOLEAN
         /\ Touch(c).g < Infinity => arena[c].parent = Touch(c).parent
<1>1. IsNode(arena[c])
  BY DEF ArenaIsGood
<1>2. CASE arena[c].generation = gCurrentGen
  <2>1. Touch(c) = arena[c]
    BY <1>2 DEF Touch
  <2> QED
    BY <1>1, <1>2, <2>1 DEF IsNode
<1>3. CASE arena[c].generation # gCurrentGen
  <2>1. Touch(c) = [generation |-> gCurrentGen, g |-> Infinity, parent |-> Nothing, closed |-> FALSE]
    BY <1>3 DEF Touch, Untouched
  <2> QED
    BY <2>1, InfinityIsNat
<1> QED
  BY <1>2, <1>3

(* The step of the code is the step above. *)
LEMMA RelaxIsAfter ==
  ASSUME PathInv, NEW r \in Requests, search # Nothing, search.request = r,
         NEW e \in search.open, Relax(e), ~Touch(e[2]).closed, e[2] \in Cells[r.level],
         UNCHANGED <<lookup, gCurrentGen>>
  PROVE  /\ ArenaIsGood' /\ DOMAIN arena' = Cells[r.level]
         /\ search' = [request |-> r, open |-> search'.open]
         /\ Gs(r.level)' = GAfter(r, Terrain(r, lookup.flags), Gs(r.level), Ks(r.level), e[2])
         /\ Ks(r.level)' = Ks(r.level) \union {e[2]}
         /\ Ps(r.level)' = PAfter(r, Terrain(r, lookup.flags), Gs(r.level), Ks(r.level), Ps(r.level), e[2])
         /\ search'.open = OAfter(r, Terrain(r, lookup.flags), Gs(r.level), Ks(r.level), search.open, e)
<1> DEFINE l == r.level
           c == e[2]
           B == Terrain(r, lookup.flags)
           N == NearerFrom(r, B, Gs(l), Ks(l), c)
           through == [n \in Neighbours(r.level, c) |-> Touch(c).g + StepCost(c, n, B)]
           nearer == {n \in DOMAIN through :
                        /\ n = r.goal \/ n \notin B.blocked
                        /\ ~Touch(n).closed
                        /\ through[n] < Touch(n).g}
<1>0. Tame(r, B)
  BY TerrainIsTame
<1>1. /\ r \in Requests /\ ArenaIsGood /\ DOMAIN arena = Cells[l] /\ c \in Cells[l]
      /\ search = [request |-> r, open |-> search.open] /\ gCurrentGen \in Nat
  BY DEF PathInv, SearchInv, WorldInv
<1>2. \A n \in Cells[l] : Gs(l)[n] = Touch(n).g /\ Ps(l)[n] = Touch(n).parent /\ (n \in Ks(l) <=> Touch(n).closed)
  BY DEF Gs, Ps, Ks
<1>3. \A n \in Neighbours(l, c) : n \in Cells[l] /\ n # c /\ through[n] = Gs(l)[c] + StepCost(c, n, B)
  BY <1>1, <1>2 DEF Neighbours
<1>4. nearer = N
  <2>1. \A n : n \in nearer <=> n \in N
    BY <1>2, <1>3 DEF NearerFrom, MayEnter
  <2> QED
    BY <2>1
<1>5. /\ arena' = [n \in DOMAIN arena |->
                    IF n = c THEN [Touch(c) EXCEPT !.closed = TRUE]
                    ELSE IF n \in nearer
                      THEN [generation |-> gCurrentGen, g |-> through[n], parent |-> c, closed |-> FALSE]
                      ELSE arena[n]]
      /\ search' = [search EXCEPT !.open = (@ \ {e}) \union
                     {<<through[n] + DiagonalShortcut(n, r.goal), n>> : n \in nearer}]
  BY DEF Relax
<1> HIDE DEF nearer, through, B
<1>6. arena' = [n \in Cells[l] |->
           IF n = c THEN [Touch(c) EXCEPT !.closed = TRUE]
           ELSE IF n \in N
             THEN [generation |-> gCurrentGen, g |-> Gs(l)[c] + StepCost(c, n, B), parent |-> c, closed |-> FALSE]
             ELSE arena[n]]
  <2>1. \A n \in N : through[n] = Gs(l)[c] + StepCost(c, n, B)
    BY <1>3 DEF NearerFrom
  <2> HIDE DEF N
  <2> QED
    BY <1>1, <1>4, <1>5, <2>1
<1>7. /\ search' = [request |-> r, open |-> search'.open]
      /\ search'.open = OAfter(r, B, Gs(l), Ks(l), search.open, e)
  <2> DEFINE more == {<<through[n] + DiagonalShortcut(n, r.goal), n>> : n \in nearer}
  <2>1. more = {<<Gs(l)[c] + StepCost(c, n, B) + H(r, n), n>> : n \in N}
    <3>1. \A n \in N : through[n] = Gs(l)[c] + StepCost(c, n, B)
      BY <1>3 DEF NearerFrom
    <3> HIDE DEF N
    <3> QED
      BY <1>4, <3>1 DEF H
  <2>2. search' = [search EXCEPT !.open = (search.open \ {e}) \union more]
    BY <1>5
  <2> HIDE DEF more
  <2>3. search' = [request |-> r, open |-> (search.open \ {e}) \union more]
    BY <1>1, <2>2
  <2>4. (search.open \ {e}) \union more = OAfter(r, B, Gs(l), Ks(l), search.open, e)
    BY <2>1 DEF OAfter
  <2> QED
    BY <2>3, <2>4
<1>10. /\ Touch(c).g \in Nat
       /\ [Touch(c) EXCEPT !.closed = TRUE] =
            [generation |-> gCurrentGen, g |-> Touch(c).g, parent |-> Touch(c).parent, closed |-> TRUE]
  <2> DEFINE t == Touch(c)
  <2>1. t = [generation |-> gCurrentGen, g |-> t.g, parent |-> t.parent, closed |-> t.closed] /\ t.g \in Nat
    BY <1>1, TouchFacts
  <2> HIDE DEF t
  <2>2. PICK a, b, d : t = [generation |-> gCurrentGen, g |-> a, parent |-> b, closed |-> d]
    BY <2>1
  <2>4. [t EXCEPT !.closed = TRUE] = [generation |-> gCurrentGen, g |-> t.g, parent |-> t.parent, closed |-> TRUE]
    <3>1. PICK y : y = TRUE
      OBVIOUS
    <3>2. [t EXCEPT !.closed = y] = [generation |-> gCurrentGen, g |-> a, parent |-> b, closed |-> y]
      BY <2>2
    <3>3. t.g = a /\ t.parent = b
      BY <2>2
    <3> QED
      BY <3>1, <3>2, <3>3, Zenon
  <2> QED
    BY <2>1, <2>4 DEF t
<1>8. ASSUME NEW n \in Cells[l]
      PROVE  /\ IsNode(arena[n])'
             /\ Touch(n)' = IF n = c THEN [Touch(c) EXCEPT !.closed = TRUE]
                            ELSE IF n \in N
                              THEN [generation |-> gCurrentGen, g |-> Gs(l)[c] + StepCost(c, n, B), parent |-> c, closed |-> FALSE]
                              ELSE Touch(n)
  <2>1. gCurrentGen' = gCurrentGen /\ gCurrentGen \in 0..gCurrentGen
    BY <1>1
  <2>3. CASE n = c
    <3>1. arena'[n] = [generation |-> gCurrentGen, g |-> Touch(c).g, parent |-> Touch(c).parent, closed |-> TRUE]
      <4>1. arena'[n] = [Touch(c) EXCEPT !.closed = TRUE]
        <5> HIDE DEF N
        <5> QED
          BY <1>6, <2>3
      <4> QED
        BY <4>1, <1>10
    <3>2. IsNode(arena[n])'
      BY <2>1, <1>10, <3>1 DEF IsNode
    <3>3. Touch(n)' = arena'[n]
      BY <2>1, <3>1 DEF Touch
    <3> QED
      BY <2>3, <3>1, <3>2, <3>3, <1>10
  <2>4. CASE n # c /\ n \in N
    <3>1. arena'[n] = [generation |-> gCurrentGen, g |-> Gs(l)[c] + StepCost(c, n, B), parent |-> c, closed |-> FALSE]
      BY <1>6, <2>4
    <3>2. n \in Neighbours(l, c)
      BY <2>4 DEF NearerFrom
    <3>3. StepCost(c, n, B) \in 1..MaxStep
      BY <1>0, <1>1, <3>2, HopeIsConsistent
    <3>4. Gs(l)[c] + StepCost(c, n, B) \in Nat
      BY <1>1, <1>2, <1>10, <3>3 DEF MaxStep
    <3> HIDE DEF N
    <3> QED
      BY <2>1, <2>4, <3>1, <3>4 DEF IsNode, Touch
  <2>5. CASE n # c /\ n \notin N
    <3>1. arena'[n] = arena[n]
      BY <1>6, <2>5
    <3>2. IsNode(arena[n])
      BY <1>1 DEF ArenaIsGood
    <3>3. Touch(n)' = Touch(n)
      BY <2>1, <3>1 DEF Touch
    <3> HIDE DEF N
    <3> QED
      BY <2>1, <2>5, <3>1, <3>2, <3>3 DEF IsNode
  <2> QED
    BY <2>3, <2>4, <2>5
<1>9. \A n \in N : n \in Cells[l] /\ n # c
  BY <1>3 DEF NearerFrom
<1>11. \A n \in Cells[l] :
         /\ Touch(n)'.g = IF n \in N THEN Gs(l)[c] + StepCost(c, n, B) ELSE Gs(l)[n]
         /\ Touch(n)'.parent = IF n \in N THEN c ELSE Ps(l)[n]
         /\ Touch(n)'.closed <=> n \in Ks(l) \union {c}
  <2> HIDE DEF N
  <2> TAKE n \in Cells[l]
  <2>1. CASE n = c
    <3>1. Touch(n)' = [generation |-> gCurrentGen, g |-> Touch(c).g, parent |-> Touch(c).parent, closed |-> TRUE]
      <4>1. Touch(n)' = [Touch(c) EXCEPT !.closed = TRUE]
        BY <1>8, <2>1
      <4> QED
        BY <4>1, <1>10
    <3> QED
      BY <1>2, <1>9, <2>1, <3>1
  <2>2. CASE n # c /\ n \in N
    <3>1. Touch(n)' = [generation |-> gCurrentGen, g |-> Gs(l)[c] + StepCost(c, n, B), parent |-> c, closed |-> FALSE]
      BY <1>8, <2>2
    <3>2. n \notin Ks(l)
      BY <2>2 DEF N, NearerFrom
    <3> QED
      BY <2>2, <3>1, <3>2
  <2>3. CASE n # c /\ n \notin N
    BY <1>2, <1>8, <2>3
  <2> QED
    BY <2>1, <2>2, <2>3
<1>12. ArenaIsGood' /\ DOMAIN arena' = Cells[l]
  <2>1. DOMAIN arena' = Cells[l]
    BY <1>6
  <2>2. arena' = [n \in DOMAIN arena' |-> arena'[n]]
    <3> DEFINE f == arena'
               value(n) == IF n = c THEN [Touch(c) EXCEPT !.closed = TRUE]
           ELSE IF n \in N
             THEN [generation |-> gCurrentGen, g |-> Gs(l)[c] + StepCost(c, n, B), parent |-> c, closed |-> FALSE]
             ELSE arena[n]
    <3>1. f = [n \in Cells[l] |-> value(n)]
      BY <1>6
    <3> HIDE DEF f, value
    <3>2. f = [n \in Cells[l] |-> f[n]]
      BY <3>1
    <3> QED
      BY <2>1, <3>2 DEF f
  <2> QED
    BY <1>8, <2>1, <2>2 DEF ArenaIsGood
<1>13. Gs(l)' = GAfter(r, B, Gs(l), Ks(l), c)
  BY <1>11 DEF Gs, GAfter
<1>14. Ps(l)' = PAfter(r, B, Gs(l), Ks(l), Ps(l), c)
  BY <1>11 DEF Ps, PAfter
<1>15. Ks(l)' = Ks(l) \union {c}
  <2>1. Ks(l)' = {n \in Cells[l] : Touch(n)'.closed}
    BY DEF Ks
  <2>2. Ks(l) \subseteq Cells[l]
    BY DEF Ks
  <2> HIDE DEF N
  <2> QED
    BY <1>1, <1>11, <2>1, <2>2
<1> QED
  BY <1>7, <1>12, <1>13, <1>14, <1>15 DEF B

LEMMA PathInvInit == PathInit => PathInv
<1> SUFFICES ASSUME PathInit
             PROVE  PathInv
  OBVIOUS
<1>1. WorldInv
  <2>1. Seeds \in SUBSET Nat /\ Seeds # {} /\ MaxGen \in Nat
    BY PathAssumption
  <2>2. \E s \in Seeds : \A z \in Seeds : s <= z
    BY <2>1, LeastNumber
  <2>3. world.seed = CHOOSE s \in Seeds : \A z \in Seeds : s <= z
    BY DEF PathInit
  <2>4. world.seed \in Seeds
    BY <2>2, <2>3
  <2>5. world = [seed |-> world.seed, opened |-> world.opened, player |-> world.player]
    BY DEF PathInit
  <2> QED
    BY <2>1, <2>4, <2>5 DEF WorldInv, PathInit
<1> QED
  BY <1>1 DEF PathInit, PathInv, ArenaInv, CallInv, LookupInv, GridInv, SearchInv, PathIsShortest

LEMMA WorldFacts ==
  ASSUME PathInv
  PROVE  /\ world = [seed |-> world.seed, opened |-> world.opened, player |-> world.player]
         /\ world.seed \in Nat /\ world.seed \in Seeds /\ gCurrentGen \in Nat
BY PathAssumption DEF PathInv, WorldInv

(* What does not touch the search. *)
LEMMA SearchGoesOn ==
  ASSUME PathInv, UNCHANGED <<arena, gCurrentGen, search, answer>>,
         search # Nothing => call' = call /\ lookup' = lookup
  PROVE  ArenaInv' /\ SearchInv' /\ PathIsShortest'
<1>1. ArenaIsGood => ArenaIsGood'
  BY DEF ArenaIsGood, IsNode
<1>2. ArenaInv'
  BY <1>1 DEF PathInv, ArenaInv
<1>3. \A l : Gs(l)' = Gs(l) /\ Ks(l)' = Ks(l) /\ Ps(l)' = Ps(l)
  BY DEF Gs, Ks, Ps, Touch
<1>4. SearchInv'
  BY <1>1, <1>3 DEF PathInv, SearchInv
<1>5. PathIsShortest'
  BY DEF PathInv, PathIsShortest
<1> QED
  BY <1>2, <1>4, <1>5

(* What the game has, and the doors that are unseen, only get to be what   *)
(* the grids have not seen.                                                *)
LEMMA GridsStay ==
  ASSUME PathInv, UNCHANGED <<call, lookup, grid, arena, gCurrentGen, search, answer>>, world'.seed = world.seed,
         \A l : \A c \in Cells[l] : GameFlags(l)'[c] = GameFlags(l)[c] \/ <<l, c>> \in unseen',
         unseen \subseteq unseen'
  PROVE  CallInv' /\ LookupInv' /\ GridInv' /\ ArenaInv' /\ SearchInv' /\ PathIsShortest'
<1>1. CallInv'
  BY DEF PathInv, CallInv
<1>2. LookupInv'
  <2> SUFFICES ASSUME lookup # Nothing, lookup.seed = world.seed, NEW c \in Cells[lookup.level]
               PROVE  lookup.flags[c] = GameFlags(lookup.level)'[c] \/ <<lookup.level, c>> \in unseen'
    BY DEF PathInv, LookupInv
  <2>1. lookup.flags[c] = GameFlags(lookup.level)[c] \/ <<lookup.level, c>> \in unseen
    BY DEF PathInv, LookupInv
  <2>2. PICK l : l = lookup.level
    OBVIOUS
  <2>3. GameFlags(l)'[c] = GameFlags(l)[c] \/ <<l, c>> \in unseen'
    BY <2>2
  <2> QED
    BY <2>1, <2>2, <2>3 DEF GameFlags
<1>3. GridInv'
  <2> SUFFICES ASSUME grid # Nothing, grid.seed = world.seed, NEW c \in Cells[grid.level], RoomOf(c) \notin grid.rooms
               PROVE  grid.flags[c] = GameFlags(grid.level)'[c] \/ <<grid.level, c>> \in unseen'
    BY DEF PathInv, GridInv
  <2>1. grid.flags[c] = GameFlags(grid.level)[c] \/ <<grid.level, c>> \in unseen
    BY DEF PathInv, GridInv
  <2>2. PICK l : l = grid.level
    OBVIOUS
  <2>3. GameFlags(l)'[c] = GameFlags(l)[c] \/ <<l, c>> \in unseen'
    BY <2>2
  <2> QED
    BY <2>1, <2>2, <2>3 DEF GameFlags
<1> QED
  BY <1>1, <1>2, <1>3, SearchGoesOn

(* The world. *)
LEMMA PlayerKeeps ==
  ASSUME PathInv, NEW l, NEW room, PlayerGoes(l, room)
  PROVE  PathInv'
<1>1. world' = [seed |-> world.seed, opened |-> world.opened, player |-> [level |-> l, room |-> room]]
  BY WorldFacts DEF PlayerGoes
<1>2. UNCHANGED <<call, lookup, grid, arena, gCurrentGen, search, answer, unseen>>
  BY DEF PlayerGoes
<1>3. WorldInv'
  BY <1>1, <1>2 DEF PathInv, WorldInv
<1>4. \A x : GameFlags(x)' = GameFlags(x)
  BY <1>1 DEF GameFlags
<1> QED
  BY <1>1, <1>2, <1>3, <1>4, GridsStay DEF PathInv

LEMMA DoorKeeps ==
  ASSUME PathInv, NEW l, NEW c, DoorOpens(l, c)
  PROVE  PathInv'
<1>1. world' = [seed |-> world.seed, opened |-> world.opened \union {<<l, c>>}, player |-> world.player]
  BY WorldFacts DEF DoorOpens
<1>2. UNCHANGED <<call, lookup, grid, arena, gCurrentGen, search, answer>> /\ unseen' = unseen \union {<<l, c>>}
  BY DEF DoorOpens
<1>3. WorldInv'
  BY <1>1, <1>2 DEF PathInv, WorldInv
<1>4. \A x : \A y \in Cells[x] : GameFlags(x)'[y] = GameFlags(x)[y] \/ <<x, y>> \in unseen'
  BY <1>1, <1>2 DEF GameFlags
<1> QED
  BY <1>1, <1>2, <1>3, <1>4, GridsStay DEF PathInv

(* In another game nothing that is kept fits. *)
LEMMA GameKeeps ==
  ASSUME PathInv, NEW s \in Seeds, NewGame(s)
  PROVE  PathInv'
<1>1. world' = [seed |-> s, opened |-> {}, player |-> world.player] /\ s > world.seed /\ s \in Nat
  BY WorldFacts, PathAssumption DEF NewGame
<1>2. UNCHANGED <<lookup, grid, arena, gCurrentGen, search, answer>>
  BY DEF NewGame
<1>3. /\ call = Nothing => call' = Nothing
      /\ call # Nothing => /\ call' \in Calls /\ call' # Nothing
                           /\ call'.request = call.request /\ call'.fits = call.fits /\ call'.steady = FALSE
  BY PathAssumption DEF NewGame, PathInv, CallInv, Calls
<1>4. WorldInv'
  BY <1>1, <1>2 DEF PathInv, WorldInv
<1>5. ASSUME NEW z \in Seeds, z <= world.seed
      PROVE  z <= s /\ z # s
  BY <1>1, <1>5, WorldFacts, PathAssumption
<1>6. LookupInv'
  BY <1>1, <1>2, <1>5 DEF PathInv, LookupInv
<1>7. GridInv'
  <2> SUFFICES ASSUME grid # Nothing
               PROVE  GridInv'
    BY <1>2 DEF GridInv
  <2>1. call # Nothing /\ ~call.fits /\ grid.level = call.request.level /\ grid.seed \in Seeds /\ grid.seed <= world.seed
    BY DEF PathInv, GridInv
  <2>2. call'.request = call.request /\ call'.fits = call.fits /\ call'.steady = FALSE /\ call' # Nothing
    BY <1>3, <2>1
  <2> QED
    BY <1>1, <1>2, <1>5, <2>1, <2>2 DEF PathInv, GridInv
<1>8. CallInv'
  BY <1>2, <1>3 DEF PathInv, CallInv
<1>9. ArenaInv' /\ SearchInv' /\ PathIsShortest'
  <2>1. search # Nothing => call = Nothing
    BY DEF PathInv, SearchInv
  <2> QED
    BY <1>2, <1>3, <2>1, SearchGoesOn
<1> QED
  BY <1>4, <1>6, <1>7, <1>8, <1>9 DEF PathInv

-----------------------------------------------------------------------------
(* A call, before its search. *)

LEMMA FindKeeps ==
  ASSUME PathInv, NEW r \in Requests, FindPath(r)
  PROVE  PathInv'
<1>1. /\ call = Nothing /\ search = Nothing /\ answer' = Nothing
      /\ call' = [request |-> r, fits |-> Fits(r.level), steady |-> TRUE]
      /\ UNCHANGED <<world, lookup, grid, arena, gCurrentGen, search, unseen>>
  BY DEF FindPath
<1>2. WorldInv' /\ LookupInv' /\ ArenaInv'
  BY <1>1 DEF PathInv, WorldInv, LookupInv, GameFlags, ArenaInv, ArenaIsGood, IsNode
<1>3. GridInv'
  BY <1>1 DEF PathInv, GridInv
<1>4. CallInv'
  BY <1>1 DEF CallInv, Calls, Fits
<1>5. SearchInv' /\ PathIsShortest'
  BY <1>1 DEF SearchInv, PathIsShortest
<1> QED
  BY <1>2, <1>3, <1>4, <1>5 DEF PathInv

LEMMA NoLevelKeeps ==
  ASSUME PathInv, NoLevel
  PROVE  PathInv'
<1>1. /\ call # Nothing /\ grid = Nothing /\ call' = Nothing
      /\ UNCHANGED <<world, lookup, grid, arena, gCurrentGen, search, searches, answer, unseen>>
  BY DEF NoLevel
<1>2. search = Nothing
  BY <1>1 DEF PathInv, CallInv
<1>3. WorldInv' /\ LookupInv' /\ GridInv' /\ CallInv'
  BY <1>1 DEF PathInv, WorldInv, LookupInv, GridInv, CallInv, GameFlags
<1> QED
  BY <1>1, <1>2, <1>3, SearchGoesOn DEF PathInv

LEMMA BeginKeeps ==
  ASSUME PathInv, BeginGrid
  PROVE  PathInv'
<1> DEFINE l == call.request.level
           all == [c \in Cells[l] |-> Flags]
<1>1. /\ call # Nothing /\ ~call.fits /\ lookup' = Nothing
      /\ grid' = [level |-> l, seed |-> world.seed, flags |-> all, rooms |-> RoomsIn(l)]
      /\ UNCHANGED <<world, call, arena, gCurrentGen, search, searches, answer, unseen>>
  BY DEF BeginGrid
<1>2. search = Nothing
  BY <1>1 DEF PathInv, CallInv
<1>3. WorldInv' /\ LookupInv' /\ CallInv'
  BY <1>1 DEF PathInv, WorldInv, LookupInv, CallInv
<1>4. GridInv'
  <2>1. all = [c \in Cells[l] |-> all[c]]
    OBVIOUS
  <2>2. \A c \in Cells[l] : RoomOf(c) \in RoomsIn(l)
    BY DEF RoomsIn
  <2>3. world.seed \in Seeds /\ world.seed <= world.seed
    BY WorldFacts
  <2> HIDE DEF all
  <2> QED
    BY <1>1, <2>1, <2>2, <2>3 DEF GridInv
<1> QED
  BY <1>1, <1>2, <1>3, <1>4, SearchGoesOn DEF PathInv

(* What is copied of a grid is as the game has it. *)
LEMMA CopiedFacts ==
  ASSUME NEW l, NEW flags, NEW cells
  PROVE  /\ Copied(l, flags, cells) = [c \in Cells[l] |-> Copied(l, flags, cells)[c]]
         /\ \A c \in Cells[l] : Copied(l, flags, cells)[c] = IF c \in cells THEN GameFlags(l)[c] ELSE flags[c]
BY DEF Copied

LEMMA CopyKeeps ==
  ASSUME PathInv, CopyRoom
  PROVE  PathInv'
<1> DEFINE l == grid.level
<1>1. PICK room \in grid.rooms :
        LET cells == {c \in Cells[l] : RoomOf(c) = room}
        IN /\ grid' = [grid EXCEPT !.flags = Copied(l, @, cells), !.rooms = @ \ {room}]
           /\ unseen' = unseen \ {<<l, c>> : c \in cells}
  BY DEF CopyRoom
<1> DEFINE cells == {c \in Cells[l] : RoomOf(c) = room}
           flags == Copied(l, grid.flags, cells)
<1>2. grid # Nothing /\ UNCHANGED <<world, call, lookup, arena, gCurrentGen, search, searches, answer>>
  BY DEF CopyRoom
<1>3. /\ grid = [level |-> l, seed |-> grid.seed, flags |-> grid.flags, rooms |-> grid.rooms]
      /\ lookup = Nothing /\ call # Nothing /\ ~call.fits /\ l = call.request.level
      /\ grid.seed \in Seeds /\ grid.seed <= world.seed
      /\ call.steady => grid.seed = world.seed
  BY <1>2 DEF PathInv, GridInv
<1>4. search = Nothing
  BY <1>3 DEF PathInv, CallInv
<1>5. grid' = [level |-> l, seed |-> grid.seed, flags |-> flags, rooms |-> grid.rooms \ {room}]
  <2>1. PICK f, R : f = flags /\ R = grid.rooms \ {room}
    OBVIOUS
  <2>2. grid' = [grid EXCEPT !.flags = f, !.rooms = R]
    BY <1>1, <2>1
  <2>3. PICK x, s, f0, R0 : grid = [level |-> x, seed |-> s, flags |-> f0, rooms |-> R0]
    BY <1>3
  <2>4. grid' = [level |-> x, seed |-> s, flags |-> f, rooms |-> R] /\ l = x /\ grid.seed = s
    BY <2>2, <2>3
  <2> QED
    BY <2>1, <2>4
<1>6. WorldInv' /\ CallInv' /\ LookupInv'
  BY <1>2, <1>3 DEF PathInv, WorldInv, CallInv, LookupInv
<1>7. GridInv'
  <2>1. flags = [c \in Cells[l] |-> flags[c]]
    BY CopiedFacts
  <2>2. ASSUME grid.seed = world.seed, NEW c \in Cells[l], c \in cells
        PROVE  flags[c] = GameFlags(l)[c]
    BY <2>2, CopiedFacts
  <2>3. ASSUME grid.seed = world.seed, NEW c \in Cells[l], c \notin cells, RoomOf(c) \notin grid.rooms \ {room}
        PROVE  flags[c] = GameFlags(l)[c] \/ <<l, c>> \in unseen'
    <3>1. flags[c] = grid.flags[c]
      BY <2>3, CopiedFacts
    <3>2. RoomOf(c) \notin grid.rooms
      BY <2>3
    <3>3. grid.flags[c] = GameFlags(l)[c] \/ <<l, c>> \in unseen
      BY <1>2, <2>3, <3>2 DEF PathInv, GridInv
    <3>4. <<l, c>> \in unseen => <<l, c>> \in unseen'
      BY <1>1, <2>3
    <3> QED
      BY <3>1, <3>3, <3>4
  <2>4. GameFlags(l)' = GameFlags(l)
    BY <1>2, <1>5 DEF GameFlags
  <2> HIDE DEF flags
  <2>5. /\ grid'.level = l /\ grid'.seed = grid.seed /\ grid'.flags = flags /\ grid'.rooms = grid.rooms \ {room}
    BY <1>5
  <2>6. ASSUME grid'.seed = world'.seed, NEW c \in Cells[l]
        PROVE  RoomOf(c) \in grid'.rooms \/ grid'.flags[c] = GameFlags(l)[c] \/ <<l, c>> \in unseen'
    BY <1>2, <2>2, <2>3, <2>5, <2>6
  <2>7. GameFlags(grid.level)' = GameFlags(l)
    BY <1>2, <2>5 DEF GameFlags
  <2> HIDE DEF l
  <2> QED
    BY <1>2, <1>3, <1>5, <2>1, <2>5, <2>6, <2>7 DEF GridInv
<1> QED
  BY <1>2, <1>4, <1>6, <1>7, SearchGoesOn DEF PathInv

LEMMA GoneKeeps ==
  ASSUME PathInv, RoomIsGone
  PROVE  PathInv'
<1>1. /\ grid # Nothing /\ grid.seed # world.seed /\ grid' = [grid EXCEPT !.rooms = {}]
      /\ UNCHANGED <<world, call, lookup, arena, gCurrentGen, search, searches, answer, unseen>>
  BY DEF RoomIsGone
<1>2. /\ grid = [level |-> grid.level, seed |-> grid.seed, flags |-> grid.flags, rooms |-> grid.rooms]
      /\ call # Nothing
  BY <1>1 DEF PathInv, GridInv
<1>3. search = Nothing
  BY <1>2 DEF PathInv, CallInv
<1>4. grid' = [level |-> grid.level, seed |-> grid.seed, flags |-> grid.flags, rooms |-> {}]
  BY <1>1, <1>2
<1>5. GridInv'
  BY <1>1, <1>4 DEF PathInv, GridInv
<1>6. WorldInv' /\ CallInv' /\ LookupInv'
  BY <1>1 DEF PathInv, WorldInv, CallInv, LookupInv, GameFlags
<1> QED
  BY <1>1, <1>3, <1>5, <1>6, SearchGoesOn DEF PathInv

-----------------------------------------------------------------------------
(* A search begins. *)

(* The nodes it begins with: those that are kept, or new ones. *)
FirstArena(l) == IF KeptArena(l) = Nothing THEN [c \in Cells[l] |-> Untouched] ELSE KeptArena(l)

(* None of them is of this generation. *)
LEMMA ArenaIsFresh ==
  ASSUME PathInv, NEW l
  PROVE  /\ NextGeneration \in 1..MaxGen
         /\ FirstArena(l) = [c \in Cells[l] |-> FirstArena(l)[c]]
         /\ \A c \in Cells[l] :
              LET x == FirstArena(l)[c]
              IN /\ x = [generation |-> x.generation, g |-> x.g, parent |-> x.parent, closed |-> x.closed]
                 /\ x.generation \in Nat /\ x.generation < NextGeneration
                 /\ x.g \in Nat /\ x.closed \in BOOLEAN
<1>1. gCurrentGen \in 0..MaxGen /\ MaxGen \in Nat \ {0}
  BY PathAssumption DEF PathInv, WorldInv
<1>2. NextGeneration \in 1..MaxGen
  BY <1>1 DEF NextGeneration
<1>3. CASE arena # Nothing /\ DOMAIN arena = Cells[l] /\ gCurrentGen < MaxGen
  <2>1. FirstArena(l) = arena
    BY <1>3 DEF FirstArena, KeptArena
  <2>2. ArenaIsGood /\ NextGeneration = gCurrentGen + 1
    BY <1>3 DEF PathInv, ArenaInv, NextGeneration
  <2>3. arena = [c \in Cells[l] |-> arena[c]] /\ \A c \in Cells[l] : IsNode(arena[c])
    BY <1>3, <2>2 DEF ArenaIsGood
  <2>4. ASSUME NEW c \in Cells[l]
        PROVE  LET x == arena[c]
               IN /\ x = [generation |-> x.generation, g |-> x.g, parent |-> x.parent, closed |-> x.closed]
                  /\ x.generation \in Nat /\ x.generation < NextGeneration
                  /\ x.g \in Nat /\ x.closed \in BOOLEAN
    BY <1>1, <2>2, <2>3 DEF IsNode
  <2> QED
    BY <1>2, <2>1, <2>3, <2>4
<1>4. CASE ~(arena # Nothing /\ DOMAIN arena = Cells[l] /\ gCurrentGen < MaxGen)
  <2> DEFINE nodes == [c \in Cells[l] |-> Untouched]
  <2>1. FirstArena(l) = nodes
    BY <1>4 DEF FirstArena, KeptArena
  <2>2. \A c \in Cells[l] : nodes[c] = Untouched
    OBVIOUS
  <2>3. nodes = [c \in Cells[l] |-> nodes[c]]
    OBVIOUS
  <2>4. LET x == Untouched
        IN /\ x = [generation |-> x.generation, g |-> x.g, parent |-> x.parent, closed |-> x.closed]
           /\ x.generation \in Nat /\ x.generation < NextGeneration
           /\ x.g \in Nat /\ x.closed \in BOOLEAN
    BY <1>2, InfinityIsNat DEF Untouched
  <2> HIDE DEF nodes
  <2> QED
    BY <1>2, <2>1, <2>2, <2>3, <2>4
<1> QED
  BY <1>3, <1>4

(* With the start as its only known cell. *)
LEMMA FirstNodes ==
  ASSUME PathInv, NEW r \in Requests, NEW next, next = NextGeneration, gCurrentGen' = next,
         arena' = [FirstArena(r.level) EXCEPT ![r.start] =
                     [generation |-> next, g |-> 0, parent |-> Nothing, closed |-> FALSE]]
  PROVE  /\ ArenaIsGood' /\ DOMAIN arena' = Cells[r.level]
         /\ \A c \in Cells[r.level] :
              /\ Touch(c)'.closed = FALSE /\ Touch(c)'.parent = Nothing
              /\ Touch(c)'.g = (IF c = r.start THEN 0 ELSE Infinity)
<1> DEFINE l == r.level
           old == FirstArena(l)
           first == [generation |-> next, g |-> 0, parent |-> Nothing, closed |-> FALSE]
<1>1. /\ next \in 1..MaxGen
      /\ old = [c \in Cells[l] |-> old[c]]
      /\ \A c \in Cells[l] :
           /\ old[c] = [generation |-> old[c].generation, g |-> old[c].g, parent |-> old[c].parent, closed |-> old[c].closed]
           /\ old[c].generation \in Nat /\ old[c].generation < next
           /\ old[c].g \in Nat /\ old[c].closed \in BOOLEAN
  BY ArenaIsFresh
<1>2. r.start \in Cells[l] /\ MaxGen \in Nat
  BY RequestFacts, PathAssumption
<1>3. arena' = [old EXCEPT ![r.start] = first]
  OBVIOUS
<1> HIDE DEF old
<1>4. arena' = [c \in Cells[l] |-> IF c = r.start THEN first ELSE old[c]]
  <2> HIDE DEF first
  <2> QED
    BY <1>1, <1>2, <1>3
<1>5. ASSUME NEW c \in Cells[l]
      PROVE  /\ IsNode(arena[c])'
             /\ Touch(c)' = IF c = r.start THEN first
                            ELSE [generation |-> next, g |-> Infinity, parent |-> Nothing, closed |-> FALSE]
  <2>1. CASE c = r.start
    <3>1. arena'[c] = first
      BY <1>4, <2>1
    <3>2. next \in 0..gCurrentGen'
      BY <1>1, <1>2
    <3>5. PICK x : x = [generation |-> next, g |-> 0, parent |-> Nothing, closed |-> FALSE]
      OBVIOUS
    <3>7. /\ x = [generation |-> x.generation, g |-> x.g, parent |-> x.parent, closed |-> x.closed]
          /\ x.generation = next /\ x.g = 0 /\ x.closed = FALSE
      BY <3>5
    <3>8. arena'[c] = x
      BY <3>1, <3>5
    <3>6. 0 \in Nat /\ FALSE \in BOOLEAN
      OBVIOUS
    <3>3. IsNode(arena[c])'
      BY <3>2, <3>6, <3>7, <3>8 DEF IsNode
    <3>4. Touch(c)' = arena'[c]
      BY <3>1 DEF Touch
    <3> QED
      BY <2>1, <3>1, <3>3, <3>4
  <2>2. CASE c # r.start
    <3>1. arena'[c] = old[c]
      BY <1>4, <2>2
    <3>2. /\ old[c] = [generation |-> old[c].generation, g |-> old[c].g, parent |-> old[c].parent, closed |-> old[c].closed]
          /\ old[c].generation \in Nat /\ old[c].generation < next
          /\ old[c].g \in Nat /\ old[c].closed \in BOOLEAN
      BY <1>1
    <3>3. old[c].generation \in 0..gCurrentGen' /\ old[c].generation # gCurrentGen'
      BY <3>2, <1>1, <1>2
    <3>4. IsNode(arena[c])'
      BY <3>1, <3>2, <3>3 DEF IsNode
    <3>5. Touch(c)' = [Untouched EXCEPT !.generation = gCurrentGen']
      BY <3>1, <3>3 DEF Touch
    <3>6. Touch(c)' = [generation |-> next, g |-> Infinity, parent |-> Nothing, closed |-> FALSE]
      BY <3>5 DEF Untouched
    <3> QED
      BY <2>2, <3>4, <3>6
  <2> QED
    BY <2>1, <2>2
<1>6. DOMAIN arena' = Cells[l]
  BY <1>4
<1>7. arena' = [c \in DOMAIN arena' |-> arena'[c]]
  <2> DEFINE f == arena'
             value(c) == IF c = r.start THEN first ELSE old[c]
  <2>1. f = [c \in Cells[l] |-> value(c)]
    BY <1>4
  <2> HIDE DEF f, value
  <2>2. f = [c \in Cells[l] |-> f[c]]
    BY <2>1
  <2> QED
    BY <1>6, <2>2 DEF f
<1>8. ArenaIsGood'
  BY <1>5, <1>6, <1>7 DEF ArenaIsGood
<1> QED
  BY <1>5, <1>6, <1>8

(* The search of a call begins, on a grid that differs from the game only  *)
(* in what it has not seen.                                                *)
LEMMA WalkKeeps ==
  ASSUME PathInv, call # Nothing, WalkStarts, world' = world, NEW r \in Requests, r = call.request,
         LookupInv', lookup'.flags = [c \in Cells[r.level] |-> lookup'.flags[c]],
         call.steady => \A c \in Cells[r.level] :
                          lookup'.flags[c] = GameFlags(r.level)[c] \/ <<r.level, c>> \in unseen',
         grid' = Nothing
  PROVE  PathInv'
<1> DEFINE l == r.level
<1>2. call' = Nothing /\ gCurrentGen' = NextGeneration
  BY DEF WalkStarts
<1>3. gCurrentGen \in 0..MaxGen /\ NextGeneration \in 1..MaxGen /\ MaxGen \in Nat
  BY ArenaIsFresh, PathAssumption DEF PathInv, WorldInv
<1>4. WorldInv' /\ CallInv' /\ GridInv'
  BY <1>2, <1>3 DEF PathInv, WorldInv, CallInv, GridInv
<1>5. CASE /\ arena' = IF gCurrentGen < MaxGen THEN arena ELSE Nothing
           /\ search' = Nothing /\ answer' = Nothing
  <2>1. SearchInv' /\ PathIsShortest'
    BY <1>5 DEF SearchInv, PathIsShortest
  <2>2. ArenaInv'
    <3> SUFFICES ASSUME arena' # Nothing
                 PROVE  ArenaIsGood'
      BY DEF ArenaInv
    <3>1. arena' = arena /\ gCurrentGen' = gCurrentGen + 1 /\ ArenaIsGood
      BY <1>2, <1>5 DEF NextGeneration, PathInv, ArenaInv
    <3>2. \A k \in 0..gCurrentGen : k \in 0..gCurrentGen'
      BY <1>3, <3>1
    <3> QED
      BY <3>1, <3>2 DEF ArenaIsGood, IsNode
  <2> QED
    BY <1>4, <2>1, <2>2 DEF PathInv
<1>6. CASE /\ arena' = [FirstArena(l) EXCEPT ![r.start] =
                           [generation |-> NextGeneration, g |-> 0, parent |-> Nothing, closed |-> FALSE]]
           /\ search' = [request |-> r, open |-> {<<DiagonalShortcut(r.start, r.goal), r.start>>}]
           /\ answer' = [request |-> r, terrain |-> Terrain(r, GameFlags(l)),
                         known |-> call.steady /\ \A door \in unseen' : door[1] # l,
                         path |-> Nothing]
  <2> DEFINE B == Terrain(r, lookup'.flags)
  <2>1. /\ ArenaIsGood' /\ DOMAIN arena' = Cells[l]
        /\ \A c \in Cells[l] :
             /\ Touch(c)'.closed = FALSE /\ Touch(c)'.parent = Nothing
             /\ Touch(c)'.g = (IF c = r.start THEN 0 ELSE Infinity)
    <3>1. PICK next : next = NextGeneration
      OBVIOUS
    <3> QED
      BY <1>2, <1>6, <3>1, FirstNodes
  <2>2. Sound(r, B, Gs(l)', {}, Ps(l)', {<<DiagonalShortcut(r.start, r.goal), r.start>>})
    <3> DEFINE G == Gs(l)'
               P == Ps(l)'
    <3>1. r.start \in Cells[l]
      BY RequestFacts
    <3>2. G = [c \in Cells[l] |-> IF c = r.start THEN 0 ELSE Infinity]
      BY <1>2, <2>1 DEF Gs
    <3>3. P[r.start] = Nothing
      BY <2>1, <3>1 DEF Ps
    <3>4. Tame(r, B)
      BY TerrainIsTame
    <3> HIDE DEF G, P, B
    <3>5. G \in [Cells[l] -> Nat] /\ G[r.start] = 0 /\ \A c \in Cells[l] : c # r.start => G[c] = Infinity
      BY <3>1, <3>2, InfinityIsNat
    <3>6. Sound(r, B, G, {}, P, {<<DiagonalShortcut(r.start, r.goal), r.start>>})
      BY <3>3, <3>4, <3>5, SoundAtFirst
    <3> QED
      BY <3>6 DEF G, P
  <2>3. Ks(l)' = {}
    BY <2>1 DEF Ks
  <2>4. answer'.known => lookup'.flags = GameFlags(l)
    <3> SUFFICES ASSUME call.steady, \A door \in unseen' : door[1] # l
                 PROVE  lookup'.flags = GameFlags(l)
      BY <1>6
    <3>1. /\ lookup'.flags = [c \in Cells[l] |-> lookup'.flags[c]]
          /\ \A c \in Cells[l] : lookup'.flags[c] = GameFlags(l)[c] \/ <<l, c>> \in unseen'
      OBVIOUS
    <3>3. GameFlags(l) = [c \in Cells[l] |-> GameFlags(l)[c]]
      BY DEF GameFlags
    <3>4. \A c \in Cells[l] : lookup'.flags[c] = GameFlags(l)[c]
      <4> TAKE c \in Cells[l]
      <4>1. <<l, c>>[1] = l
        OBVIOUS
      <4>2. <<l, c>> \notin unseen'
        BY <4>1
      <4> QED
        BY <3>1, <4>2
    <3> HIDE DEF l
    <3> QED
      BY <3>1, <3>3, <3>4
  <2>5. SearchInv'
    <3>1. /\ search'.request = r /\ search'.open = {<<DiagonalShortcut(r.start, r.goal), r.start>>}
          /\ search' = [request |-> r, open |-> search'.open]
          /\ answer'.terrain = Terrain(r, GameFlags(l))
          /\ answer' = [request |-> r, terrain |-> answer'.terrain, known |-> answer'.known, path |-> Nothing]
      BY <1>6
    <3>2. answer'.known => Terrain(r, lookup'.flags) = answer'.terrain
      BY <2>4, <3>1
    <3>3. Sound(r, B, Gs(l)', Ks(l)', Ps(l)', search'.open)
      BY <2>2, <2>3, <3>1
    <3> HIDE DEF B
    <3> QED
      BY <1>2, <2>1, <3>1, <3>2, <3>3 DEF SearchInv, B
  <2>6. ArenaInv' /\ PathIsShortest'
    BY <1>6, <2>1 DEF ArenaInv, PathIsShortest
  <2> QED
    BY <1>4, <2>5, <2>6 DEF PathInv
<1> QED
  BY <1>5, <1>6 DEF WalkStarts, FirstArena

LEMMA KeepGridKeeps ==
  ASSUME PathInv, KeepGrid
  PROVE  PathInv'
<1>1. /\ grid # Nothing /\ grid.rooms = {} /\ grid' = Nothing /\ WalkStarts
      /\ lookup' = [level |-> grid.level, seed |-> grid.seed, flags |-> grid.flags]
      /\ world' = world /\ unseen' = unseen
  BY DEF KeepGrid
<1>2. call # Nothing /\ call \in Calls
  BY <1>1 DEF PathInv, GridInv, CallInv
<1>3. PICK r \in Requests : r = call.request
  BY <1>2 DEF Calls
<1>4. /\ grid.level = r.level
      /\ grid.flags = [c \in Cells[r.level] |-> grid.flags[c]]
      /\ grid.seed \in Seeds /\ grid.seed <= world.seed
      /\ grid.seed = world.seed =>
           \A c \in Cells[r.level] : grid.flags[c] = GameFlags(r.level)[c] \/ <<r.level, c>> \in unseen
      /\ call.steady => grid.seed = world.seed
  BY <1>1, <1>3 DEF PathInv, GridInv
<1>5. lookup'.level = r.level /\ lookup'.seed = grid.seed /\ lookup'.flags = grid.flags
  BY <1>1, <1>4
<1>6. GameFlags(r.level)' = GameFlags(r.level)
  BY <1>1 DEF GameFlags
<1>7. LookupInv'
  <2>1. lookup' = [level |-> lookup'.level, seed |-> lookup'.seed, flags |-> lookup'.flags]
    BY <1>1
  <2>2. GameFlags(lookup.level)' = GameFlags(r.level)
    BY <1>1, <1>5 DEF GameFlags
  <2> QED
    BY <1>1, <1>4, <1>5, <2>1, <2>2 DEF LookupInv
<1>8. /\ lookup'.flags = [c \in Cells[r.level] |-> lookup'.flags[c]]
      /\ call.steady => \A c \in Cells[r.level] :
                          lookup'.flags[c] = GameFlags(r.level)[c] \/ <<r.level, c>> \in unseen'
  BY <1>1, <1>4, <1>5
<1> QED
  BY <1>1, <1>2, <1>3, <1>7, <1>8, WalkKeeps

(* What has been copied again is as the game has it, and need not be       *)
(* remembered as unseen.                                                   *)
LEMMA RefreshKeeps ==
  ASSUME PathInv, Refresh
  PROVE  PathInv'
<1>1. call # Nothing /\ call.fits /\ WalkStarts /\ world' = world /\ grid' = grid
  BY DEF Refresh
<1>2. /\ call \in Calls /\ lookup # Nothing /\ lookup.level = call.request.level
      /\ call.steady => lookup.seed = world.seed
  BY <1>1 DEF PathInv, CallInv
<1>3. PICK r \in Requests : r = call.request
  BY <1>2 DEF Calls
<1> DEFINE l == r.level
<1>4. PICK cells :
        /\ lookup' = [lookup EXCEPT !.flags = Copied(l, @, cells)]
        /\ unseen' = unseen \ {<<l, c>> : c \in cells}
  BY <1>3 DEF Refresh
<1> DEFINE flags == Copied(l, lookup.flags, cells)
<1>5. /\ lookup = [level |-> l, seed |-> lookup.seed, flags |-> lookup.flags]
      /\ lookup.seed \in Seeds /\ lookup.seed <= world.seed
      /\ lookup.seed = world.seed =>
           \A c \in Cells[l] : lookup.flags[c] = GameFlags(l)[c] \/ <<l, c>> \in unseen
  BY <1>2, <1>3 DEF PathInv, LookupInv
<1>6. lookup' = [level |-> l, seed |-> lookup.seed, flags |-> flags]
  <2>1. PICK f : f = flags
    OBVIOUS
  <2>2. PICK s, f0 : lookup = [level |-> l, seed |-> s, flags |-> f0] /\ s = lookup.seed
    BY <1>5
  <2>3. lookup' = [lookup EXCEPT !.flags = f]
    BY <1>4, <2>1
  <2>4. lookup' = [level |-> l, seed |-> s, flags |-> f]
    BY <2>2, <2>3
  <2> QED
    BY <2>1, <2>2, <2>4
<1>7. flags = [c \in Cells[l] |-> flags[c]]
  BY CopiedFacts
<1>8. ASSUME lookup.seed = world.seed, NEW c \in Cells[l]
      PROVE  flags[c] = GameFlags(l)[c] \/ <<l, c>> \in unseen'
  <2>1. CASE c \in cells
    BY <2>1, CopiedFacts
  <2>2. CASE c \notin cells
    <3>1. flags[c] = lookup.flags[c]
      BY <2>2, CopiedFacts
    <3>2. <<l, c>> \in unseen => <<l, c>> \in unseen'
      BY <1>4, <2>2
    <3> QED
      BY <1>5, <1>8, <3>1, <3>2
  <2> QED
    BY <2>1, <2>2
<1> HIDE DEF flags
<1>9. lookup'.level = l /\ lookup'.seed = lookup.seed /\ lookup'.flags = flags
  BY <1>6
<1>10. LookupInv'
  <2>1. GameFlags(lookup.level)' = GameFlags(l)
    BY <1>1, <1>9 DEF GameFlags
  <2>2. lookup' = [level |-> lookup'.level, seed |-> lookup'.seed, flags |-> lookup'.flags]
    BY <1>6
  <2> QED
    BY <1>1, <1>5, <1>7, <1>8, <1>9, <2>1, <2>2 DEF LookupInv
<1>11. grid = Nothing
  BY <1>1 DEF PathInv, GridInv
<1> QED
  BY <1>1, <1>2, <1>3, <1>7, <1>8, <1>9, <1>10, <1>11, WalkKeeps

-----------------------------------------------------------------------------
(* A search goes on. *)

LEMMA SearchFacts ==
  ASSUME PathInv, search # Nothing
  PROVE  /\ search.request \in Requests /\ call = Nothing
         /\ search = [request |-> search.request, open |-> search.open]
         /\ answer = [request |-> search.request, terrain |-> answer.terrain, known |-> answer.known, path |-> Nothing]
         /\ ArenaIsGood /\ DOMAIN arena = Cells[search.request.level] /\ gCurrentGen \in Nat
         /\ answer.known => Terrain(search.request, lookup.flags) = answer.terrain
         /\ Sound(search.request, Terrain(search.request, lookup.flags), Gs(search.request.level),
                  Ks(search.request.level), Ps(search.request.level), search.open)
BY WorldFacts DEF PathInv, SearchInv

(* An answer ends the search. *)
LEMMA EndKeeps ==
  ASSUME PathInv, search # Nothing, NEW path, Ends(path),
         UNCHANGED <<world, call, lookup, grid, arena, gCurrentGen, searches, unseen>>,
         NEW r, r = search.request,
         answer.known => IF path = <<>> THEN Cheapest(r, answer.terrain) = {}
                         ELSE IsWay(path, r, answer.terrain) /\ Cheapest(r, answer.terrain) = {CostOf(path, answer.terrain)}
  PROVE  PathInv'
<1>1. search' = Nothing /\ answer' = [request |-> r, terrain |-> answer.terrain, known |-> answer.known, path |-> path]
  BY SearchFacts DEF Ends
<1>2. PathIsShortest'
  BY <1>1 DEF PathIsShortest
<1>3. SearchInv'
  BY <1>1 DEF SearchInv
<1>4. WorldInv' /\ ArenaInv'
  BY DEF PathInv, WorldInv, ArenaInv, ArenaIsGood, IsNode
<1>5. CallInv' /\ LookupInv' /\ GridInv'
  BY SearchFacts DEF PathInv, CallInv, LookupInv, GridInv, GameFlags
<1> QED
  BY <1>2, <1>3, <1>4, <1>5 DEF PathInv

LEMMA NoPathKeeps ==
  ASSUME PathInv, NoPath
  PROVE  PathInv'
<1> DEFINE r == search.request
<1>1. search # Nothing /\ search.open = {} /\ Ends(<<>>)
      /\ UNCHANGED <<world, call, lookup, grid, arena, gCurrentGen, searches, unseen>>
  BY DEF NoPath
<1>2. ASSUME answer.known
      PROVE  Cheapest(r, answer.terrain) = {}
  <2>1. Sound(r, Terrain(r, lookup.flags), Gs(r.level), Ks(r.level), Ps(r.level), {}) /\ r \in Requests
    BY <1>1, SearchFacts
  <2>2. Terrain(r, lookup.flags) = answer.terrain
    BY <1>1, <1>2, SearchFacts
  <2> HIDE DEF r
  <2> QED
    BY <2>1, <2>2, NothingOpenNoWay
<1> QED
  BY <1>1, <1>2, EndKeeps

(* The best entry is the goal's: the chain of parents is a cheapest way. *)
LEMMA GoalIsReached ==
  ASSUME PathInv, search # Nothing, NEW r, r = search.request, NEW e \in search.open,
         \A other \in search.open : e[1] <= other[1], ~Touch(e[2]).closed, e[2] = r.goal, answer.known
  PROVE  /\ Chain(r.goal) # <<>> /\ IsWay(Chain(r.goal), r, answer.terrain)
         /\ Cheapest(r, answer.terrain) = {CostOf(Chain(r.goal), answer.terrain)}
<1> DEFINE l == r.level
           B == answer.terrain
           G == Gs(l)
           K == Ks(l)
           P == Ps(l)
           O == search.open
<1>1. r \in Requests /\ ArenaIsGood /\ DOMAIN arena = Cells[l] /\ gCurrentGen \in Nat
  BY SearchFacts
<1>2. Sound(r, Terrain(r, lookup.flags), G, K, P, O) /\ Terrain(r, lookup.flags) = B
  BY SearchFacts
<1>3. \A c \in Cells[l] : G[c] = Touch(c).g /\ P[c] = Touch(c).parent
  BY DEF Gs, Ps
<1>4. e[2] \notin K
  BY DEF Ks
<1>5. ASSUME NEW c \in Cells[l], G[c] < Infinity
      PROVE  arena[c].parent = P[c]
  BY <1>1, <1>3, <1>5, TouchFacts
<1> HIDE DEF B, G, K, P, O
<1>6. Sound(r, B, G, K, P, O)
  BY <1>2
<1>7. e \in O /\ \A other \in O : e[1] <= other[1]
  BY DEF O
<1>8. G[r.goal] < Infinity /\ G[r.goal] \in Nat /\ e[1] = G[r.goal]
  <2>1. G[e[2]] \in Nat /\ G[e[2]] < Infinity /\ e[1] = G[e[2]] + H(r, e[2])
    BY <1>1, <1>4, <1>6, <1>7, BestEntry
  <2>2. H(r, r.goal) = 0
    BY <1>1, RequestFacts, HopeFacts
  <2> QED
    BY <2>1, <2>2
<1>9. NotNearer(r, G, K, G[r.goal])
  <2> SUFFICES ASSUME NEW c \in Cells[l], G[c] < Infinity, c \notin K
               PROVE  G[r.goal] <= G[c] + H(r, c)
    BY DEF NotNearer
  <2>1. <<G[c] + H(r, c), c>> \in O
    BY <1>6 DEF Sound, Frontier
  <2>2. e[1] <= G[c] + H(r, c)
    BY <1>7, <2>1
  <2> QED
    BY <1>8, <2>2
<1>10. Trail(Chain(r.goal), r, B, G) /\ Chain(r.goal)[1] = r.start
  <2>1. Tree(r, B, G, K, P)
    BY <1>6 DEF Sound
  <2> QED
    BY <1>1, <1>5, <1>8, <2>1, ChainIsTrail
<1> QED
  BY <1>1, <1>6, <1>9, <1>10, TrailIsCheapest DEF B

LEMMA ExpandKeeps ==
  ASSUME PathInv, Expand
  PROVE  PathInv'
<1>1. search # Nothing /\ UNCHANGED <<world, call, lookup, grid, gCurrentGen, searches, unseen>>
  BY DEF Expand
<1>2. PICK e \in search.open :
        LET c == e[2] IN
        /\ \A other \in search.open : e[1] <= other[1]
        /\ \/ /\ Touch(c).closed
              /\ search' = [search EXCEPT !.open = @ \ {e}]
              /\ UNCHANGED <<arena, answer>>
           \/ /\ ~Touch(c).closed /\ c = search.request.goal
              /\ Ends(Chain(c))
              /\ UNCHANGED arena
           \/ /\ ~Touch(c).closed /\ c # search.request.goal
              /\ Relax(e)
  BY DEF Expand
<1>3. PICK r \in Requests : r = search.request
  BY <1>1, SearchFacts
<1> DEFINE l == r.level
           B == Terrain(r, lookup.flags)
           G == Gs(l)
           K == Ks(l)
           P == Ps(l)
           O == search.open
<1>4. Sound(r, B, G, K, P, O)
  BY <1>1, <1>3, SearchFacts
<1>5. e[2] \in Cells[l]
  BY <1>4 DEF Sound, Frontier
<1>6. e[2] \in K <=> Touch(e[2]).closed
  BY <1>5 DEF Ks
<1>7. WorldInv' /\ CallInv' /\ LookupInv' /\ GridInv'
  <2>1. call = Nothing
    BY <1>1, SearchFacts
  <2> HIDE DEF B, G, K, P, O
  <2> QED
    BY <1>1, <2>1 DEF PathInv, WorldInv, CallInv, LookupInv, GridInv, GameFlags
<1>8. /\ search = [request |-> r, open |-> search.open] /\ call = Nothing
      /\ answer = [request |-> r, terrain |-> answer.terrain, known |-> answer.known, path |-> Nothing]
      /\ ArenaIsGood /\ DOMAIN arena = Cells[l]
      /\ answer.known => B = answer.terrain
  BY <1>1, <1>3, SearchFacts
<1>9. ASSUME UNCHANGED answer, ArenaIsGood', DOMAIN arena' = Cells[l],
             search' = [request |-> r, open |-> search'.open],
             Sound(r, B, G', K', P', search'.open)
      PROVE  PathInv'
  <2>1. search'.request = r
    BY <1>9
  <2>2. SearchInv'
    <3>1. answer' = answer /\ lookup' = lookup /\ call' = Nothing
      BY <1>1, <1>8, <1>9
    <3>2. Terrain(r, lookup'.flags) = B
      BY <3>1
    <3>3. Sound(r, Terrain(r, lookup'.flags), Gs(l)', Ks(l)', Ps(l)', search'.open)
      BY <1>9, <3>2
    <3>4. answer'.known => Terrain(r, lookup'.flags) = answer'.terrain
      BY <1>8, <3>1, <3>2
    <3>5. answer' = [request |-> r, terrain |-> answer'.terrain, known |-> answer'.known, path |-> Nothing]
      BY <1>8, <3>1
    <3> HIDE DEF B, G, K, P, O
    <3> QED
      BY <1>3, <1>9, <2>1, <3>1, <3>3, <3>4, <3>5 DEF SearchInv
  <2>3. ArenaInv'
    BY <1>9 DEF ArenaInv
  <2>4. PathIsShortest'
    BY <1>9 DEF PathInv, PathIsShortest
  <2> QED
    BY <1>7, <2>2, <2>3, <2>4 DEF PathInv
<1>10. CASE Touch(e[2]).closed /\ search' = [search EXCEPT !.open = @ \ {e}] /\ UNCHANGED <<arena, answer>>
  <2>1. search' = [request |-> r, open |-> O \ {e}]
    BY <1>8, <1>10
  <2>2. G' = G /\ K' = K /\ P' = P
    BY <1>1, <1>10 DEF Gs, Ks, Ps, Touch
  <2>3. Sound(r, B, G, K, P, O \ {e})
    <3> HIDE DEF B, G, K, P
    <3> QED
      BY <1>4, <1>6, <1>10, DropKeepsSound
  <2>4. ArenaIsGood' /\ DOMAIN arena' = Cells[l]
    BY <1>1, <1>8, <1>10 DEF ArenaIsGood, IsNode
  <2>5. Sound(r, B, G', K', P', search'.open)
    BY <2>1, <2>2, <2>3
  <2>6. search' = [request |-> r, open |-> search'.open]
    BY <2>1
  <2> QED
    BY <1>9, <1>10, <2>4, <2>5, <2>6
<1>11. CASE ~Touch(e[2]).closed /\ e[2] = search.request.goal /\ Ends(Chain(e[2])) /\ UNCHANGED arena
  <2>1. ASSUME answer.known
        PROVE  /\ Chain(r.goal) # <<>> /\ IsWay(Chain(r.goal), r, answer.terrain)
               /\ Cheapest(r, answer.terrain) = {CostOf(Chain(r.goal), answer.terrain)}
    BY <1>1, <1>2, <1>3, <1>11, <2>1, GoalIsReached
  <2>2. Ends(Chain(r.goal))
    BY <1>3, <1>11
  <2> QED
    BY <1>1, <1>3, <1>11, <2>1, <2>2, EndKeeps
<1>12. CASE ~Touch(e[2]).closed /\ e[2] # search.request.goal /\ Relax(e)
  <2>1. /\ ArenaIsGood' /\ DOMAIN arena' = Cells[r.level]
        /\ search' = [request |-> r, open |-> search'.open]
        /\ Gs(r.level)' = GAfter(r, B, G, K, e[2])
        /\ Ks(r.level)' = K \union {e[2]}
        /\ Ps(r.level)' = PAfter(r, B, G, K, P, e[2])
        /\ search'.open = OAfter(r, B, G, K, O, e)
    BY <1>1, <1>3, <1>5, <1>12, RelaxIsAfter
  <2>2. Sound(r, B, GAfter(r, B, G, K, e[2]), K \union {e[2]}, PAfter(r, B, G, K, P, e[2]),
              OAfter(r, B, G, K, O, e))
    <3>1. e \in O /\ (\A other \in O : e[1] <= other[1]) /\ e[2] \notin K /\ e[2] # r.goal
      BY <1>2, <1>3, <1>6, <1>12
    <3> HIDE DEF B, G, K, P, O
    <3> QED
      BY <1>4, <3>1, RelaxKeepsSound
  <2>3. Sound(r, B, G', K', P', search'.open)
    BY <2>1, <2>2
  <2>4. UNCHANGED answer
    BY <1>12 DEF Relax
  <2> QED
    BY <1>9, <2>1, <2>3, <2>4
<1> QED
  BY <1>2, <1>10, <1>11, <1>12

(* Every step. *)
LEMMA PathInvStep == PathInv /\ [PathNext]_pathVars => PathInv'
<1> SUFFICES ASSUME PathInv, [PathNext]_pathVars
             PROVE  PathInv'
  OBVIOUS
<1>1. ASSUME NEW l \in LevelIds, NEW room \in RoomsIn(l), PlayerGoes(l, room)
      PROVE  PathInv'
  BY <1>1, PlayerKeeps
<1>2. ASSUME NEW l \in LevelIds, NEW c \in Doors[l], DoorOpens(l, c)
      PROVE  PathInv'
  BY <1>2, DoorKeeps
<1>3. ASSUME NEW s \in Seeds, NewGame(s)
      PROVE  PathInv'
  BY <1>3, GameKeeps
<1>4. ASSUME NEW r \in Requests, FindPath(r)
      PROVE  PathInv'
  BY <1>4, FindKeeps
<1>5. CASE NoLevel
  BY <1>5, NoLevelKeeps
<1>6. CASE BeginGrid
  BY <1>6, BeginKeeps
<1>7. CASE CopyRoom
  BY <1>7, CopyKeeps
<1>8. CASE RoomIsGone
  BY <1>8, GoneKeeps
<1>9. CASE KeepGrid
  BY <1>9, KeepGridKeeps
<1>10. CASE Refresh
  BY <1>10, RefreshKeeps
<1>11. CASE Expand
  BY <1>11, ExpandKeeps
<1>12. CASE NoPath
  BY <1>12, NoPathKeeps
<1>13. CASE UNCHANGED pathVars
  <2>1. /\ UNCHANGED <<call, lookup, grid, arena, gCurrentGen, search, searches, answer>>
        /\ world' = world /\ unseen' = unseen
    BY <1>13 DEF pathVars
  <2>2. WorldInv' /\ CallInv' /\ LookupInv' /\ GridInv'
    BY <2>1 DEF PathInv, WorldInv, CallInv, LookupInv, GridInv, GameFlags
  <2>3. ArenaInv' /\ SearchInv' /\ PathIsShortest'
    BY <2>1, SearchGoesOn
  <2> QED
    BY <2>2, <2>3 DEF PathInv
<1> QED
  BY <1>1, <1>2, <1>3, <1>4, <1>5, <1>6, <1>7, <1>8, <1>9, <1>10, <1>11, <1>12, <1>13 DEF PathNext

(***************************************************************************)
(* Pathfinder.cpp, FindPath and WalkAStar: whatever the grid and the nodes *)
(* kept from earlier searches, of other levels, other games or before the  *)
(* wrap of the generation, and whatever the game does while a grid is      *)
(* built, the path that is answered is a way on the map the game had when  *)
(* the search began, with the penalties of that map, and no way is         *)
(* cheaper; and there is no way if none is answered.  Calls during which   *)
(* the game was left for another, and levels with a door opened since its  *)
(* room was copied, are left out (PathIsShortest).                         *)
(***************************************************************************)
THEOREM PathIsShortestHolds == PathSpec => []PathIsShortest
<1>1. PathInv => PathIsShortest
  BY DEF PathInv
<1> QED
  BY <1>1, PathInvInit, PathInvStep, PTL DEF PathSpec
=============================================================================
