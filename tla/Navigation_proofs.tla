-------------------------- MODULE Navigation_proofs --------------------------
(***************************************************************************)
(* How the robot gets around.  The search and the flood fill it rests on,  *)
(* for every size of the grid, any two footprints, any snap radius and any *)
(* maps; and the motion lane of the dispatcher, for any number of goals    *)
(* and cancellations and whatever Nav2 does.  They share no variable; each *)
(* has its own specification and its own invariant.                        *)
(*                                                                         *)
(* The fill is a recursive function.  What it computes is proved by        *)
(* induction over sets of numbers: theorem WFMin of the library gives a    *)
(* minimal member of a set where the order is well founded, and the order  *)
(* of finite sets by strict inclusion is (FS_StrictSubsetOrderingWell-     *)
(* Founded).  Neither has a parameter that is an operator.                 *)
(***************************************************************************)
EXTENDS PoiSearch, Nav2Motion, FiniteSetTheorems, WellFoundedInduction, TLAPS

-----------------------------------------------------------------------------
(* Induction, least members and recursion.                                 *)
LEMMA NatInd ==
  ASSUME NEW T \in SUBSET Nat, 0 \in T, \A n \in T : n + 1 \in T
  PROVE  T = Nat
<1> DEFINE Below(n) == 0..(n - 1)
           R == StrictSubsetOrdering(Nat)
           U == {Below(n) : n \in Nat \ T}
<1>1. \A n \in Nat : Below(n) \in FiniteSubsetsOf(Nat)
  <2>1. \A n \in Nat : IsFiniteSet(0..(n - 1)) /\ 0..(n - 1) \subseteq Nat
    BY FS_Interval
  <2>2. QED
    BY <2>1 DEF FiniteSubsetsOf
<1>2. IsWellFoundedOn(R, FiniteSubsetsOf(Nat))
  BY FS_StrictSubsetOrderingWellFounded
<1>3. U \subseteq FiniteSubsetsOf(Nat)
  BY <1>1
<1>4. \A n \in Nat \ {0} : <<Below(n - 1), Below(n)>> \in R
  <2>1. \A n \in Nat \ {0} : /\ Below(n - 1) \subseteq Nat /\ Below(n) \subseteq Nat
                             /\ Below(n - 1) \subseteq Below(n)
                             /\ n - 1 \in Below(n) /\ n - 1 \notin Below(n - 1)
    OBVIOUS
  <2>2. QED
    BY <2>1 DEF StrictSubsetOrdering
<1> HIDE DEF R, Below
<1> SUFFICES ASSUME Nat \ T # {} PROVE FALSE
  OBVIOUS
<1>5. PICK u \in U : \A v \in U : <<v, u>> \notin R
  <2>1. U # {}
    OBVIOUS
  <2> HIDE DEF U
  <2>2. QED
    BY <1>2, <1>3, <2>1, WFMin
<1>6. PICK x \in Nat \ T : u = Below(x)
  OBVIOUS
<1>7. x # 0 /\ x - 1 \in Nat /\ x - 1 + 1 = x
  OBVIOUS
<1>8. x - 1 \in T
  BY <1>4, <1>5, <1>6, <1>7
<1>9. QED
  BY <1>6, <1>7, <1>8

LEMMA IntervalInd ==
  ASSUME NEW N \in Nat, NEW T, 0 \in T, \A n \in 0..(N - 1) : n \in T => n + 1 \in T
  PROVE  \A n \in 0..N : n \in T
<1> DEFINE U == {n \in Nat : n <= N => n \in T}
<1>1. 0 \in U /\ U \in SUBSET Nat
  OBVIOUS
<1>2. \A n \in U : n + 1 \in U
  OBVIOUS
<1> HIDE DEF U
<1>3. U = Nat
  BY <1>1, <1>2, NatInd
<1>4. QED
  BY <1>3 DEF U

(* A member with the least number, in a finite set.                        *)
LEMMA FiniteLeast ==
  ASSUME NEW S, IsFiniteSet(S), S # {}, NEW k, \A c \in S : k[c] \in Int
  PROVE  \E c \in S : \A d \in S : k[c] <= k[d]
<1> DEFINE R == StrictSubsetOrdering(S)
           U == {T \in SUBSET S : T # {} /\ \A x \in S : \E y \in T : k[y] <= k[x]}
<1>1. IsWellFoundedOn(R, FiniteSubsetsOf(S)) /\ FiniteSubsetsOf(S) = SUBSET S
  BY FS_StrictSubsetOrderingWellFounded, FS_FiniteSubsetsOfFinite
<1>2. U \subseteq SUBSET S /\ U # {}
  <2>1. S \in U
    <3>1. \A x \in S : k[x] <= k[x]
      OBVIOUS
    <3>2. QED
      BY <3>1
  <2>2. QED
    BY <2>1
<1>3. PICK T \in U : \A V \in U : <<V, T>> \notin R
  <2> HIDE DEF U, R
  <2>1. QED
    BY <1>1, <1>2, WFMin
<1>4. PICK y \in T : TRUE
  BY <1>3
<1>5. ASSUME NEW a \in T, NEW b \in T, a # b, k[a] <= k[b]
      PROVE  FALSE
  <2> DEFINE V == T \ {b}
  <2>1. V \in SUBSET S /\ V # {}
    BY <1>5
  <2>2. \A x \in S : \E z \in V : k[z] <= k[x]
    <3> SUFFICES ASSUME NEW x \in S PROVE \E z \in V : k[z] <= k[x]
      OBVIOUS
    <3>1. PICK z \in T : k[z] <= k[x]
      OBVIOUS
    <3>2. CASE z = b
      <4>1. k[a] <= k[x] /\ a \in V
        BY <1>5, <3>1, <3>2
      <4>2. QED
        BY <4>1
    <3>3. QED
      BY <3>1, <3>2
  <2>3. V \in U
    BY <2>1, <2>2
  <2>4. <<V, T>> \in R
    BY <1>5, <2>1 DEF StrictSubsetOrdering
  <2>5. QED
    BY <1>3, <2>3, <2>4
<1>6. T = {y}
  <2> SUFFICES ASSUME NEW z \in T, z # y PROVE FALSE
    BY <1>4
  <2>1. k[y] <= k[z] \/ k[z] <= k[y]
    <3>1. k[y] \in Int /\ k[z] \in Int
      BY <1>2, <1>3, <1>4
    <3>2. QED
      BY <3>1
  <2>2. QED
    BY <1>4, <1>5, <2>1
<1>7. QED
  BY <1>3, <1>6

(* A function defined step by step from s.                                 *)
Stepwise(f, s, F, N) == f[0] = s /\ \A n \in 1..N : f[n] = F[<<n, f[n - 1]>>]

LEMMA Recursion ==
  ASSUME NEW N \in Nat, NEW S, NEW s \in S, NEW F \in [(1..N) \X S -> S]
  PROVE  \E f \in [0..N -> S] : Stepwise(f, s, F, N)
<1> DEFINE Steps(f, m) == f[0] = s /\ \A n \in 1..m : f[n] = F[<<n, f[n - 1]>>]
           T == {m \in 0..N : \E f \in [0..m -> S] : Steps(f, m)}
<1>1. 0 \in T
  <2>1. [n \in 0..0 |-> s] \in [0..0 -> S] /\ Steps([n \in 0..0 |-> s], 0)
    OBVIOUS
  <2> HIDE DEF Steps
  <2>2. 0 \in 0..N
    OBVIOUS
  <2>3. QED
    BY <2>1, <2>2
<1>2. ASSUME NEW m \in 0..(N - 1), m \in T PROVE m + 1 \in T
  <2>1. PICK f \in [0..m -> S] : Steps(f, m)
    BY <1>2
  <2> DEFINE g == [n \in 0..(m + 1) |-> IF n <= m THEN f[n] ELSE F[<<m + 1, f[m]>>]]
  <2>2. F[<<m + 1, f[m]>>] \in S
    OBVIOUS
  <2>3. g \in [0..(m + 1) -> S]
    BY <2>2
  <2>4. Steps(g, m + 1)
    <3>1. g[0] = s
      BY <2>1
    <3>2. \A n \in 1..m : g[n] = f[n] /\ g[n - 1] = f[n - 1]
      OBVIOUS
    <3>3. g[m + 1] = F[<<m + 1, g[m + 1 - 1]>>]
      OBVIOUS
    <3> HIDE DEF g
    <3>4. ASSUME NEW n \in 1..(m + 1) PROVE g[n] = F[<<n, g[n - 1]>>]
      <4>1. CASE n \in 1..m
        <5>1. g[n] = f[n] /\ g[n - 1] = f[n - 1]
          BY <3>2, <4>1
        <5>2. f[n] = F[<<n, f[n - 1]>>]
          BY <2>1, <4>1
        <5>3. QED
          BY <5>1, <5>2
      <4>2. CASE n = m + 1
        BY <3>3, <4>2
      <4>3. n \in 1..m \/ n = m + 1
        OBVIOUS
      <4>4. QED
        BY <4>1, <4>2, <4>3
    <3>5. QED
      BY <3>1, <3>4
  <2>5. m + 1 \in 0..N
    OBVIOUS
  <2> HIDE DEF Steps, g
  <2>6. QED
    BY <2>3, <2>4, <2>5
<1> HIDE DEF T
<1>3. N \in T
  BY <1>1, <1>2, IntervalInd
<1>4. QED
  BY <1>3 DEF T, Stepwise

-----------------------------------------------------------------------------
(* The first member by a key of three numbers, the last two of which tell  *)
(* the members apart.                                                      *)
LEMMA FirstExists ==
  ASSUME NEW S, IsFiniteSet(S), S # {}, NEW k1, NEW k2, NEW k3,
         \A c \in S : k1[c] \in Int /\ k2[c] \in Int /\ k3[c] \in Int,
         \A c, d \in S : k2[c] = k2[d] /\ k3[c] = k3[d] => c = d
  PROVE  \E c \in S : \A d \in S \ {c} :
           Before(<<k1[c], k2[c], k3[c]>>, <<k1[d], k2[d], k3[d]>>)
<1>1. PICK a \in S : \A d \in S : k1[a] <= k1[d]
  BY FiniteLeast
<1> DEFINE A == {c \in S : k1[c] = k1[a]}
<1>2. IsFiniteSet(A) /\ A # {} /\ \A c \in A : k2[c] \in Int
  BY FS_Subset
<1>3. PICK b \in A : \A d \in A : k2[b] <= k2[d]
  <2> HIDE DEF A
  <2>1. QED
    BY <1>2, FiniteLeast
<1> DEFINE B == {c \in A : k2[c] = k2[b]}
<1>4. IsFiniteSet(B) /\ B # {} /\ \A c \in B : k3[c] \in Int
  BY <1>2, FS_Subset
<1>5. PICK c \in B : \A d \in B : k3[c] <= k3[d]
  <2> HIDE DEF B
  <2>1. QED
    BY <1>4, FiniteLeast
<1>6. ASSUME NEW d \in S \ {c}
      PROVE  \/ k1[c] < k1[d]
             \/ k1[c] = k1[d] /\ k2[c] < k2[d]
             \/ k1[c] = k1[d] /\ k2[c] = k2[d] /\ k3[c] < k3[d]
  <2>1. /\ k1[c] \in Int /\ k2[c] \in Int /\ k3[c] \in Int
        /\ k1[d] \in Int /\ k2[d] \in Int /\ k3[d] \in Int
    OBVIOUS
  <2>2. k1[c] <= k1[d]
    BY <1>1
  <2>3. k1[d] = k1[c] => k2[c] <= k2[d]
    BY <1>3
  <2>4. k1[d] = k1[c] /\ k2[d] = k2[c] => k3[c] <= k3[d]
    BY <1>5
  <2>5. ~(k2[c] = k2[d] /\ k3[c] = k3[d])
    OBVIOUS
  <2>6. QED
    BY <2>1, <2>2, <2>3, <2>4, <2>5
<1>7. \A d \in S \ {c} : Before(<<k1[c], k2[c], k3[c]>>, <<k1[d], k2[d], k3[d]>>)
  <2> SUFFICES ASSUME NEW d \in S \ {c}
               PROVE  Before(<<k1[c], k2[c], k3[c]>>, <<k1[d], k2[d], k3[d]>>)
    OBVIOUS
  <2> DEFINE k == <<k1[c], k2[c], k3[c]>>
             l == <<k1[d], k2[d], k3[d]>>
  <2>1. /\ DOMAIN k = 1..3 /\ k[1] = k1[c] /\ k[2] = k2[c] /\ k[3] = k3[c]
        /\ l[1] = k1[d] /\ l[2] = k2[d] /\ l[3] = k3[d]
    OBVIOUS
  <2> HIDE DEF k, l
  <2>2. \/ k[1] < l[1]
        \/ k[1] = l[1] /\ k[2] < l[2]
        \/ k[1] = l[1] /\ k[2] = l[2] /\ k[3] < l[3]
    BY <1>6, <2>1
  <2>3. Before(k, l)
    BY <2>1, <2>2 DEF Before
  <2>4. QED
    BY <2>3 DEF k, l
<1>8. QED
  BY <1>7

LEMMA CellFacts ==
  /\ IsFiniteSet(Cells)
  /\ \A c \in Cells : c[1] \in Nat /\ c[2] \in Nat /\ c = <<c[1], c[2]>>
  /\ NoCell \notin Cells
<1>1. IsFiniteSet(0..Width - 1) /\ IsFiniteSet(0..Height - 1)
  BY GridAssumption, FS_Interval
<1>2. IsFiniteSet((0..Width - 1) \X (0..Height - 1))
  BY <1>1, FS_Product
<1>3. Cells = (0..Width - 1) \X (0..Height - 1)
  BY DEF Cells
<1>4. QED
  BY <1>2, <1>3 DEF NoCell

LEMMA NearestSafeMember ==
  ASSUME NEW start \in Cells, NEW safe \in SUBSET Cells
  PROVE  NearestSafe(start, safe) \in safe \cup {NoCell}
<1> DEFINE near == {c \in safe : /\ Abs(c[1] - start[1]) <= SnapRadius
                                 /\ Abs(c[2] - start[2]) <= SnapRadius}
           key(c) == <<Abs(c[1] - start[1]) + Abs(c[2] - start[2]), c[2], c[1]>>
           k1 == [c \in safe |-> Abs(c[1] - start[1]) + Abs(c[2] - start[2])]
           k2 == [c \in safe |-> c[2]]
           k3 == [c \in safe |-> c[1]]
<1>1. near \subseteq safe /\ IsFiniteSet(near)
  BY CellFacts, FS_Subset
<1>2. /\ \A c \in near : k1[c] \in Int /\ k2[c] \in Int /\ k3[c] \in Int
      /\ \A c, d \in near : k2[c] = k2[d] /\ k3[c] = k3[d] => c = d
  BY CellFacts DEF Abs
<1>3. \A c \in near : key(c) = <<k1[c], k2[c], k3[c]>>
  BY <1>1
<1>4. NearestSafe(start, safe) =
        IF start \in safe THEN start
        ELSE IF near = {} THEN NoCell
        ELSE CHOOSE c \in near : \A d \in near \ {c} : Before(key(c), key(d))
  BY DEF NearestSafe, FirstBy
<1> HIDE DEF near, key, k1, k2, k3
<1>5. near # {} => \E c \in near : \A d \in near \ {c} : Before(key(c), key(d))
  <2> SUFFICES ASSUME near # {}
               PROVE  \E c \in near : \A d \in near \ {c} : Before(key(c), key(d))
    OBVIOUS
  <2>1. PICK c \in near : \A d \in near \ {c} :
               Before(<<k1[c], k2[c], k3[c]>>, <<k1[d], k2[d], k3[d]>>)
    BY <1>1, <1>2, FirstExists
  <2>2. QED
    BY <1>3, <2>1
<1>6. QED
  BY <1>1, <1>4, <1>5

(* Of the cells a point may be chosen from, one is.                        *)
LEMMA FarthestMember ==
  ASSUME NEW S \in SUBSET Cells, S # {}, NEW distance, \A c \in S : distance[c] \in Int
  PROVE  Farthest(S, distance) \in S
<1> DEFINE key(c) == <<-distance[c], c[2], c[1]>>
           k1 == [c \in S |-> -distance[c]]
           k2 == [c \in S |-> c[2]]
           k3 == [c \in S |-> c[1]]
<1>1. IsFiniteSet(S)
  BY CellFacts, FS_Subset
<1>2. /\ \A c \in S : k1[c] \in Int /\ k2[c] \in Int /\ k3[c] \in Int
      /\ \A c, d \in S : k2[c] = k2[d] /\ k3[c] = k3[d] => c = d
  BY CellFacts
<1>3. \A c \in S : key(c) = <<k1[c], k2[c], k3[c]>>
  OBVIOUS
<1>4. Farthest(S, distance) = CHOOSE c \in S : \A d \in S \ {c} : Before(key(c), key(d))
  BY DEF Farthest, FirstBy
<1> HIDE DEF key, k1, k2, k3
<1>5. \E c \in S : \A d \in S \ {c} : Before(key(c), key(d))
  <2>1. PICK c \in S : \A d \in S \ {c} :
               Before(<<k1[c], k2[c], k3[c]>>, <<k1[d], k2[d], k3[d]>>)
    BY <1>1, <1>2, FirstExists
  <2>2. QED
    BY <1>3, <2>1
<1>6. QED
  BY <1>4, <1>5

-----------------------------------------------------------------------------
(* The component of a cell is the least set of safe cells that has it and  *)
(* that no step along an axis leads out of.                                *)
Beside(c, d) == Abs(c[1] - d[1]) + Abs(c[2] - d[2]) = 1
AxisClosed(K, safe) == \A d \in K : \A c \in safe : Beside(c, d) => c \in K
Grown(R, safe) == R \cup {c \in safe : \E d \in R : Beside(c, d)}

LEMMA ComponentIsLeast ==
  ASSUME NEW safe \in SUBSET Cells, NEW start \in safe
  PROVE  /\ Component(start, safe) \in SUBSET safe /\ start \in Component(start, safe)
         /\ AxisClosed(Component(start, safe), safe)
         /\ \A K \in SUBSET safe : start \in K /\ AxisClosed(K, safe) =>
              Component(start, safe) \subseteq K
<1> DEFINE N == Cardinality(safe)
           S == {R \in SUBSET safe : start \in R}
           F == [x \in (1..N) \X S |-> Grown(x[2], safe)]
           reach[n \in 0..Cardinality(safe)] ==
             IF n = 0 THEN {start}
             ELSE LET last == reach[n - 1]
                  IN last \cup {c \in safe : \E d \in last : Abs(c[1] - d[1]) + Abs(c[2] - d[2]) = 1}
<1>1. IsFiniteSet(safe) /\ N \in Nat
  BY CellFacts, FS_Subset, FS_CardinalityType
<1>2. {start} \in S /\ F \in [(1..N) \X S -> S]
  <2>1. \A R \in S : Grown(R, safe) \in S
    BY DEF Grown
  <2>2. QED
    BY <2>1
<1>3. \A n \in 1..N, R \in S : F[<<n, R>>] = Grown(R, safe)
  OBVIOUS
<1>4. Component(start, safe) = reach[N]
  BY DEF Component
<1>5. /\ reach[0] = {start}
      /\ \A n \in 1..N : reach[n] = Grown(reach[n - 1], safe)
      /\ reach \in [0..N -> S]
  <2> HIDE DEF F, S, N
  <2>1. PICK f \in [0..N -> S] : Stepwise(f, {start}, F, N)
    BY <1>1, <1>2, Recursion
  <2>2. \A n \in 1..N : n - 1 \in 0..N /\ f[n - 1] \in S
    BY <1>1
  <2>3. \A n \in 0..N : f[n] = IF n = 0 THEN {start} ELSE Grown(f[n - 1], safe)
    <3>1. f[0] = {start}
      BY <2>1 DEF Stepwise
    <3>2. ASSUME NEW n \in 1..N PROVE f[n] = Grown(f[n - 1], safe)
      <4>1. f[n] = F[<<n, f[n - 1]>>]
        BY <2>1 DEF Stepwise
      <4>2. QED
        BY <1>3, <2>2, <4>1
    <3>3. \A n \in 0..N : n = 0 \/ n \in 1..N
      BY <1>1
    <3>4. \A n \in 1..N : n # 0
      BY <1>1
    <3>5. QED
      BY <3>1, <3>2, <3>3, <3>4
  <2>4. f = [n \in 0..N |-> IF n = 0 THEN {start} ELSE Grown(f[n - 1], safe)]
    BY <2>3
  <2>5. reach = [n \in 0..N |-> IF n = 0 THEN {start} ELSE Grown(reach[n - 1], safe)]
    BY <2>4 DEF N, Grown, Beside
  <2> HIDE DEF reach
  <2>6. /\ reach[0] = {start}
        /\ \A n \in 1..N : reach[n] = Grown(reach[n - 1], safe)
    <3>1. 0 \in 0..N /\ \A n \in 1..N : n \in 0..N /\ n # 0
      BY <1>1
    <3>2. QED
      BY <2>5, <3>1
  <2> DEFINE T == {n \in 0..N : reach[n] \in S}
  <2>7. 0 \in T
    <3>1. 0 \in 0..N
      BY <1>1
    <3>2. QED
      BY <1>2, <2>6, <3>1
  <2>8. ASSUME NEW n \in 0..(N - 1), n \in T PROVE n + 1 \in T
    <3>1. n + 1 \in 0..N /\ n + 1 \in 1..N /\ n + 1 - 1 = n
      BY <1>1
    <3>2. reach[n + 1] = Grown(reach[n], safe)
      BY <2>6, <3>1
    <3>3. reach[n + 1] \in S
      BY <2>8, <3>2 DEF Grown, S
    <3>4. QED
      BY <3>1, <3>3
  <2> HIDE DEF T
  <2>9. \A n \in 0..N : n \in T
    BY <1>1, <2>7, <2>8, IntervalInd
  <2>10. reach \in [0..N -> S]
    BY <2>5, <2>9 DEF T
  <2>11. QED
    BY <2>6, <2>10
<1> HIDE DEF reach, F, N
<1>6. reach[N] \in S
  BY <1>1, <1>5
<1>7. AxisClosed(reach[N], safe)
  <2> DEFINE T == {n \in 0..N : \/ AxisClosed(reach[n], safe)
                                \/ Cardinality(reach[n]) > n}
  <2>1. 0 \in T
    <3>0. 0 \in 0..N
      BY <1>1
    <3>1. Cardinality(reach[0]) = 1
      BY <1>5, FS_Singleton
    <3>2. QED
      BY <3>0, <3>1
  <2>2. ASSUME NEW n \in 0..(N - 1), n \in T PROVE n + 1 \in T
    <3>1. /\ n + 1 \in 0..N /\ n \in 0..N /\ n + 1 - 1 = n /\ n + 1 \in 1..N
          /\ reach[n + 1] = Grown(reach[n], safe)
      BY <1>1, <1>5
    <3>2. reach[n] \in SUBSET safe /\ reach[n + 1] \in SUBSET safe
      BY <1>5, <3>1
    <3>3. CASE reach[n + 1] = reach[n]
      <4>1. AxisClosed(reach[n], safe)
        BY <3>1, <3>3 DEF Grown, AxisClosed
      <4>2. QED
        BY <3>1, <3>3, <4>1
    <3>4. CASE reach[n + 1] # reach[n]
      <4>1. reach[n] \subseteq reach[n + 1] /\ ~AxisClosed(reach[n], safe)
        BY <3>1, <3>4 DEF Grown, AxisClosed
      <4>2. Cardinality(reach[n]) > n
        BY <2>2, <4>1
      <4>3. PICK x \in reach[n + 1] : x \notin reach[n]
        BY <3>4, <4>1
      <4>4. IsFiniteSet(reach[n]) /\ IsFiniteSet(reach[n + 1])
        BY <1>1, <3>2, FS_Subset
      <4>5. Cardinality(reach[n] \cup {x}) = Cardinality(reach[n]) + 1
        BY <4>3, <4>4, FS_AddElement
      <4>6. Cardinality(reach[n] \cup {x}) <= Cardinality(reach[n + 1])
        BY <4>1, <4>3, <4>4, FS_Subset
      <4>7. /\ Cardinality(reach[n]) \in Nat /\ Cardinality(reach[n + 1]) \in Nat
        BY <4>4, FS_CardinalityType
      <4>8. Cardinality(reach[n + 1]) > n + 1
        BY <4>2, <4>5, <4>6, <4>7
      <4>9. QED
        BY <3>1, <4>8
    <3>5. QED
      BY <3>3, <3>4
  <2> HIDE DEF T
  <2>3. N \in T
    BY <1>1, <2>1, <2>2, IntervalInd
  <2>4. Cardinality(reach[N]) <= N
    BY <1>1, <1>6, FS_Subset DEF N
  <2>5. Cardinality(reach[N]) \in Nat
    BY <1>1, <1>6, FS_Subset, FS_CardinalityType
  <2>6. QED
    BY <1>1, <2>3, <2>4, <2>5 DEF T
<1>8. ASSUME NEW K \in SUBSET safe, start \in K, AxisClosed(K, safe)
      PROVE  reach[N] \subseteq K
  <2> DEFINE T == {n \in 0..N : reach[n] \subseteq K}
  <2>1. 0 \in T
    BY <1>1, <1>5, <1>8
  <2>2. ASSUME NEW n \in 0..(N - 1), n \in T PROVE n + 1 \in T
    <3>1. n + 1 \in 0..N /\ n + 1 - 1 = n /\ n + 1 \in 1..N
      BY <1>1
    <3>2. reach[n + 1] = Grown(reach[n], safe)
      BY <1>5, <3>1
    <3>3. reach[n + 1] \subseteq K
      BY <1>8, <2>2, <3>2 DEF Grown, AxisClosed
    <3>4. QED
      BY <3>1, <3>3
  <2> HIDE DEF T
  <2>3. N \in T
    BY <1>1, <2>1, <2>2, IntervalInd
  <2>4. QED
    BY <2>3 DEF T
<1>9. QED
  BY <1>4, <1>6, <1>7, <1>8

-----------------------------------------------------------------------------
(* The fill.  Its queue holds cells that have been given a distance.       *)
Queued(g) == {g.queue[i] : i \in 1..Len(g.queue)}

Fills(safe) ==
  {g \in [distance : UNION {[D -> Int] : D \in SUBSET safe}, queue : Seq(safe)] :
     Queued(g) \subseteq DOMAIN g.distance}

(* What has been at the head of the queue so far.                          *)
Visited(g) == Cardinality(DOMAIN g.distance) - Len(g.queue)

LEMMA FillTyped ==
  ASSUME NEW safe \in SUBSET Cells, NEW g \in Fills(safe)
  PROVE  /\ DOMAIN g.distance \in SUBSET safe /\ IsFiniteSet(DOMAIN g.distance)
         /\ Cardinality(DOMAIN g.distance) \in Nat
         /\ g.distance \in [DOMAIN g.distance -> Int]
         /\ g.queue \in Seq(safe) /\ Len(g.queue) \in Nat
         /\ Queued(g) \subseteq DOMAIN g.distance
         /\ g = [distance |-> g.distance, queue |-> g.queue]
<1>1. /\ g.distance \in UNION {[D -> Int] : D \in SUBSET safe} /\ g.queue \in Seq(safe)
      /\ Queued(g) \subseteq DOMAIN g.distance
      /\ g = [distance |-> g.distance, queue |-> g.queue]
  BY DEF Fills
<1>2. PICK D \in SUBSET safe : g.distance \in [D -> Int]
  BY <1>1
<1>3. IsFiniteSet(D) /\ Cardinality(D) \in Nat
  BY CellFacts, FS_Subset, FS_CardinalityType
<1>4. Len(g.queue) \in Nat
  BY <1>1
<1>5. QED
  BY <1>1, <1>2, <1>3, <1>4

(* One move from c.                                                        *)
LEMMA LookStep ==
  ASSUME NEW safe \in SUBSET Cells, NEW g \in Fills(safe), NEW c \in DOMAIN g.distance,
         NEW move
  PROVE  LET h == Look(g, c, move, safe)
         IN  /\ h \in Fills(safe)
             /\ DOMAIN g.distance \subseteq DOMAIN h.distance
             /\ \A d \in DOMAIN h.distance \ DOMAIN g.distance :
                  MoveAllowed(c, move, safe) /\ d = Plus(c, move) /\ d \in Queued(h)
             /\ MoveAllowed(c, move, safe) => Plus(c, move) \in DOMAIN h.distance
             /\ Queued(g) \subseteq Queued(h)
             /\ Visited(h) = Visited(g)
<1> DEFINE h == Look(g, c, move, safe)
           p == Plus(c, move)
<1>1. /\ DOMAIN g.distance \in SUBSET safe /\ IsFiniteSet(DOMAIN g.distance)
      /\ Cardinality(DOMAIN g.distance) \in Nat
      /\ g.distance \in [DOMAIN g.distance -> Int]
      /\ g.queue \in Seq(safe) /\ Len(g.queue) \in Nat
      /\ Queued(g) \subseteq DOMAIN g.distance
  BY FillTyped
<1>2. CASE MoveAllowed(c, move, safe) /\ p \notin DOMAIN g.distance
  <2> DEFINE distance == [d \in DOMAIN g.distance \cup {p} |->
                            IF d = p THEN g.distance[c] + Cost(move) ELSE g.distance[d]]
             queue == Append(g.queue, p)
  <2>1. h = [distance |-> distance, queue |-> queue]
    BY <1>2 DEF Look
  <2>2. p \in safe
    BY <1>2 DEF MoveAllowed
  <2>3. DOMAIN distance = DOMAIN g.distance \cup {p}
    OBVIOUS
  <2>4. distance \in [DOMAIN g.distance \cup {p} -> Int]
    <3>1. Cost(move) \in Int
      BY DEF Cost
    <3>2. g.distance[c] + Cost(move) \in Int
      BY <1>1, <3>1
    <3>3. QED
      BY <1>1, <3>2
  <2>5. /\ queue \in Seq(safe) /\ Len(queue) = Len(g.queue) + 1
        /\ \A i \in 1..Len(g.queue) : queue[i] = g.queue[i]
        /\ queue[Len(g.queue) + 1] = p
    BY <1>1, <2>2
  <2>6. distance \in UNION {[D -> Int] : D \in SUBSET safe}
    <3>1. DOMAIN g.distance \cup {p} \in SUBSET safe
      BY <1>1, <2>2
    <3> HIDE DEF distance
    <3>2. QED
      BY <2>4, <3>1
  <2> HIDE DEF distance, queue, p
  <2>7. Queued(h) = Queued(g) \cup {p}
    <3>1. \A i : i \in 1..(Len(g.queue) + 1) <=> i \in 1..Len(g.queue) \/ i = Len(g.queue) + 1
      BY <1>1
    <3>2. h.queue = queue
      BY <2>1
    <3> HIDE DEF h
    <3>3. \A x : x \in Queued(h) <=> x \in Queued(g) \/ x = p
      BY <2>5, <3>1, <3>2 DEF Queued
    <3>4. QED
      BY <3>3
  <2>8. h.distance = distance /\ h.queue = queue
    BY <2>1
  <2>9. h \in Fills(safe)
    <3>1. Queued(h) \subseteq DOMAIN h.distance
      BY <1>1, <2>3, <2>7, <2>8
    <3>2. h \in [distance : UNION {[D -> Int] : D \in SUBSET safe}, queue : Seq(safe)]
      BY <2>1, <2>5, <2>6
    <3> HIDE DEF h
    <3>3. QED
      BY <3>1, <3>2 DEF Fills
  <2>10. Visited(h) = Visited(g)
    <3>1. Cardinality(DOMAIN h.distance) = Cardinality(DOMAIN g.distance) + 1
      <4>1. DOMAIN h.distance = DOMAIN g.distance \cup {p} /\ p \notin DOMAIN g.distance
        BY <1>2, <2>3, <2>8
      <4> HIDE DEF h
      <4>2. Cardinality(DOMAIN g.distance \cup {p}) = Cardinality(DOMAIN g.distance) + 1
        BY <1>1, <4>1, FS_AddElement
      <4>3. QED
        BY <4>1, <4>2
    <3>2. Len(h.queue) = Len(g.queue) + 1
      BY <2>5, <2>8
    <3> HIDE DEF h
    <3>3. QED
      BY <1>1, <3>1, <3>2 DEF Visited
  <2> HIDE DEF h
  <2>11. QED
    BY <1>2, <2>3, <2>7, <2>8, <2>9, <2>10 DEF h, p
<1>3. CASE ~(MoveAllowed(c, move, safe) /\ p \notin DOMAIN g.distance)
  BY <1>3 DEF Look
<1>4. QED
  BY <1>2, <1>3

LEMMA MoveFacts ==
  /\ Len(Moves) = 8 /\ 1..Len(Moves) = 1..8
  /\ Moves[1] = <<-1, 0>> /\ Moves[2] = <<1, 0>> /\ Moves[3] = <<0, -1>> /\ Moves[4] = <<0, 1>>
  /\ Moves[5] = <<-1, -1>> /\ Moves[6] = <<-1, 1>>
  /\ Moves[7] = <<1, -1>> /\ Moves[8] = <<1, 1>>
BY DEF Moves

(* A round of the fill: every move from the head of the queue is looked    *)
(* at, the cells it adds are found by such a move and enter the queue.     *)
LEMMA VisitStep ==
  ASSUME NEW safe \in SUBSET Cells, NEW g \in Fills(safe), g.queue # <<>>
  PROVE  LET h == Visit(g, safe)
             c == Head(g.queue)
         IN  /\ h \in Fills(safe)
             /\ DOMAIN g.distance \subseteq DOMAIN h.distance
             /\ \A d \in DOMAIN h.distance \ DOMAIN g.distance :
                  /\ d \in Queued(h)
                  /\ \E i \in 1..8 : MoveAllowed(c, Moves[i], safe) /\ d = Plus(c, Moves[i])
             /\ \A i \in 1..8 :
                  MoveAllowed(c, Moves[i], safe) => Plus(c, Moves[i]) \in DOMAIN h.distance
             /\ c \in DOMAIN g.distance /\ Queued(g) \subseteq Queued(h) \cup {c}
             /\ Visited(h) = Visited(g) + 1
<1> DEFINE c == Head(g.queue)
           D == DOMAIN g.distance
           g0 == [g EXCEPT !.queue = Tail(@)]
           Found(h) == \A d \in DOMAIN h.distance \ D :
                  /\ d \in Queued(h)
                  /\ \E i \in 1..8 : MoveAllowed(c, Moves[i], safe) /\ d = Plus(c, Moves[i])
           S == {h \in Fills(safe) :
                   /\ D \subseteq DOMAIN h.distance /\ Found(h)
                   /\ Queued(g) \subseteq Queued(h) \cup {c}
                   /\ Visited(h) = Visited(g) + 1}
           F == [x \in (1..8) \X S |-> Look(x[2], c, Moves[x[1]], safe)]
           look[i \in 0..Len(Moves)] ==
             IF i = 0 THEN [g EXCEPT !.queue = Tail(@)]
             ELSE Look(look[i - 1], Head(g.queue), Moves[i], safe)
<1>1. /\ D \in SUBSET safe /\ IsFiniteSet(D) /\ Cardinality(D) \in Nat
      /\ g.distance \in [D -> Int] /\ g.queue \in Seq(safe) /\ Len(g.queue) \in Nat
      /\ Queued(g) \subseteq D /\ g = [distance |-> g.distance, queue |-> g.queue]
  BY FillTyped
<1>2. /\ c = g.queue[1] /\ Tail(g.queue) \in Seq(safe) /\ Len(g.queue) \in Nat \ {0}
      /\ Len(Tail(g.queue)) = Len(g.queue) - 1
      /\ \A i \in 1..Len(Tail(g.queue)) : Tail(g.queue)[i] = g.queue[i + 1]
  BY <1>1
<1>3. c \in D
  <2>1. 1 \in 1..Len(g.queue)
    BY <1>2
  <2>2. c \in Queued(g)
    BY <1>2, <2>1 DEF Queued
  <2>3. QED
    BY <1>1, <2>2
<1>4. g0 \in S
  <2>1. g0 = [distance |-> g.distance, queue |-> Tail(g.queue)]
    <3>1. ASSUME NEW A, NEW B, NEW r \in [distance : A, queue : B], NEW q
          PROVE  [r EXCEPT !.queue = q] = [distance |-> r.distance, queue |-> q]
      OBVIOUS
    <3>2. g \in [distance : UNION {[E -> Int] : E \in SUBSET safe}, queue : Seq(safe)]
      BY DEF Fills
    <3>3. QED
      BY <3>1, <3>2
  <2>2. g0.distance = g.distance /\ g0.queue = Tail(g.queue)
    BY <2>1
  <2> HIDE DEF g0, c
  <2>3. Queued(g0) \subseteq Queued(g)
    <3>1. \A i \in 1..Len(Tail(g.queue)) : i + 1 \in 1..Len(g.queue)
      BY <1>2
    <3>2. QED
      BY <1>2, <2>2, <3>1 DEF Queued
  <2>4. Queued(g) \subseteq Queued(g0) \cup {c}
    <3> SUFFICES ASSUME NEW i \in 1..Len(g.queue), i # 1 PROVE g.queue[i] \in Queued(g0)
      BY <1>2 DEF Queued
    <3>1. i - 1 \in 1..Len(Tail(g.queue)) /\ i - 1 + 1 = i
      BY <1>2
    <3>2. Tail(g.queue)[i - 1] = g.queue[i]
      BY <1>2, <3>1
    <3>3. QED
      BY <2>2, <3>1, <3>2 DEF Queued
  <2>5. g0 \in Fills(safe)
    <3>1. g.distance \in UNION {[E -> Int] : E \in SUBSET safe}
      BY <1>1
    <3>2. g0 \in [distance : UNION {[E -> Int] : E \in SUBSET safe}, queue : Seq(safe)]
      BY <1>2, <2>1, <3>1
    <3>3. QED
      BY <1>1, <2>2, <2>3, <3>2 DEF Fills
  <2>6. Visited(g0) = Visited(g) + 1
    BY <1>1, <1>2, <2>2 DEF Visited
  <2>7. Found(g0)
    BY <2>2
  <2>8. QED
    BY <2>2, <2>4, <2>5, <2>6, <2>7
<1>5. \A h \in S, i \in 1..8 :
        /\ Look(h, c, Moves[i], safe) \in S
        /\ DOMAIN h.distance \subseteq DOMAIN Look(h, c, Moves[i], safe).distance
        /\ MoveAllowed(c, Moves[i], safe) =>
             Plus(c, Moves[i]) \in DOMAIN Look(h, c, Moves[i], safe).distance
  <2> SUFFICES ASSUME NEW h \in S, NEW i \in 1..8
               PROVE  /\ Look(h, c, Moves[i], safe) \in S
                      /\ DOMAIN h.distance \subseteq DOMAIN Look(h, c, Moves[i], safe).distance
                      /\ MoveAllowed(c, Moves[i], safe) =>
                           Plus(c, Moves[i]) \in DOMAIN Look(h, c, Moves[i], safe).distance
    OBVIOUS
  <2> DEFINE k == Look(h, c, Moves[i], safe)
  <2>1. c \in DOMAIN h.distance /\ h \in Fills(safe)
    BY <1>3
  <2>2. /\ k \in Fills(safe) /\ DOMAIN h.distance \subseteq DOMAIN k.distance
        /\ \A d \in DOMAIN k.distance \ DOMAIN h.distance :
             MoveAllowed(c, Moves[i], safe) /\ d = Plus(c, Moves[i]) /\ d \in Queued(k)
        /\ MoveAllowed(c, Moves[i], safe) => Plus(c, Moves[i]) \in DOMAIN k.distance
        /\ Queued(h) \subseteq Queued(k) /\ Visited(k) = Visited(h)
    BY <2>1, LookStep
  <2> HIDE DEF k, c
  <2>3. Found(k)
    BY <2>2
  <2>4. k \in S
    BY <2>2, <2>3
  <2>5. QED
    BY <2>2, <2>4 DEF k
<1>6. F \in [(1..8) \X S -> S] /\ \A i \in 1..8, h \in S : F[<<i, h>>] = Look(h, c, Moves[i], safe)
  <2> HIDE DEF S, c
  <2>1. QED
    BY <1>5
<1>7. Visit(g, safe) = look[8]
  BY MoveFacts DEF Visit
<1>8. /\ look[0] = g0
      /\ \A i \in 1..8 : look[i] = Look(look[i - 1], c, Moves[i], safe)
      /\ \A i \in 0..8 : look[i] \in S
  <2> HIDE DEF F, S
  <2>1. PICK f \in [0..8 -> S] : Stepwise(f, g0, F, 8)
    BY <1>4, <1>6, Recursion
  <2>2. \A n \in 1..8 : f[n] = Look(f[n - 1], c, Moves[n], safe)
    <3> SUFFICES ASSUME NEW n \in 1..8 PROVE f[n] = Look(f[n - 1], c, Moves[n], safe)
      OBVIOUS
    <3>1. f[n] = F[<<n, f[n - 1]>>]
      BY <2>1 DEF Stepwise
    <3>2. f[n - 1] \in S
      OBVIOUS
    <3> HIDE DEF c
    <3>3. QED
      BY <1>6, <3>1, <3>2
  <2>3. f[0] = g0
    BY <2>1 DEF Stepwise
  <2>4. \A n \in 0..8 : f[n] = IF n = 0 THEN g0 ELSE Look(f[n - 1], c, Moves[n], safe)
    <3> HIDE DEF c, g0
    <3>1. QED
      BY <2>2, <2>3
  <2>5. f = [n \in 0..8 |-> IF n = 0 THEN g0 ELSE Look(f[n - 1], c, Moves[n], safe)]
    <3> HIDE DEF c, g0
    <3>1. QED
      BY <2>4
  <2>6. look = [n \in 0..8 |-> IF n = 0 THEN g0 ELSE Look(look[n - 1], c, Moves[n], safe)]
    BY <2>5, MoveFacts
  <2> HIDE DEF look, c, g0
  <2>7. look[0] = g0 /\ \A i \in 1..8 : look[i] = Look(look[i - 1], c, Moves[i], safe)
    BY <2>6
  <2> DEFINE T == {n \in 0..8 : look[n] \in S}
  <2>8. 0 \in T
    BY <1>4, <2>7
  <2>9. ASSUME NEW n \in 0..7, n \in T PROVE n + 1 \in T
    <3>1. n + 1 \in 1..8 /\ n + 1 - 1 = n /\ n + 1 \in 0..8
      OBVIOUS
    <3>2. look[n + 1] = Look(look[n], c, Moves[n + 1], safe)
      BY <2>7, <3>1
    <3>3. QED
      BY <1>5, <2>9, <3>1, <3>2
  <2> HIDE DEF T
  <2>10. \A n \in 0..8 : n \in T
    <3>1. \A n \in 0..(8 - 1) : n \in T => n + 1 \in T
      BY <2>9
    <3>2. QED
      BY <2>8, <3>1, IntervalInd
  <2>11. QED
    BY <2>7, <2>10 DEF T
<1> HIDE DEF look, c, g0, F, S
<1>9. \A i \in 1..8 : MoveAllowed(c, Moves[i], safe) =>
                        Plus(c, Moves[i]) \in DOMAIN look[8].distance
  <2> DEFINE T == {n \in 0..8 : \A i \in 1..n : MoveAllowed(c, Moves[i], safe) =>
                                  Plus(c, Moves[i]) \in DOMAIN look[n].distance}
  <2>1. 0 \in T
    OBVIOUS
  <2>2. ASSUME NEW n \in 0..7, n \in T PROVE n + 1 \in T
    <3>1. n + 1 \in 1..8 /\ n + 1 - 1 = n /\ n + 1 \in 0..8 /\ n \in 0..8
      OBVIOUS
    <3>2. look[n + 1] = Look(look[n], c, Moves[n + 1], safe) /\ look[n] \in S
      BY <1>8, <3>1
    <3>3. /\ DOMAIN look[n].distance \subseteq DOMAIN look[n + 1].distance
          /\ MoveAllowed(c, Moves[n + 1], safe) =>
               Plus(c, Moves[n + 1]) \in DOMAIN look[n + 1].distance
      BY <1>5, <3>1, <3>2
    <3>4. \A i \in 1..(n + 1) : i \in 1..n \/ i = n + 1
      OBVIOUS
    <3>5. QED
      BY <2>2, <3>1, <3>3, <3>4
  <2> HIDE DEF T
  <2>3. 8 \in T
    <3>1. \A n \in 0..(8 - 1) : n \in T => n + 1 \in T
      BY <2>2
    <3>2. QED
      BY <2>1, <3>1, IntervalInd
  <2>4. QED
    BY <2>3 DEF T
<1>10. look[8] \in S
  BY <1>8
<1>11. QED
  BY <1>3, <1>7, <1>9, <1>10 DEF S, c

(* A set of safe cells that no move of the fill leads out of; the cells    *)
(* that were at the head of the queue have their moves done.               *)
MovesDone(d, D, safe) == \A i \in 1..8 : MoveAllowed(d, Moves[i], safe) => Plus(d, Moves[i]) \in D
MoveClosed(K, safe) == \A d \in K : MovesDone(d, K, safe)

(* Each safe cell is at the head of the queue at most once, so that the    *)
(* rounds there are empty the queue: the fill has all that its moves reach *)
(* and nothing else.                                                       *)
LEMMA FillIsLeast ==
  ASSUME NEW safe \in SUBSET Cells, NEW start \in safe
  PROVE  /\ DOMAIN FloodFill(start, safe) \in SUBSET safe
         /\ start \in DOMAIN FloodFill(start, safe)
         /\ \A c \in DOMAIN FloodFill(start, safe) : FloodFill(start, safe)[c] \in Int
         /\ MoveClosed(DOMAIN FloodFill(start, safe), safe)
         /\ \A K \in SUBSET safe : start \in K /\ MoveClosed(K, safe) =>
              DOMAIN FloodFill(start, safe) \subseteq K
<1> DEFINE N == Cardinality(safe)
           g0 == [distance |-> [c \in {start} |-> 0], queue |-> <<start>>]
           Least(g) == \A K \in SUBSET safe : start \in K /\ MoveClosed(K, safe) =>
                          DOMAIN g.distance \subseteq K
           Done(g) == \A d \in DOMAIN g.distance \ Queued(g) : MovesDone(d, DOMAIN g.distance, safe)
           S == {g \in Fills(safe) : start \in DOMAIN g.distance /\ Least(g) /\ Done(g)}
           Round(g) == IF g.queue = <<>> THEN g ELSE Visit(g, safe)
           F == [x \in (1..N) \X S |-> Round(x[2])]
           fill[n \in 0..Cardinality(safe)] ==
             IF n = 0 THEN [distance |-> [c \in {start} |-> 0], queue |-> <<start>>]
             ELSE LET last == fill[n - 1]
                  IN IF last.queue = <<>> THEN last ELSE Visit(last, safe)
<1>1. IsFiniteSet(safe) /\ N \in Nat
  BY CellFacts, FS_Subset, FS_CardinalityType
<1>2. g0 \in S /\ Visited(g0) = 0
  <2>1. /\ g0.distance = [c \in {start} |-> 0] /\ g0.queue = <<start>>
        /\ DOMAIN g0.distance = {start} /\ Len(g0.queue) = 1 /\ g0.queue[1] = start
    OBVIOUS
  <2>2. g0 \in [distance : UNION {[D -> Int] : D \in SUBSET safe}, queue : Seq(safe)]
    <3>1. [c \in {start} |-> 0] \in [{start} -> Int]
      OBVIOUS
    <3>2. {start} \in SUBSET safe
      OBVIOUS
    <3>3. [c \in {start} |-> 0] \in UNION {[D -> Int] : D \in SUBSET safe}
      BY <3>1, <3>2
    <3>4. <<start>> \in Seq(safe)
      OBVIOUS
    <3>5. QED
      BY <3>3, <3>4
  <2> HIDE DEF g0
  <2>3. Queued(g0) = {start}
    BY <2>1 DEF Queued
  <2>4. g0 \in Fills(safe)
    BY <2>1, <2>2, <2>3 DEF Fills
  <2>5. Cardinality({start}) = 1
    BY FS_Singleton
  <2>6. Visited(g0) = 0
    BY <2>1, <2>5 DEF Visited
  <2>7. QED
    BY <2>1, <2>3, <2>4, <2>6
<1>3. \A g \in S : Round(g) \in S
  <2> SUFFICES ASSUME NEW g \in S, g.queue # <<>> PROVE Visit(g, safe) \in S
    OBVIOUS
  <2> DEFINE h == Visit(g, safe)
             c == Head(g.queue)
  <2>1. /\ h \in Fills(safe) /\ DOMAIN g.distance \subseteq DOMAIN h.distance
        /\ \A d \in DOMAIN h.distance \ DOMAIN g.distance :
             /\ d \in Queued(h)
             /\ \E i \in 1..8 : MoveAllowed(c, Moves[i], safe) /\ d = Plus(c, Moves[i])
        /\ MovesDone(c, DOMAIN h.distance, safe)
        /\ c \in DOMAIN g.distance /\ Queued(g) \subseteq Queued(h) \cup {c}
    BY VisitStep DEF MovesDone
  <2> HIDE DEF h, c
  <2>2. start \in DOMAIN h.distance
    BY <2>1
  <2>3. Least(h)
    <3> SUFFICES ASSUME NEW K \in SUBSET safe, start \in K, MoveClosed(K, safe)
                 PROVE  DOMAIN h.distance \subseteq K
      OBVIOUS
    <3>1. DOMAIN g.distance \subseteq K
      OBVIOUS
    <3>2. MovesDone(c, K, safe)
      BY <2>1, <3>1 DEF MoveClosed
    <3>3. QED
      BY <2>1, <3>1, <3>2 DEF MovesDone
  <2>4. Done(h)
    <3> SUFFICES ASSUME NEW d \in DOMAIN h.distance \ Queued(h), d # c
                 PROVE  MovesDone(d, DOMAIN h.distance, safe)
      BY <2>1
    <3>1. d \in DOMAIN g.distance \ Queued(g)
      BY <2>1
    <3>2. MovesDone(d, DOMAIN g.distance, safe)
      BY <3>1
    <3>3. QED
      BY <2>1, <3>2 DEF MovesDone
  <2>5. QED
    BY <2>1, <2>2, <2>3, <2>4 DEF h
<1>4. F \in [(1..N) \X S -> S] /\ \A n \in 1..N, g \in S : F[<<n, g>>] = Round(g)
  <2> HIDE DEF S, Round
  <2>1. QED
    BY <1>3
<1>5. FloodFill(start, safe) = fill[N].distance
  BY DEF FloodFill
<1>6. /\ fill[0] = g0
      /\ \A n \in 1..N : fill[n] = Round(fill[n - 1])
      /\ \A n \in 0..N : fill[n] \in S
  <2> HIDE DEF N, F, S
  <2>1. PICK f \in [0..N -> S] : Stepwise(f, g0, F, N)
    <3> HIDE DEF g0
    <3>1. QED
      BY <1>1, <1>2, <1>4, Recursion
  <2>2. f[0] = g0
    BY <2>1 DEF Stepwise
  <2>3. \A n \in 1..N : f[n] = Round(f[n - 1])
    <3> SUFFICES ASSUME NEW n \in 1..N PROVE f[n] = Round(f[n - 1])
      OBVIOUS
    <3>1. f[n] = F[<<n, f[n - 1]>>]
      BY <2>1 DEF Stepwise
    <3>2. f[n - 1] \in S
      BY <1>1
    <3> HIDE DEF Round
    <3>3. QED
      BY <1>4, <3>1, <3>2
  <2>4. \A n \in 0..N : f[n] = IF n = 0 THEN g0 ELSE Round(f[n - 1])
    <3>1. \A n \in 0..N : n = 0 \/ (n # 0 /\ n \in 1..N)
      BY <1>1
    <3> HIDE DEF Round, g0
    <3>2. QED
      BY <2>2, <2>3, <3>1
  <2>5. f = [n \in 0..N |-> IF n = 0 THEN g0 ELSE Round(f[n - 1])]
    <3> HIDE DEF Round, g0
    <3>1. QED
      BY <2>4
  <2>6. fill = [n \in 0..N |-> IF n = 0 THEN g0 ELSE Round(fill[n - 1])]
    BY <2>5 DEF N
  <2> HIDE DEF fill, Round, g0
  <2>7. fill[0] = g0 /\ \A n \in 1..N : fill[n] = Round(fill[n - 1])
    <3>1. 0 \in 0..N /\ \A n \in 1..N : n \in 0..N /\ n # 0
      BY <1>1
    <3>2. QED
      BY <2>6, <3>1
  <2> DEFINE T == {n \in 0..N : fill[n] \in S}
  <2>8. 0 \in T
    <3>1. 0 \in 0..N
      BY <1>1
    <3>2. QED
      BY <1>2, <2>7, <3>1
  <2>9. ASSUME NEW n \in 0..(N - 1), n \in T PROVE n + 1 \in T
    <3>1. n + 1 \in 0..N /\ n + 1 \in 1..N /\ n + 1 - 1 = n
      BY <1>1
    <3>2. fill[n + 1] = Round(fill[n])
      BY <2>7, <3>1
    <3>3. QED
      BY <1>3, <2>9, <3>1, <3>2
  <2> HIDE DEF T
  <2>10. \A n \in 0..N : n \in T
    BY <1>1, <2>8, <2>9, IntervalInd
  <2>11. QED
    BY <2>7, <2>10 DEF T
<1> HIDE DEF fill, F, N, g0
<1>7. fill[N].queue = <<>>
  <2> DEFINE T == {n \in 0..N : fill[n].queue = <<>> \/ Visited(fill[n]) = n}
  <2>1. 0 \in T
    BY <1>1, <1>2, <1>6
  <2>2. ASSUME NEW n \in 0..(N - 1), n \in T PROVE n + 1 \in T
    <3>1. n + 1 \in 0..N /\ n + 1 \in 1..N /\ n + 1 - 1 = n /\ n \in 0..N /\ n \in Nat
      BY <1>1
    <3>2. fill[n + 1] = Round(fill[n]) /\ fill[n] \in Fills(safe)
      BY <1>6, <3>1
    <3>3. CASE fill[n].queue = <<>>
      BY <3>1, <3>2, <3>3
    <3>4. CASE fill[n].queue # <<>>
      <4>1. Visited(fill[n]) = n
        BY <2>2, <3>4
      <4>2. Visited(Visit(fill[n], safe)) = Visited(fill[n]) + 1
        BY <3>2, <3>4, VisitStep
      <4>3. Visited(fill[n + 1]) = n + 1
        BY <3>2, <3>4, <4>1, <4>2
      <4>4. QED
        BY <3>1, <4>3
    <3>5. QED
      BY <3>3, <3>4
  <2> HIDE DEF T
  <2>3. N \in T
    BY <1>1, <2>1, <2>2, IntervalInd
  <2> SUFFICES ASSUME Visited(fill[N]) = N PROVE fill[N].queue = <<>>
    BY <2>3 DEF T
  <2>4. fill[N] \in Fills(safe)
    BY <1>1, <1>6
  <2>5. /\ DOMAIN fill[N].distance \in SUBSET safe /\ Cardinality(DOMAIN fill[N].distance) \in Nat
        /\ fill[N].queue \in Seq(safe) /\ Len(fill[N].queue) \in Nat
    BY <2>4, FillTyped
  <2>6. Cardinality(DOMAIN fill[N].distance) <= N
    BY <1>1, <2>5, FS_Subset DEF N
  <2>7. Len(fill[N].queue) = 0
    BY <1>1, <2>5, <2>6 DEF Visited
  <2>8. QED
    BY <2>5, <2>7
<1>8. fill[N] \in S
  BY <1>1, <1>6
<1>9. Queued(fill[N]) = {}
  BY <1>7 DEF Queued
<1>10. /\ DOMAIN fill[N].distance \in SUBSET safe
       /\ fill[N].distance \in [DOMAIN fill[N].distance -> Int]
  BY <1>8, FillTyped
<1>11. MoveClosed(DOMAIN fill[N].distance, safe)
  BY <1>8, <1>9 DEF MoveClosed
<1>12. QED
  BY <1>5, <1>8, <1>10, <1>11

(* Where no step along an axis leads out, no move of the fill does, and    *)
(* the other way round: a diagonal move needs both corners.                *)
LEMMA ClosuresAgree ==
  ASSUME NEW safe \in SUBSET Cells, NEW K \in SUBSET safe
  PROVE  AxisClosed(K, safe) <=> MoveClosed(K, safe)
<1>0. \A c \in safe : c[1] \in Int /\ c[2] \in Int /\ c = <<c[1], c[2]>>
  BY CellFacts
<1>1. ASSUME AxisClosed(K, safe) PROVE MoveClosed(K, safe)
  <2> SUFFICES ASSUME NEW d \in K, NEW i \in 1..8, MoveAllowed(d, Moves[i], safe)
               PROVE  Plus(d, Moves[i]) \in K
    BY DEF MoveClosed, MovesDone
  <2>1. \A c \in K : \A e \in safe : Beside(e, c) => e \in K
    BY <1>1 DEF AxisClosed
  <2>2. d[1] \in Int /\ d[2] \in Int
    BY <1>0
  <2>3. CASE i \in 1..4
    <3>1. /\ Plus(d, Moves[i]) \in safe
          /\ \/ Plus(d, Moves[i]) = <<d[1] - 1, d[2]>> \/ Plus(d, Moves[i]) = <<d[1] + 1, d[2]>>
             \/ Plus(d, Moves[i]) = <<d[1], d[2] - 1>> \/ Plus(d, Moves[i]) = <<d[1], d[2] + 1>>
      BY <2>2, <2>3, MoveFacts DEF MoveAllowed, Plus
    <3>2. Beside(Plus(d, Moves[i]), d)
      BY <2>2, <3>1 DEF Beside, Abs
    <3>3. QED
      BY <2>1, <3>1, <3>2
  <2>4. CASE i \in 5..8
    <3> DEFINE m == Moves[i]
               corner == <<d[1] + m[1], d[2]>>
               p == <<d[1] + m[1], d[2] + m[2]>>
    <3>1. m[1] \in {-1, 1} /\ m[2] \in {-1, 1}
      BY <2>4, MoveFacts
    <3>2. Plus(d, m) = p /\ p \in safe /\ corner \in safe
      BY <3>1 DEF MoveAllowed, Plus, IsDiagonal
    <3> HIDE DEF m
    <3>3. Beside(corner, d) /\ Beside(p, corner)
      BY <2>2, <3>1 DEF Beside, Abs
    <3> HIDE DEF corner, p
    <3>4. QED
      BY <2>1, <3>2, <3>3 DEF m
  <2>5. QED
    BY <2>3, <2>4
<1>2. ASSUME MoveClosed(K, safe) PROVE AxisClosed(K, safe)
  <2> SUFFICES ASSUME NEW d \in K, NEW c \in safe, Beside(c, d) PROVE c \in K
    BY DEF AxisClosed
  <2>1. \A i \in 1..8 : MoveAllowed(d, Moves[i], safe) => Plus(d, Moves[i]) \in K
    BY <1>2 DEF MoveClosed, MovesDone
  <2>2. /\ d[1] \in Int /\ d[2] \in Int /\ c[1] \in Int /\ c[2] \in Int /\ c = <<c[1], c[2]>>
    BY <1>0
  <2>3. \/ c[1] = d[1] - 1 /\ c[2] = d[2]
        \/ c[1] = d[1] + 1 /\ c[2] = d[2]
        \/ c[1] = d[1] /\ c[2] = d[2] - 1
        \/ c[1] = d[1] /\ c[2] = d[2] + 1
    BY <2>2 DEF Beside, Abs
  <2>4. PICK i \in 1..4 : c[1] = d[1] + Moves[i][1] /\ c[2] = d[2] + Moves[i][2]
    <3>1. 1 \in 1..4 /\ 2 \in 1..4 /\ 3 \in 1..4 /\ 4 \in 1..4
      OBVIOUS
    <3>2. QED
      BY <2>2, <2>3, <3>1, MoveFacts
  <2>5. Plus(d, Moves[i]) = c
    BY <2>2, <2>4 DEF Plus
  <2>6. ~IsDiagonal(Moves[i])
    BY MoveFacts DEF IsDiagonal
  <2>7. MoveAllowed(d, Moves[i], safe)
    BY <2>5, <2>6 DEF MoveAllowed
  <2>8. QED
    BY <2>1, <2>5, <2>7
<1>3. QED
  BY <1>1, <1>2

(* From any start, the fill reaches the cells of its component, whatever   *)
(* cells are safe.                                                         *)
THEOREM FillReachesComponent ==
  \A safe \in SUBSET Cells : \A start \in safe :
    DOMAIN FloodFill(start, safe) = Component(start, safe)
<1> SUFFICES ASSUME NEW safe \in SUBSET Cells, NEW start \in safe
             PROVE  DOMAIN FloodFill(start, safe) = Component(start, safe)
  OBVIOUS
<1> DEFINE D == DOMAIN FloodFill(start, safe)
           C == Component(start, safe)
<1>1. /\ D \in SUBSET safe /\ start \in D /\ MoveClosed(D, safe)
      /\ \A K \in SUBSET safe : start \in K /\ MoveClosed(K, safe) => D \subseteq K
  BY FillIsLeast
<1>2. /\ C \in SUBSET safe /\ start \in C /\ AxisClosed(C, safe)
      /\ \A K \in SUBSET safe : start \in K /\ AxisClosed(K, safe) => C \subseteq K
  BY ComponentIsLeast
<1> HIDE DEF C, D
<1>3. D \subseteq C
  BY <1>1, <1>2, ClosuresAgree
<1>4. C \subseteq D
  BY <1>1, <1>2, ClosuresAgree
<1>5. QED
  BY <1>3, <1>4 DEF C, D

-----------------------------------------------------------------------------
(* What the table tells of a map and a cell of the robot.                  *)
LEMMA ReachIsComponent ==
  ASSUME NEW free \in Maps, NEW start \in Cells, NEW radius \in Footprints
  PROVE  LET r == ReachOn(free, start, radius)
         IN /\ r.component \in SUBSET Cells
            /\ r.component = ComponentFrom(free, start, radius)
            /\ DOMAIN r.distance = r.component
            /\ \A c \in DOMAIN r.distance : r.distance[c] \in Int
<1> DEFINE entry == [free |-> free, start |-> start, radius |-> radius,
                     distance |-> ReachableCells(free, start, radius),
                     component |-> ComponentFrom(free, start, radius)]
           told == ReachOn(free, start, radius)
           safe == SafeCells(free, radius)
           from == NearestSafe(start, safe)
           right == /\ told.component \in SUBSET Cells
                    /\ DOMAIN told.distance = told.component
                    /\ \A c \in DOMAIN told.distance : told.distance[c] \in Int
<1>1. entry \in Reach
  BY DEF Reach
<1>2. \A r \in Reach : r.start = start /\ r.radius = radius /\ r.free = free =>
        /\ r.distance = ReachableCells(free, start, radius)
        /\ r.component = ComponentFrom(free, start, radius)
  <2> SUFFICES ASSUME NEW f \in Maps, NEW s \in Cells, NEW n \in Footprints,
                      f = free, s = start, n = radius
               PROVE  /\ ReachableCells(f, s, n) = ReachableCells(free, start, radius)
                      /\ ComponentFrom(f, s, n) = ComponentFrom(free, start, radius)
    BY DEF Reach
  <2>1. QED
    OBVIOUS
<1>3. entry.free = free /\ entry.start = start /\ entry.radius = radius
  OBVIOUS
<1> HIDE DEF entry
<1>4. /\ told.distance = ReachableCells(free, start, radius)
      /\ told.component = ComponentFrom(free, start, radius)
  <2>1. told \in Reach /\ told.free = free /\ told.start = start /\ told.radius = radius
    BY <1>1, <1>3 DEF ReachOn
  <2>2. QED
    BY <1>2, <2>1
<1>5. safe \in SUBSET Cells
  BY SearchAssumption DEF SafeCells
<1>6. from \in safe \cup {NoCell}
  <2> HIDE DEF safe
  <2>1. QED
    BY <1>5, NearestSafeMember
<1>7. /\ ReachableCells(free, start, radius) =
            IF from = NoCell THEN <<>> ELSE FloodFill(from, safe)
      /\ ComponentFrom(free, start, radius) =
            IF from = NoCell THEN {} ELSE Component(from, safe)
  BY DEF ReachableCells, ComponentFrom
<1> HIDE DEF safe, from, told
<1>8. from = NoCell => right
  <2>1. DOMAIN <<>> = {}
    OBVIOUS
  <2>2. QED
    BY <1>4, <1>7, <2>1
<1>9. from # NoCell => right
  <2> SUFFICES ASSUME from # NoCell PROVE right
    OBVIOUS
  <2>1. /\ DOMAIN FloodFill(from, safe) = Component(from, safe)
        /\ DOMAIN FloodFill(from, safe) \in SUBSET safe
        /\ \A c \in DOMAIN FloodFill(from, safe) : FloodFill(from, safe)[c] \in Int
    BY <1>5, <1>6, FillReachesComponent, FillIsLeast
  <2>2. QED
    BY <1>4, <1>5, <1>7, <2>1
<1>10. QED
  BY <1>4, <1>8, <1>9 DEF told

(* A selection is NoCell, or a cell of the grid.                           *)
LEMMA SelectMember ==
  ASSUME NEW free \in Maps, robot \in Cells
  PROVE  Select(free).cell \in Cells \cup {NoCell}
<1> DEFINE distance == ReachOn(free, robot, SelectionFootprint).distance
<1>1. /\ DOMAIN distance \in SUBSET Cells
      /\ \A c \in DOMAIN distance : distance[c] \in Int
  <2>1. SelectionFootprint \in Footprints
    BY DEF Footprints
  <2>2. QED
    BY <2>1, ReachIsComponent
<1> HIDE DEF distance
<1>2. Candidates(distance) \in SUBSET DOMAIN distance
  BY DEF Candidates
<1>3. Candidates(distance) # {} => Farthest(Candidates(distance), distance) \in Cells
  BY <1>1, <1>2, FarthestMember
<1>4. QED
  BY <1>3 DEF Select, distance

(* An evaluation that rejects obstacles gives the point, if the robot can  *)
(* reach it, and NoCell otherwise.                                         *)
LEMMA EvaluateMember ==
  ASSUME NEW distance, NEW free, NEW point, NEW radius
  PROVE  LET cell == Evaluate(distance, free, point, "reject", radius)
         IN cell = NoCell \/ (cell = point /\ point \in DOMAIN distance)
BY DEF Evaluate

-----------------------------------------------------------------------------
(* The inductive invariant.  The revision of the grid trails the count;    *)
(* a report is of the grid there is if it has its revision; and the points *)
(* kept as attempted were selected in the mission that they are kept for.  *)
MapInv ==
  /\ grid.revision <= revision
  /\ report.free \subseteq Cells
  /\ pc \in {"evaluated", "checked"} =>
       /\ report.free \in Maps
       /\ report.revision \in Int /\ report.revision <= grid.revision
       /\ report.revision = grid.revision => report.free = grid.free
       /\ report.cell # NoCell => poi \in ReachOn(report.free, robot, MotionFootprint).component
  /\ pc = "checked" => report.cell # NoCell

MissionInv ==
  /\ mission = known => attempted \subseteq tried
  /\ pc # "idle" => poi \in Cells /\ poi \in tried /\ mission = known

SearchInv == TypeOK /\ MapInv /\ MissionInv

LEMMA SearchInit == Init => SearchInv
<1> SUFFICES ASSUME Init PROVE SearchInv
  OBVIOUS
<1> USE DEF Init
<1>1. grid \in [free : Maps, revision : 1..MaxRevision] /\ grid.revision = 1
      /\ grid.free \in Maps
  BY SearchAssumption
<1>2. robot \in Cells
  BY <1>1, SearchAssumption
<1>3. TypeOK
  BY <1>1, <1>2, SearchAssumption DEF TypeOK, NoReport
<1>4. MapInv
  BY <1>1 DEF MapInv, NoReport
<1>5. MissionInv
  BY DEF MissionInv
<1>6. QED
  BY <1>3, <1>4, <1>5 DEF SearchInv

LEMMA SearchStep == SearchInv /\ [Next]_vars => SearchInv'
<1> SUFFICES ASSUME SearchInv, [Next]_vars PROVE SearchInv'
  OBVIOUS
<1> USE DEF SearchInv
<1>0. /\ grid.free \in Maps /\ grid.revision \in 1..MaxRevision
      /\ \A f \in Maps : f \subseteq Cells
  BY SearchAssumption DEF TypeOK
<1>1. CASE CountRevision
  <2>1. revision + 1 \in 1..MaxRevision
    BY <1>1, SearchAssumption DEF CountRevision, TypeOK
  <2>2. TypeOK'
    BY <1>1, <2>1 DEF CountRevision, TypeOK, search
  <2>3. MapInv'
    BY <1>0, <1>1, SearchAssumption DEF CountRevision, TypeOK, MapInv
  <2>4. MissionInv'
    BY <1>1 DEF CountRevision, MissionInv, search
  <2>5. QED
    BY <2>2, <2>3, <2>4
<1>2. CASE ReplaceGrid
  <2>1. PICK f \in Maps : grid' = [free |-> f, revision |-> revision]
    BY <1>2 DEF ReplaceGrid
  <2>2. grid' \in [free : Maps, revision : 1..MaxRevision] /\ grid'.revision = revision
    BY <2>1 DEF TypeOK
  <2>3. TypeOK'
    BY <1>2, <2>2 DEF ReplaceGrid, TypeOK, search
  <2>4. grid.revision < revision
    BY <1>0, <1>2, SearchAssumption DEF ReplaceGrid, TypeOK, MapInv
  <2>5. revision \in Int
    BY SearchAssumption DEF TypeOK
  <2>6. MapInv'
    BY <1>0, <1>2, <2>2, <2>4, <2>5, SearchAssumption DEF ReplaceGrid, MapInv
  <2>7. MissionInv'
    BY <1>2 DEF ReplaceGrid, MissionInv, search
  <2>8. QED
    BY <2>3, <2>6, <2>7
<1>3. CASE NextMission
  <2>1. mission + 1 \in 1..MaxMissions /\ known \in 0..(mission + 1) /\ mission + 1 # known
    BY <1>3, SearchAssumption DEF NextMission, TypeOK
  <2>2. TypeOK'
    BY <1>3, <2>1 DEF NextMission, TypeOK, map
  <2>3. MapInv'
    BY <1>3 DEF NextMission, MapInv, map
  <2>4. MissionInv'
    BY <1>3, <2>1 DEF NextMission, MissionInv
  <2>5. QED
    BY <2>2, <2>3, <2>4
<1>4. mission \in 0..mission
  BY SearchAssumption DEF TypeOK
<1>5. Attempted \subseteq Cells /\ Attempted \subseteq tried
  BY DEF Attempted, TypeOK, MissionInv
<1>6. CASE Observe
  <2> DEFINE cell == Select(grid.free).cell
  <2>1. cell \in Cells \cup {NoCell}
    BY <1>0, SelectMember DEF TypeOK
  <2>2. \/ UNCHANGED <<pc, poi, tried>>
        \/ cell \in Cells /\ poi' = cell /\ pc' = "selected" /\ tried' = tried \cup {cell}
    BY <1>6, <2>1 DEF Observe
  <2> HIDE DEF cell
  <2>3. /\ pc = "idle" /\ known' = mission /\ attempted' = Attempted
        /\ UNCHANGED <<grid, revision, robot, mission, report, canceled>>
    BY <1>6 DEF Observe, map
  <2>4. TypeOK'
    BY <1>4, <1>5, <2>2, <2>3 DEF TypeOK
  <2>5. MapInv'
    BY <2>2, <2>3 DEF MapInv
  <2>6. MissionInv'
    BY <1>5, <2>2, <2>3 DEF MissionInv
  <2>7. QED
    BY <2>4, <2>5, <2>6
<1>7. CASE ObserveBlind
  <2>1. TypeOK'
    BY <1>4, <1>5, <1>7 DEF ObserveBlind, TypeOK, map
  <2>2. MapInv'
    BY <1>7 DEF ObserveBlind, MapInv, map
  <2>3. MissionInv'
    BY <1>5, <1>7 DEF ObserveBlind, MissionInv
  <2>4. QED
    BY <2>1, <2>2, <2>3
<1>8. CASE TakeSnapshot
  <2> DEFINE distance == ReachOn(grid.free, robot, MotionFootprint).distance
             cell == Evaluate(distance, grid.free, poi, "reject", MotionFootprint)
  <2>1. cell = NoCell \/ (cell = poi /\ poi \in DOMAIN distance)
    BY EvaluateMember
  <2>2. DOMAIN distance = ReachOn(grid.free, robot, MotionFootprint).component
    BY <1>0, ReachIsComponent DEF TypeOK, Footprints
  <2>3. report' = [free |-> grid.free, revision |-> grid.revision, cell |-> cell]
    BY <1>8 DEF TakeSnapshot
  <2> HIDE DEF distance, cell
  <2>4. report'.free = grid.free /\ report'.revision = grid.revision /\ report'.cell = cell
    BY <2>3
  <2>5. /\ pc = "selected" /\ pc' = "evaluated"
        /\ UNCHANGED <<grid, revision, robot, mission, known, attempted, tried, poi, canceled>>
    BY <1>8 DEF TakeSnapshot, map, search
  <2>6. TypeOK'
    BY <2>1, <2>4, <2>5 DEF TypeOK
  <2>7. MapInv'
    <3>1. grid.revision \in Int
      BY <1>0, SearchAssumption
    <3>2. cell # NoCell => poi \in ReachOn(grid.free, robot, MotionFootprint).component
      BY <2>1, <2>2
    <3>3. QED
      BY <1>0, <2>4, <2>5, <3>1, <3>2 DEF MapInv
  <2>8. MissionInv'
    BY <2>5 DEF MissionInv
  <2>9. QED
    BY <2>6, <2>7, <2>8
<1>9. CASE CheckReport
  <2>1. TypeOK'
    BY <1>9 DEF CheckReport, TypeOK, map, search
  <2>2. MapInv'
    BY <1>9 DEF CheckReport, MapInv, map
  <2>3. MissionInv'
    BY <1>9 DEF CheckReport, MissionInv, search
  <2>4. QED
    BY <2>1, <2>2, <2>3
<1>10. CASE SendGoal
  <2>1. TypeOK'
    BY <1>10 DEF SendGoal, TypeOK, map, search
  <2>2. MapInv'
    BY <1>10 DEF SendGoal, MapInv, map
  <2>3. MissionInv'
    BY <1>10 DEF SendGoal, MissionInv, search
  <2>4. QED
    BY <2>1, <2>2, <2>3
(* Every return of a call leaves the point and the report behind.          *)
<1>11. CASE Return
  <2>1. pc # "idle" /\ poi \in Cells /\ poi \in tried /\ mission = known
    BY <1>11 DEF Return, Refuse, NavigationFails, NavigationSucceeds, NavigationCanceled, MissionInv
  <2>2. /\ pc' = "idle" /\ poi' = NoCell /\ report' = NoReport
        /\ attempted' \subseteq attempted \cup {poi}
        /\ UNCHANGED <<grid, revision, mission, known, tried>>
    BY <1>11 DEF Return, Refuse, NavigationFails, NavigationSucceeds, NavigationCanceled, Failed,
                 map, search
  <2>3. robot' \in Cells
    BY <1>11, <2>1 DEF Return, Refuse, NavigationFails, NavigationSucceeds, NavigationCanceled,
                       TypeOK, MapInv
  <2>4. canceled' \in 0..MaxCanceled
    <3>1. canceled' = canceled \/ (canceled' = canceled + 1 /\ canceled < MaxCanceled)
      BY <1>11 DEF Return, Refuse, NavigationFails, NavigationSucceeds, NavigationCanceled, Failed
    <3>2. QED
      BY <3>1, SearchAssumption DEF TypeOK
  <2>5. report'.free = {} /\ report'.cell = NoCell
    BY <2>2 DEF NoReport
  <2>6. TypeOK'
    BY <2>1, <2>2, <2>3, <2>4, <2>5 DEF TypeOK
  <2>7. MapInv'
    BY <2>2, <2>5 DEF MapInv
  <2>8. MissionInv'
    BY <2>1, <2>2 DEF MissionInv
  <2>9. QED
    BY <2>6, <2>7, <2>8
<1>12. CASE UNCHANGED vars
  <2>1. TypeOK'
    BY <1>12 DEF vars, TypeOK
  <2>2. MapInv' /\ MissionInv'
    BY <1>12 DEF vars, MapInv, MissionInv
  <2>3. QED
    BY <2>1, <2>2
<1>13. QED
  BY <1>1, <1>2, <1>3, <1>6, <1>7, <1>8, <1>9, <1>10, <1>11, <1>12 DEF Next

LEMMA SearchInvariant == Spec => []SearchInv
<1>1. QED
  BY SearchInit, SearchStep, PTL DEF Spec

(* Wherever the robot has come to, on whatever map there is now, the flood *)
(* fill gives the cells that steps along the axes lead to.                 *)
THEOREM FillIsRight == Spec => []FillIsComponent
<1>1. SearchInv => FillIsComponent
  <2> SUFFICES ASSUME SearchInv PROVE FillIsComponent
    OBVIOUS
  <2>1. TypeOK /\ grid.free \in Maps /\ robot \in Cells
    BY DEF SearchInv, TypeOK
  <2>2. QED
    BY <2>1, ReachIsComponent DEF FillIsComponent
<1>2. QED
  BY <1>1, SearchInvariant, PTL

(* The point sent to Nav2 is one the robot can reach on the map there is:  *)
(* the two comparisons of revisions leave no room for another map.         *)
THEOREM GoalsAreReachable == Spec => GoalsMatchMap
<1> DEFINE Sent == pc = "checked" /\ pc' = "sent" => poi \in ReachOn(grid.free, robot, MotionFootprint).component
<1>1. SearchInv /\ [Next]_vars => [Sent]_vars
  <2> SUFFICES ASSUME SearchInv, Next, pc = "checked", pc' = "sent"
               PROVE  poi \in ReachOn(grid.free, robot, MotionFootprint).component
    OBVIOUS
  <2>1. SendGoal
    BY DEF Next, CountRevision, ReplaceGrid, NextMission, Observe, ObserveBlind, TakeSnapshot,
           CheckReport, Return, Refuse, NavigationFails, NavigationSucceeds, NavigationCanceled,
           Failed
  <2>2. /\ grid.revision \in Int /\ revision \in Int /\ grid.revision <= revision
        /\ report.revision \in Int /\ report.revision <= grid.revision
    BY SearchAssumption DEF SearchInv, TypeOK, MapInv
  <2>3. report.revision = grid.revision
    BY <2>1, <2>2 DEF SendGoal, Unchanged
  <2>4. QED
    BY <2>3 DEF SearchInv, MapInv
<1>2. QED
  BY <1>1, SearchInvariant, PTL DEF Spec, GoalsMatchMap

(* A larger footprint is safe in fewer cells.                              *)
LEMMA LargerIsSaferNowhere ==
  ASSUME NEW free \in SUBSET Cells
  PROVE  SafeCells(free, MotionFootprint) \subseteq SafeCells(free, SelectionFootprint)
<1>1. /\ SelectionFootprint \in Nat /\ MotionFootprint \in Nat
      /\ SelectionFootprint <= MotionFootprint
  BY SearchAssumption
<1>2. SelectionFootprint * SelectionFootprint <= MotionFootprint * MotionFootprint
  <2>1. \A m, n \in Nat : m <= n => m * m <= n * n
    OBVIOUS
  <2>2. QED
    BY <1>1, <2>1
<1>3. (-SelectionFootprint)..SelectionFootprint \subseteq (-MotionFootprint)..MotionFootprint
  BY <1>1
<1>4. \A e \in ((-SelectionFootprint)..SelectionFootprint) \X ((-SelectionFootprint)..SelectionFootprint) :
        e[1] * e[1] + e[2] * e[2] \in Int
  BY <1>1
<1>5. SelectionFootprint * SelectionFootprint \in Int /\ MotionFootprint * MotionFootprint \in Int
  BY <1>1
<1>6. ASSUME NEW e \in ((-SelectionFootprint)..SelectionFootprint) \X ((-SelectionFootprint)..SelectionFootprint),
             e[1] * e[1] + e[2] * e[2] <= SelectionFootprint * SelectionFootprint
      PROVE  /\ e \in ((-MotionFootprint)..MotionFootprint) \X ((-MotionFootprint)..MotionFootprint)
             /\ e[1] * e[1] + e[2] * e[2] <= MotionFootprint * MotionFootprint
  <2>1. e \in ((-MotionFootprint)..MotionFootprint) \X ((-MotionFootprint)..MotionFootprint)
    BY <1>3
  <2>2. \A k, m, n \in Int : k <= m /\ m <= n => k <= n
    OBVIOUS
  <2>3. e[1] * e[1] + e[2] * e[2] <= MotionFootprint * MotionFootprint
    BY <1>2, <1>4, <1>5, <1>6, <2>2
  <2>4. QED
    BY <2>1, <2>3
<1>7. \A c : FootprintOf(c, SelectionFootprint) \subseteq FootprintOf(c, MotionFootprint)
  BY <1>6 DEF FootprintOf
<1>8. QED
  BY <1>7 DEF SafeCells

(* More safe cells lead to no fewer cells.                                 *)
LEMMA ComponentGrows ==
  ASSUME NEW less \in SUBSET Cells, NEW more \in SUBSET Cells, less \subseteq more,
         NEW start \in less
  PROVE  Component(start, less) \subseteq Component(start, more)
<1> DEFINE K == Component(start, more) \cap less
<1>1. start \in Component(start, more) /\ AxisClosed(Component(start, more), more)
  BY ComponentIsLeast
<1>2. K \in SUBSET less /\ start \in K
  BY <1>1
<1>3. AxisClosed(K, less)
  BY <1>1 DEF AxisClosed
<1> HIDE DEF K
<1>4. Component(start, less) \subseteq K
  BY <1>2, <1>3, ComponentIsLeast
<1>5. QED
  BY <1>4 DEF K

(* Where its own footprint is safe, the robot reaches no cell that the     *)
(* selection does not reach.                                               *)
LEMMA SelectionReachesMore ==
  ASSUME NEW free \in Maps, NEW start \in SafeCells(free, MotionFootprint)
  PROVE  ReachOn(free, start, MotionFootprint).component
           \subseteq DOMAIN ReachOn(free, start, SelectionFootprint).distance
<1> DEFINE less == SafeCells(free, MotionFootprint)
           more == SafeCells(free, SelectionFootprint)
<1>1. free \in SUBSET Cells
  BY SearchAssumption
<1>2. less \in SUBSET Cells /\ more \in SUBSET Cells /\ less \subseteq more
  BY <1>1, LargerIsSaferNowhere DEF SafeCells
<1>3. start \in Cells /\ start # NoCell
  BY <1>2, CellFacts
<1>4. SelectionFootprint \in Footprints /\ MotionFootprint \in Footprints
  BY DEF Footprints
<1>5. /\ ComponentFrom(free, start, MotionFootprint) = Component(start, less)
      /\ ComponentFrom(free, start, SelectionFootprint) = Component(start, more)
  BY <1>2, <1>3 DEF ComponentFrom, NearestSafe
<1>6. /\ ReachOn(free, start, MotionFootprint).component = Component(start, less)
      /\ DOMAIN ReachOn(free, start, SelectionFootprint).distance = Component(start, more)
  BY <1>3, <1>4, <1>5, ReachIsComponent
<1> HIDE DEF less, more
<1>7. Component(start, less) \subseteq Component(start, more)
  BY <1>2, ComponentGrows DEF less
<1>8. QED
  BY <1>6, <1>7

(* Exhaustion is told only of a mission that has selected every cell it    *)
(* can go to, but for those too close: whatever the selection reaches, and *)
(* whatever the robot reaches with its own, larger footprint.              *)
THEOREM ExhaustionIsTrue == Spec => ExhaustionIsHonest
<1> DEFINE Told == answer # "poi_exhausted" /\ answer' = "poi_exhausted" =>
                     MustBeTried \subseteq tried
<1>1. SearchInv /\ [Next]_vars => [Told]_vars
  <2> SUFFICES ASSUME SearchInv, Next, answer # "poi_exhausted", answer' = "poi_exhausted"
               PROVE  MustBeTried \subseteq tried
    OBVIOUS
  <2> DEFINE distance == ReachOn(grid.free, robot, SelectionFootprint).distance
             own == ReachOn(grid.free, robot, MotionFootprint).component
  <2>1. Observe
    BY DEF Next, CountRevision, ReplaceGrid, NextMission, ObserveBlind, TakeSnapshot,
           CheckReport, SendGoal, Return, Refuse, NavigationFails, NavigationSucceeds,
           NavigationCanceled, Failed
  <2>2. Select(grid.free).reason = "poi_exhausted"
    BY <2>1 DEF Observe
  <2>3. Candidates(distance) = {}
    BY <2>2 DEF Select
  <2>4. grid.free \in Maps
    BY DEF SearchInv, TypeOK
  <2>5. robot \in SafeCells(grid.free, MotionFootprint) => own \subseteq DOMAIN distance
    BY <2>4, SelectionReachesMore
  <2>6. MustBeTried = FarEnough(DOMAIN distance, distance)
                        \cup IF robot \in SafeCells(grid.free, MotionFootprint)
                             THEN FarEnough(own, distance) ELSE {}
    BY DEF MustBeTried
  <2> HIDE DEF distance, own
  <2>7. {c \in DOMAIN distance : c \notin Attempted /\ distance[c] >= MinProgress} = {}
    BY <2>3 DEF Candidates
  <2>8. Attempted \subseteq tried
    BY DEF Attempted, SearchInv, MissionInv
  <2>9. FarEnough(DOMAIN distance, distance) \subseteq tried
    BY <2>7, <2>8 DEF FarEnough
  <2>10. own \subseteq DOMAIN distance =>
           FarEnough(own, distance) \subseteq FarEnough(DOMAIN distance, distance)
    BY DEF FarEnough
  <2>11. QED
    BY <2>5, <2>6, <2>9, <2>10
<1>2. QED
  BY <1>1, SearchInvariant, PTL DEF Spec, ExhaustionIsHonest

-----------------------------------------------------------------------------
(* The motion lane: a motion call reports its own goal, and goals that     *)
(* move the robot out of turn are those whose call timed out, for any      *)
(* number of goals and cancellations and whatever Nav2 does.               *)
Status == {"unsent", "sent", "rejected"} \cup Moving \cup Final

(* The call has sent its goal and waits for what becomes of it.            *)
InCall == stage \in {"accepting", "accepted", "waiting"}

(* The goals Nav2 may still act on are those that were given up, and the   *)
(* one the call waits for.                                                 *)
OpenGoals ==
  /\ \A i \in 1..MaxGoals : goal[i].status = "unsent" <=> i > sent
  /\ \A i \in 1..sent \ abandoned :
       goal[i].status \in Final \cup {"rejected"} \/ (i = sent /\ InCall)
  /\ InCall \/ (stage = "return" /\ result \in Final) => sent > 0

(* The dispatcher has no active call between two calls only, and           *)
(* cancel_active goes on only with a handle it has read.                   *)
LaneIsHeld == active <=> stage # "idle"
TargetIsGoal == canceler = "cancel" => target # 0

(* A call begins only while the bound leaves room for its goal.            *)
RoomForGoal == stage = "preflight" => sent < MaxGoals

MotionInv == MotionTypeOK /\ OpenGoals /\ LaneIsHeld /\ TargetIsGoal /\ RoomForGoal /\ ReportsOwnGoal

(* Goals change their status, never their number, and what has a final     *)
(* status or was rejected keeps it.                                        *)
GoalsAdvance ==
  \A i \in 1..MaxGoals :
    /\ goal'[i].status = "unsent" <=> goal[i].status = "unsent"
    /\ goal[i].status \in Final \cup {"rejected"} => goal'[i].status = goal[i].status
GoalTyped == goal' \in [1..MaxGoals -> [server : Servers, status : Status]]

LEMMA CancelAdvances ==
  ASSUME MotionInv, CancelGoal PROVE GoalsAdvance /\ GoalTyped
BY DEF MotionInv, MotionTypeOK, TargetIsGoal, CancelGoal, GoalsAdvance, GoalTyped, Status, Moving, Final

LEMMA Nav2Advances ==
  ASSUME MotionInv, NEW i \in 1..MaxGoals, Nav2Step(i) PROVE GoalsAdvance /\ GoalTyped
<1> USE DEF MotionInv, MotionTypeOK, GoalsAdvance, GoalTyped, Status, Moving, Final
<1>1. CASE Nav2Accepts(i)
  BY <1>1 DEF Nav2Accepts
<1>2. CASE Nav2Rejects(i)
  BY <1>2 DEF Nav2Rejects
<1>3. CASE Nav2Finishes(i)
  <2>1. PICK s \in Final : goal[i].status \in Moving /\ goal' = [goal EXCEPT ![i].status = s]
    BY <1>3 DEF Nav2Finishes
  <2>2. QED
    BY <2>1
<1>4. QED
  BY <1>1, <1>2, <1>3 DEF Nav2Step

(* A step of Nav2 or of a cancellation disturbs nothing the call relies on.*)
LEMMA OthersKeep ==
  ASSUME MotionInv, GoalsAdvance, GoalTyped, UNCHANGED <<sent, stage, active, handle, result>>,
         cancels' \in 0..MaxCancels, target' \in 0..MaxGoals,
         canceler' \in {"idle", "authority", "cancel"}, TargetIsGoal',
         UNCHANGED abandoned
  PROVE  MotionInv'
<1>1. MotionTypeOK'
  BY DEF MotionInv, MotionTypeOK, GoalTyped, Status
<1>2. OpenGoals'
  <2>1. sent \in 0..MaxGoals
    BY DEF MotionInv, MotionTypeOK
  <2>2. \A i \in 1..MaxGoals : goal'[i].status = "unsent" <=> i > sent
    BY DEF MotionInv, OpenGoals, GoalsAdvance
  <2>3. \A i \in 1..sent \ abandoned :
          goal'[i].status \in Final \cup {"rejected"} \/ (i = sent /\ InCall)
    <3> SUFFICES ASSUME NEW i \in 1..sent \ abandoned, ~(i = sent /\ InCall)
                 PROVE  goal'[i].status \in Final \cup {"rejected"}
      OBVIOUS
    <3>1. i \in 1..MaxGoals
      BY <2>1, BoundAssumption
    <3>2. goal[i].status \in Final \cup {"rejected"}
      BY DEF MotionInv, OpenGoals
    <3>3. QED
      BY <3>1, <3>2 DEF GoalsAdvance
  <2>4. QED
    BY <2>2, <2>3 DEF MotionInv, OpenGoals, InCall
<1>3. ReportsOwnGoal'
  <2>1. stage = "return" /\ result \in Final => sent \in 1..MaxGoals
    BY BoundAssumption DEF MotionInv, MotionTypeOK, OpenGoals
  <2>2. QED
    BY <2>1 DEF MotionInv, ReportsOwnGoal, GoalsAdvance
<1>4. QED
  BY <1>1, <1>2, <1>3 DEF MotionInv, LaneIsHeld, RoomForGoal

(* The steps of the call, of the dispatcher and of a cancellation but its  *)
(* last, which leave Nav2 alone except that a goal is sent.                *)
LEMMA MotionCallStep ==
  ASSUME MotionInv, Dispatch \/ MotionThread PROVE MotionInv'
<1> USE BoundAssumption DEF MotionInv, MotionTypeOK, OpenGoals, LaneIsHeld, TargetIsGoal,
                            RoomForGoal, ReportsOwnGoal, InCall
<1>1. CASE Dispatch
  BY <1>1 DEF Dispatch, Nav2, Canceling
<1>2. CASE PreflightFails
  BY <1>2 DEF PreflightFails, Nav2, Canceling, Final
<1>3. CASE SendMotionGoal
  <2>1. PICK s \in Servers : goal' = [goal EXCEPT ![sent'] = [server |-> s, status |-> "sent"]]
    BY <1>3 DEF SendMotionGoal
  <2>2. sent < MaxGoals /\ sent' = sent + 1 /\ sent' \in 1..MaxGoals
    BY <1>3 DEF SendMotionGoal
  <2>3. MotionTypeOK'
    BY <1>3, <2>1, <2>2 DEF SendMotionGoal, Canceling
  <2>4. OpenGoals'
    BY <1>3, <2>1, <2>2 DEF SendMotionGoal
  <2>5. QED
    BY <1>3, <2>3, <2>4 DEF SendMotionGoal, Canceling
<1>4. CASE GoalRejected
  BY <1>4 DEF GoalRejected, Nav2, Canceling, Final
<1>5. CASE GoalAccepted
  BY <1>5 DEF GoalAccepted, Nav2, Canceling
<1>6. CASE SetHandle
  BY <1>6 DEF SetHandle, Nav2, Canceling
<1>7. CASE ResultArrives
  BY <1>7 DEF ResultArrives, Nav2, Canceling, Final
<1>8. CASE TimeOut
  BY <1>8 DEF TimeOut, Nav2, Canceling, Final
<1>9. CASE MotionReturn
  BY <1>9 DEF MotionReturn, Nav2, Canceling
<1>10. QED
  BY <1>1, <1>2, <1>3, <1>4, <1>5, <1>6, <1>7, <1>8, <1>9 DEF MotionThread

LEMMA MotionInvStep == MotionInv /\ [MotionNext]_motionVars => MotionInv'
<1> SUFFICES ASSUME MotionInv, [MotionNext]_motionVars PROVE MotionInv'
  OBVIOUS
<1>1. CASE Dispatch \/ MotionThread
  BY <1>1, MotionCallStep
<1>2. CASE RequestCancel
  BY <1>2, BoundAssumption
     DEF RequestCancel, Nav2, MotionInv, MotionTypeOK, OpenGoals, LaneIsHeld, TargetIsGoal,
         RoomForGoal, ReportsOwnGoal, InCall
<1>3. CASE ReadHandle
  BY <1>3 DEF ReadHandle, Nav2, MotionInv, MotionTypeOK, OpenGoals, LaneIsHeld, TargetIsGoal,
              RoomForGoal, ReportsOwnGoal, InCall
<1>4. CASE CancelGoal
  <2>1. /\ UNCHANGED <<sent, stage, active, handle, result, cancels, abandoned>>
        /\ target' = 0 /\ canceler' = "idle"
    BY <1>4 DEF CancelGoal
  <2>2. cancels \in 0..MaxCancels /\ 0 \in 0..MaxGoals
    BY BoundAssumption DEF MotionInv, MotionTypeOK
  <2>3. QED
    BY <1>4, <2>1, <2>2, CancelAdvances, OthersKeep DEF TargetIsGoal
<1>5. ASSUME NEW i \in 1..MaxGoals, Nav2Step(i) PROVE MotionInv'
  <2>1. UNCHANGED <<sent, stage, active, handle, result, canceler, target, cancels, abandoned>>
    BY <1>5 DEF Nav2Step, Canceling
  <2>2. QED
    BY <1>5, <2>1, Nav2Advances, OthersKeep DEF MotionInv, MotionTypeOK, TargetIsGoal
<1>6. CASE UNCHANGED motionVars
  BY <1>6 DEF motionVars, MotionInv, MotionTypeOK, OpenGoals, LaneIsHeld, TargetIsGoal, RoomForGoal,
              ReportsOwnGoal, InCall
<1>7. QED
  BY <1>1, <1>2, <1>3, <1>4, <1>5, <1>6 DEF MotionNext

LEMMA MotionInvInit == MotionInit => MotionInv
<1> SUFFICES ASSUME MotionInit PROVE MotionInv
  OBVIOUS
<1>1. MotionTypeOK
  <2>1. [server |-> "navigate", status |-> "unsent"] \in [server : Servers, status : Status]
    BY DEF Servers, Status
  <2>2. goal \in [1..MaxGoals -> [server : Servers, status : Status]]
    BY <2>1 DEF MotionInit
  <2>3. 0 \in 0..MaxGoals /\ 0 \in 0..MaxCancels
    BY BoundAssumption
  <2>4. QED
    BY <2>2, <2>3 DEF MotionInit, MotionTypeOK, Status
<1>2. OpenGoals
  BY DEF MotionInit, OpenGoals, InCall
<1>3. QED
  BY <1>1, <1>2 DEF MotionInit, MotionInv, LaneIsHeld, TargetIsGoal, RoomForGoal, ReportsOwnGoal

LEMMA MotionInvariance == MotionSpec => []MotionInv
BY MotionInvInit, MotionInvStep, PTL DEF MotionSpec

(* The one goal in motion that was not given up is that of the call.       *)
LEMMA MotionInvSerializes == MotionInv => MotionIsSerialized
<1> SUFFICES ASSUME MotionInv PROVE MotionIsSerialized
  OBVIOUS
<1>1. \A i \in InMotion \ abandoned : i = sent /\ InCall
  <2> SUFFICES ASSUME NEW i \in InMotion \ abandoned PROVE i = sent /\ InCall
    OBVIOUS
  <2>1. i \in 1..MaxGoals /\ goal[i].status \in Moving
    BY DEF InMotion
  <2>2. i \in 1..sent
    BY <2>1, BoundAssumption DEF MotionInv, MotionTypeOK, OpenGoals, Moving
  <2>3. QED
    BY <2>1, <2>2 DEF MotionInv, OpenGoals, Moving, Final
<1>2. Cardinality(InMotion \ abandoned) <= 1
  <2>1. InMotion \ abandoned \in SUBSET {sent}
    BY <1>1
  <2>2. IsFiniteSet({sent}) /\ Cardinality({sent}) = 1
    BY FS_Singleton
  <2>3. QED
    BY <2>1, <2>2, FS_Subset
<1>3. ~active => InMotion \subseteq abandoned
  BY <1>1 DEF MotionInv, LaneIsHeld, InCall
<1>4. QED
  BY <1>2, <1>3 DEF MotionInv, MotionIsSerialized

(* What a call reports is what Nav2 made of the goal this call sent, also  *)
(* when goals of earlier calls end while it waits (go_to_point, rotate).   *)
THEOREM OwnGoalReported == MotionSpec => []ReportsOwnGoal
<1>1. MotionInv => ReportsOwnGoal
  BY DEF MotionInv
<1>2. QED
  BY <1>1, MotionInvariance, PTL

(* However calls, timeouts, cancellations and Nav2 interleave, a goal that *)
(* moves the robot out of turn is one whose call timed out                 *)
(* (_active_handle, the motion lane of ToolDispatcher).                    *)
THEOREM Serialized == MotionSpec => []MotionIsSerialized
BY MotionInvariance, MotionInvSerializes, PTL
=============================================================================
