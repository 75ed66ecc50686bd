---------------------------- MODULE Vision_proofs ----------------------------
(***************************************************************************)
(* What the robot sees: the image annotator, for images of every size,     *)
(* every pair of lenses and whatever is found in them, and the VLM socket, *)
(* whatever is asked and answered.  They share no variable; each has its   *)
(* own specification and its own invariant.                                *)
(*                                                                         *)
(* A fold is proved about by its steps: the values it has after each of    *)
(* the elements are a function on the numbers up to the length             *)
(* (SelectionSteps, CloudSteps), over which induction goes.                *)
(*                                                                         *)
(* The answers of an endpoint are data: RightAnswer says what the socket   *)
(* owes a generation, and ChatRight, ResponsesRight and StreamRight show   *)
(* it of each form of answer.  HeardInv then carries it through the goals. *)
(***************************************************************************)
EXTENDS ImageAnnotator, VlmSocket, FiniteSetTheorems, SequenceTheorems,
        WellFoundedInduction, TLAPS

-----------------------------------------------------------------------------
(* Induction, and least members of finite sets.                            *)
LEMMA NatInd ==
  ASSUME NEW T \in SUBSET Nat, 0 \in T, \A n \in T : n + 1 \in T
  PROVE  T = Nat
<1> DEFINE Below(n) == 0..(n - 1)
           R == StrictSubsetOrdering(Nat)
           U == {Below(n) : n \in Nat \ T}
<1>1. \A n \in Nat : Below(n) \in FiniteSubsetsOf(Nat)
  <2>1. \A n \in Nat : IsFiniteSet(0..(n - 1)) /\ 0..(n - 1) \subseteq Nat
    BY FS_Interval
  <2>2. QED
    BY <2>1 DEF FiniteSubsetsOf
<1>2. IsWellFoundedOn(R, FiniteSubsetsOf(Nat))
  BY FS_StrictSubsetOrderingWellFounded
<1>3. U \subseteq FiniteSubsetsOf(Nat)
  BY <1>1
<1>4. \A n \in Nat \ {0} : <<Below(n - 1), Below(n)>> \in R
  <2>1. \A n \in Nat \ {0} : /\ Below(n - 1) \subseteq Nat /\ Below(n) \subseteq Nat
                             /\ Below(n - 1) \subseteq Below(n)
                             /\ n - 1 \in Below(n) /\ n - 1 \notin Below(n - 1)
    OBVIOUS
  <2>2. QED
    BY <2>1 DEF StrictSubsetOrdering
<1> HIDE DEF R, Below
<1> SUFFICES ASSUME Nat \ T # {} PROVE FALSE
  OBVIOUS
<1>5. PICK u \in U : \A v \in U : <<v, u>> \notin R
  <2>1. U # {}
    OBVIOUS
  <2> HIDE DEF U
  <2>2. QED
    BY <1>2, <1>3, <2>1, WFMin
<1>6. PICK x \in Nat \ T : u = Below(x)
  OBVIOUS
<1>7. x # 0 /\ x - 1 \in Nat /\ x - 1 + 1 = x
  OBVIOUS
<1>8. x - 1 \in T
  BY <1>4, <1>5, <1>6, <1>7
<1>9. QED
  BY <1>6, <1>7, <1>8

LEMMA IntervalInd ==
  ASSUME NEW N \in Nat, NEW T, 0 \in T, \A n \in 0..(N - 1) : n \in T => n + 1 \in T
  PROVE  \A n \in 0..N : n \in T
<1> DEFINE U == {n \in Nat : n <= N => n \in T}
<1>1. 0 \in U /\ U \in SUBSET Nat
  OBVIOUS
<1>2. \A n \in U : n + 1 \in U
  OBVIOUS
<1> HIDE DEF U
<1>3. U = Nat
  BY <1>1, <1>2, NatInd
<1>4. QED
  BY <1>3 DEF U

(* What is related to every member of a finite set, when the relation is   *)
(* total and transitive.                                                   *)
LEMMA LeastMember ==
  ASSUME NEW S, IsFiniteSet(S), S # {}, NEW B,
         \A a, b \in S : <<a, b>> \in B \/ <<b, a>> \in B,
         \A a, b, c \in S : <<a, b>> \in B /\ <<b, c>> \in B => <<a, c>> \in B
  PROVE  \E c \in S : \A d \in S : <<c, d>> \in B
<1> DEFINE R == StrictSubsetOrdering(S)
           U == {T \in SUBSET S : T # {} /\ \A x \in S : \E y \in T : <<y, x>> \in B}
<1>1. IsWellFoundedOn(R, FiniteSubsetsOf(S)) /\ FiniteSubsetsOf(S) = SUBSET S
  BY FS_StrictSubsetOrderingWellFounded, FS_FiniteSubsetsOfFinite
<1>2. U \subseteq SUBSET S /\ U # {}
  <2>1. S \in U
    OBVIOUS
  <2>2. QED
    BY <2>1
<1>3. PICK T \in U : \A V \in U : <<V, T>> \notin R
  <2> HIDE DEF U, R
  <2>1. QED
    BY <1>1, <1>2, WFMin
<1>4. PICK y \in T : TRUE
  BY <1>3
<1>5. ASSUME NEW a \in T, NEW b \in T, a # b, <<a, b>> \in B
      PROVE  FALSE
  <2> DEFINE V == T \ {b}
  <2>1. V \in SUBSET S /\ V # {}
    BY <1>5
  <2>2. \A x \in S : \E z \in V : <<z, x>> \in B
    <3> SUFFICES ASSUME NEW x \in S PROVE \E z \in V : <<z, x>> \in B
      OBVIOUS
    <3>1. PICK z \in T : <<z, x>> \in B
      OBVIOUS
    <3>2. CASE z = b
      <4>1. <<a, x>> \in B /\ a \in V
        BY <1>5, <3>1, <3>2
      <4>2. QED
        BY <4>1
    <3>3. QED
      BY <3>1, <3>2
  <2>3. V \in U
    BY <2>1, <2>2
  <2>4. <<V, T>> \in R
    BY <1>5, <2>1 DEF StrictSubsetOrdering
  <2>5. QED
    BY <1>3, <2>3, <2>4
<1>6. T = {y}
  <2> SUFFICES ASSUME NEW z \in T, z # y PROVE FALSE
    BY <1>4
  <2>1. <<y, z>> \in B \/ <<z, y>> \in B
    BY <1>2, <1>3, <1>4
  <2>2. QED
    BY <1>4, <1>5, <2>1
<1>7. QED
  BY <1>3, <1>6

(* The greatest member of a finite set of integers (Max).                  *)
LEMMA MaxMember ==
  ASSUME NEW S \in SUBSET Int, IsFiniteSet(S), S # {}
  PROVE  Max(S) \in S /\ \A d \in S : d <= Max(S)
<1> DEFINE B == {p \in Int \X Int : p[1] >= p[2]}
<1>1. /\ \A a, b \in S : <<a, b>> \in B \/ <<b, a>> \in B
      /\ \A a, b, c \in S : <<a, b>> \in B /\ <<b, c>> \in B => <<a, c>> \in B
  OBVIOUS
<1>2. PICK c \in S : \A d \in S : <<c, d>> \in B
  <2> HIDE DEF B
  <2>1. QED
    BY <1>1, LeastMember
<1>3. \E x \in S : \A y \in S : x >= y
  BY <1>2
<1>4. QED
  BY <1>3 DEF Max

(* The least member of a finite set of integers (Min).                     *)
LEMMA MinMember ==
  ASSUME NEW S \in SUBSET Int, IsFiniteSet(S), S # {}
  PROVE  Min(S) \in S /\ \A d \in S : Min(S) <= d
<1> DEFINE B == {p \in Int \X Int : p[1] <= p[2]}
<1>1. /\ \A a, b \in S : <<a, b>> \in B \/ <<b, a>> \in B
      /\ \A a, b, c \in S : <<a, b>> \in B /\ <<b, c>> \in B => <<a, c>> \in B
  OBVIOUS
<1>2. PICK c \in S : \A d \in S : <<c, d>> \in B
  <2> HIDE DEF B
  <2>1. QED
    BY <1>1, LeastMember
<1>3. \E x \in S : \A y \in S : x <= y
  BY <1>2
<1>4. QED
  BY <1>3 DEF Min

(* The values of a function on a finite set are finitely many.             *)
LEMMA ImageFinite ==
  ASSUME NEW S, IsFiniteSet(S), NEW f
  PROVE  IsFiniteSet({f[x] : x \in S})
<1> DEFINE T == {f[x] : x \in S}
           g == [x \in S |-> f[x]]
<1>1. g \in Surjection(S, T)
  BY DEF Surjection
<1> HIDE DEF g
<1>2. QED
  BY <1>1, FS_Surjection

-----------------------------------------------------------------------------
(* The elements of a sequence that are in a set (Those).                   *)
SelectionRun(f, n, s, S) ==
  /\ f[0] = <<>>
  /\ \A i \in 1 .. n : f[i] = IF s[i] \in S THEN Append(f[i - 1], s[i]) ELSE f[i - 1]
  /\ f[n] = Those(s, S)

LEMMA SelectionSteps ==
  ASSUME NEW s, NEW S, NEW n \in Nat, DOMAIN s = 1 .. n
  PROVE  \E f : SelectionRun(f, n, s, S)
<1> DEFINE Op(h, e) == (IF e \in S THEN Append(h, e) ELSE h)
           Body(f, u) == IF u = {} THEN <<>> ELSE Op(f[u \ {Max(u)}], s[Max(u)])
           Steps(f, m) == f = [u \in SUBSET (1 .. m) |-> Body(f, u)]
           T == {m \in Nat : \E f : Steps(f, m)}
           iter == CHOOSE f : Steps(f, n)
<1>1. Those(s, S) = iter[1 .. n]
  BY DEF Those, FoldLeft, MapThenFoldSet
<1> HIDE DEF Op
<1>2. \A m \in Nat : \A u \in SUBSET (1 .. m) :
        u # {} => Max(u) \in u /\ \A d \in u : d <= Max(u)
  <2> SUFFICES ASSUME NEW m \in Nat, NEW u \in SUBSET (1 .. m), u # {}
               PROVE  Max(u) \in u /\ \A d \in u : d <= Max(u)
    OBVIOUS
  <2>1. IsFiniteSet(u) /\ u \in SUBSET Int
    <3>1. IsFiniteSet(1 .. m) /\ 1 .. m \subseteq Int
      BY FS_Interval
    <3>2. QED
      BY <3>1, FS_Subset
  <2>2. QED
    BY <2>1, MaxMember
<1>3. 0 \in T
  <2> DEFINE f == [u \in SUBSET (1 .. 0) |-> <<>>]
  <2>1. \A u \in SUBSET (1 .. 0) : u = {}
    OBVIOUS
  <2>2. Steps(f, 0)
    BY <2>1
  <2> HIDE DEF Steps, f
  <2>3. QED
    BY <2>2
<1>4. ASSUME NEW m \in T PROVE m + 1 \in T
  <2>1. PICK f : Steps(f, m)
    OBVIOUS
  <2> DEFINE g == [u \in SUBSET (1 .. m + 1) |-> IF u \subseteq 1 .. m THEN f[u] ELSE Body(f, u)]
  <2>2. ASSUME NEW u \in SUBSET (1 .. m + 1) PROVE g[u] = Body(g, u)
    <3>1. CASE u = {}
      <4>1. u \in SUBSET (1 .. m) /\ f[u] = Body(f, u)
        BY <2>1, <3>1
      <4>2. QED
        BY <3>1, <4>1
    <3>2. CASE u # {}
      <4> DEFINE x == Max(u)
                 v == u \ {x}
      <4>1. x \in u /\ (\A d \in u : d <= x) /\ x \in 1 .. m + 1
        <5>1. m + 1 \in Nat
          OBVIOUS
        <5>2. QED
          BY <1>2, <3>2, <5>1
      <4>2. v \in SUBSET (1 .. m) /\ v \in SUBSET (1 .. m + 1)
        <5> HIDE DEF x
        <5>1. QED
          BY <4>1
      <4>3. g[v] = f[v]
        BY <4>2
      <4>4. g[u] = Body(f, u)
        BY <2>1
      <4>5. Body(f, u) = Op(f[v], s[x]) /\ Body(g, u) = Op(g[v], s[x])
        BY <3>2
      <4>6. QED
        BY <4>3, <4>4, <4>5
    <3>3. QED
      BY <3>1, <3>2
  <2>3. Steps(g, m + 1)
    <3>1. g = [u \in SUBSET (1 .. m + 1) |-> g[u]]
      OBVIOUS
    <3> HIDE DEF g, Body
    <3>2. QED
      BY <2>2, <3>1
  <2> HIDE DEF Steps, g
  <2>4. QED
    BY <2>3
<1>5. n \in T
  <2>1. T \in SUBSET Nat
    OBVIOUS
  <2> HIDE DEF T
  <2>2. QED
    BY <1>3, <1>4, <2>1, NatInd
<1>6. Steps(iter, n)
  <2> HIDE DEF Steps
  <2>1. QED
    BY <1>5
<1> DEFINE f == [i \in 0 .. n |-> iter[1 .. i]]
<1> HIDE DEF iter
<1>7. f[0] = <<>>
  <2>1. 1 .. 0 = {} /\ 1 .. 0 \in SUBSET (1 .. n)
    OBVIOUS
  <2>2. QED
    BY <1>6, <2>1
<1>8. ASSUME NEW i \in 1 .. n PROVE f[i] = Op(f[i - 1], s[i])
  <2> DEFINE u == 1 .. i
  <2>1. u \in SUBSET (1 .. n) /\ u # {} /\ i \in u /\ \A d \in u : d <= i
    <3>1. \A d \in 1 .. i : d \in 1 .. n /\ d <= i
      OBVIOUS
    <3>2. i \in 1 .. i
      OBVIOUS
    <3>3. QED
      BY <3>1, <3>2
  <2>2. Max(u) = i
    <3>1. Max(u) \in u /\ i <= Max(u)
      BY <1>2, <2>1
    <3>2. QED
      BY <3>1
  <2>3. u \ {i} = 1 .. i - 1
    OBVIOUS
  <2> HIDE DEF u
  <2>4. iter[u] = Op(iter[1 .. i - 1], s[i])
    BY <1>6, <2>1, <2>2, <2>3
  <2>5. QED
    BY <2>4 DEF u
<1>9. f[n] = Those(s, S)
  BY <1>1
<1> HIDE DEF f
<1>10. QED
  BY <1>7, <1>8, <1>9 DEF Op, SelectionRun

LEMMA ThoseTyped ==
  ASSUME NEW U, NEW s \in Seq(U), NEW S
  PROVE  Those(s, S) \in Seq(U \cap S)
<1> DEFINE n == Len(s)
<1>1. n \in Nat /\ DOMAIN s = 1 .. n /\ \A i \in 1 .. n : s[i] \in U
  OBVIOUS
<1> HIDE DEF n
<1>2. PICK f : SelectionRun(f, n, s, S)
  BY <1>1, SelectionSteps
<1> DEFINE T == {i \in 0 .. n : f[i] \in Seq(U \cap S)}
<1>3. 0 \in T
  <2>1. 0 \in 0 .. n /\ <<>> \in Seq(U \cap S)
    BY <1>1
  <2>2. f[0] = <<>>
    BY <1>2 DEF SelectionRun
  <2>3. QED
    BY <2>1, <2>2
<1>4. ASSUME NEW i \in 0 .. n - 1, i \in T PROVE i + 1 \in T
  <2>1. i + 1 \in 1 .. n /\ i + 1 - 1 = i /\ i + 1 \in 0 .. n
    BY <1>1
  <2>2. f[i + 1] = IF s[i + 1] \in S THEN Append(f[i], s[i + 1]) ELSE f[i]
    BY <1>2, <2>1 DEF SelectionRun
  <2>3. f[i] \in Seq(U \cap S) /\ (s[i + 1] \in S => s[i + 1] \in U \cap S)
    BY <1>1, <1>4, <2>1
  <2>4. f[i + 1] \in Seq(U \cap S)
    BY <2>2, <2>3
  <2>5. QED
    BY <2>1, <2>4
<1> HIDE DEF T
<1>5. n \in T
  BY <1>1, <1>3, <1>4, IntervalInd
<1>6. QED
  BY <1>2, <1>5 DEF T, SelectionRun

-----------------------------------------------------------------------------
(* The instance mask: who owns a pixel has it in its mask (FirstAt).       *)
LEMMA ObjectsTyped ==
  ASSUME NEW scene \in Scenes
  PROVE  /\ Detected(scene) \in Seq(Candidates)
         /\ Composed(Detected(scene)) \in Seq(Candidates)
<1>1. scene \in Seq(Candidates)
  BY NodeAssumption
<1>2. \A s \in Seq(Candidates) : \A S : Those(s, S) \in Seq(Candidates)
  <2> SUFFICES ASSUME NEW s \in Seq(Candidates), NEW S
               PROVE  Those(s, S) \in Seq(Candidates)
    OBVIOUS
  <2>1. Those(s, S) \in Seq(Candidates \cap S)
    BY ThoseTyped
  <2>2. QED
    BY <2>1
<1>3. QED
  BY <1>1, <1>2 DEF Detected, Composed

LEMMA OwnerHasPixel ==
  ASSUME NEW masks \in Seq(Candidates), NEW p, FirstAt(masks, p) # 0
  PROVE  /\ FirstAt(masks, p) \in DOMAIN masks
         /\ p \in masks[FirstAt(masks, p)].mask
<1> DEFINE at == {k \in DOMAIN masks : masks[k].shaped /\ p \in masks[k].mask}
<1>1. at # {} /\ FirstAt(masks, p) = Min(at)
  BY DEF FirstAt
<1>2. at \in SUBSET Int /\ IsFiniteSet(at)
  <2>1. DOMAIN masks = 1 .. Len(masks) /\ Len(masks) \in Nat
    OBVIOUS
  <2>2. IsFiniteSet(1 .. Len(masks)) /\ 1 .. Len(masks) \subseteq Int
    BY <2>1, FS_Interval
  <2>3. at \subseteq 1 .. Len(masks)
    BY <2>1
  <2> HIDE DEF at
  <2>4. QED
    BY <2>2, <2>3, FS_Subset
<1>3. Min(at) \in at
  <2> HIDE DEF at
  <2>1. QED
    BY <1>1, <1>2, MinMember
<1>4. QED
  BY <1>1, <1>3

(* What is found in an image agrees with itself: a pixel that has an       *)
(* instance id is in the mask of the object with that id.                  *)
Agree(objects, mask) ==
  \A p \in Pixels : mask[p] # 0 =>
     mask[p] \in DOMAIN objects /\ p \in objects[mask[p]].mask

LEMMA FoundAgrees ==
  ASSUME NEW found \in Found
  PROVE  Agree(found.objects, found.mask)
<1>1. PICK scene \in Scenes :
        found = [objects |-> Composed(Detected(scene)),
                 mask |-> InstanceMask(Detected(scene))]
  BY DEF Found
<1> DEFINE objects == Composed(Detected(scene))
<1>2. objects \in Seq(Candidates)
  BY ObjectsTyped
<1>3. \A p \in Pixels : found.mask[p] = FirstAt(objects, p)
  BY <1>1 DEF InstanceMask
<1>4. found.objects = objects
  BY <1>1
<1> HIDE DEF objects
<1>5. \A p \in Pixels : FirstAt(objects, p) # 0 =>
        FirstAt(objects, p) \in DOMAIN objects /\ p \in objects[FirstAt(objects, p)].mask
  BY <1>2, OwnerHasPixel
<1>6. QED
  BY <1>3, <1>4, <1>5 DEF Agree

-----------------------------------------------------------------------------
(* The trimmed mask: an instance keeps its deepest pixels (Kept).          *)
LEMMA SquareNat == ASSUME NEW n \in Int PROVE Square(n) \in Nat /\ (n # 0 => Square(n) > 0)
<1>1. n > 0 => n * n > 0
  OBVIOUS
<1>2. n < 0 => n * n > 0
  OBVIOUS
<1>3. n = 0 => n * n = 0
  OBVIOUS
<1>4. n * n \in Int
  OBVIOUS
<1>5. QED
  BY <1>1, <1>2, <1>3, <1>4 DEF Square

LEMMA PixelFacts ==
  /\ IsFiniteSet(Pixels)
  /\ \A p \in Pixels : p[1] \in Nat /\ p[2] \in Nat /\ p = <<p[1], p[2]>>
<1>1. Rows - 1 \in Int /\ Columns - 1 \in Int
  BY SizeAssumption
<1>2. IsFiniteSet(0 .. Rows - 1) /\ IsFiniteSet(0 .. Columns - 1)
  BY <1>1, FS_Interval
<1>3. IsFiniteSet((0 .. Rows - 1) \X (0 .. Columns - 1))
  BY <1>2, FS_Product
<1>4. Pixels = (0 .. Rows - 1) \X (0 .. Columns - 1)
  BY DEF Pixels
<1>5. QED
  BY <1>3, <1>4

(* The corners of the crop are where its pixels say they are.              *)
LEMMA CropFacts ==
  ASSUME NEW S \in SUBSET Pixels, S # {}
  PROVE  /\ Top(S) \in Nat /\ Bottom(S) \in Nat /\ Left(S) \in Nat /\ Right(S) \in Nat
         /\ \A p \in S : p[1] >= Top(S) /\ p[2] >= Left(S)
         /\ Top(S) <= Bottom(S) /\ Left(S) <= Right(S)
<1> DEFINE rows == {p[1] : p \in S}
           columns == {p[2] : p \in S}
<1>1. IsFiniteSet(S)
  BY PixelFacts, FS_Subset
<1>2. IsFiniteSet(rows) /\ IsFiniteSet(columns)
  <2> DEFINE f == [p \in S |-> p[1]]
             g == [p \in S |-> p[2]]
  <2>1. rows = {f[p] : p \in S} /\ columns = {g[p] : p \in S}
    OBVIOUS
  <2> HIDE DEF f, g, rows, columns
  <2>2. QED
    BY <1>1, <2>1, ImageFinite
<1>3. rows \in SUBSET Nat /\ columns \in SUBSET Nat /\ rows # {} /\ columns # {}
  BY PixelFacts
<1>4. \A p \in S : p[1] \in rows /\ p[2] \in columns
  OBVIOUS
<1>5. Top(S) = Min(rows) /\ Bottom(S) = Max(rows) /\ Left(S) = Min(columns) /\ Right(S) = Max(columns)
  BY DEF Top, Bottom, Left, Right
<1> HIDE DEF rows, columns
<1>6. rows \in SUBSET Int /\ columns \in SUBSET Int
  BY <1>3
<1>7. /\ Min(rows) \in rows /\ \A d \in rows : Min(rows) <= d
      /\ Min(columns) \in columns /\ \A d \in columns : Min(columns) <= d
  BY <1>2, <1>3, <1>6, MinMember
<1>8. Max(rows) \in rows /\ Max(columns) \in columns
  BY <1>2, <1>3, <1>6, MaxMember
<1>9. QED
  BY <1>3, <1>4, <1>5, <1>7, <1>8

Zeros(S) ==
  ((Top(S) - 1 .. Bottom(S) + 1) \X (Left(S) - 1 .. Right(S) + 1)) \ S

(* Every pixel of an instance has a distance from the rest of the image.   *)
LEMMA DistancesPositive ==
  ASSUME NEW S \in SUBSET Pixels, NEW p \in S
  PROVE  Distances(S)[p] \in Nat /\ Distances(S)[p] > 0
<1> DEFINE squares == {Square(p[1] - q[1]) + Square(p[2] - q[2]) : q \in Zeros(S)}
           rows == Top(S) - 1 .. Bottom(S) + 1
           columns == Left(S) - 1 .. Right(S) + 1
<1>1. Distances(S)[p] = Min(squares)
  BY DEF Distances, Zeros
<1>2. /\ Top(S) \in Nat /\ Bottom(S) \in Nat /\ Left(S) \in Nat /\ Right(S) \in Nat
      /\ Top(S) <= Bottom(S) /\ Left(S) <= Right(S)
  BY CropFacts
<1>3. IsFiniteSet(Zeros(S))
  <2>1. IsFiniteSet(rows) /\ IsFiniteSet(columns)
    <3>1. Top(S) - 1 \in Int /\ Bottom(S) + 1 \in Int /\ Left(S) - 1 \in Int /\ Right(S) + 1 \in Int
      BY <1>2
    <3>2. QED
      BY <3>1, FS_Interval
  <2> HIDE DEF rows, columns
  <2>2. IsFiniteSet(rows \X columns)
    BY <2>1, FS_Product
  <2>3. Zeros(S) \subseteq rows \X columns
    BY DEF Zeros, rows, columns
  <2>4. QED
    BY <2>2, <2>3, FS_Subset
<1>4. Zeros(S) # {}
  <2>1. Top(S) - 1 \in rows /\ Left(S) - 1 \in columns
    BY <1>2
  <2>2. <<Top(S) - 1, Left(S) - 1>> \notin S
    BY <1>2, CropFacts
  <2>3. <<Top(S) - 1, Left(S) - 1>> \in Zeros(S)
    BY <2>1, <2>2 DEF Zeros
  <2>4. QED
    BY <2>3
<1>5. \A q \in Zeros(S) :
        Square(p[1] - q[1]) + Square(p[2] - q[2]) \in Nat \ {0}
  <2> SUFFICES ASSUME NEW q \in Zeros(S)
               PROVE  Square(p[1] - q[1]) + Square(p[2] - q[2]) \in Nat \ {0}
    OBVIOUS
  <2>1. q[1] \in Int /\ q[2] \in Int /\ q = <<q[1], q[2]>> /\ q \notin S
    BY <1>2 DEF Zeros
  <2>2. p[1] \in Int /\ p[2] \in Int /\ p = <<p[1], p[2]>>
    BY PixelFacts
  <2> DEFINE a == p[1] - q[1]
             b == p[2] - q[2]
  <2>3. a \in Int /\ b \in Int /\ (a # 0 \/ b # 0)
    BY <2>1, <2>2
  <2> HIDE DEF a, b
  <2>4. /\ Square(a) \in Nat /\ Square(b) \in Nat
        /\ a # 0 => Square(a) > 0
        /\ b # 0 => Square(b) > 0
    BY <2>3, SquareNat
  <2>5. Square(a) + Square(b) \in Nat \ {0}
    BY <2>3, <2>4
  <2>6. QED
    BY <2>5 DEF a, b
<1>6. squares \subseteq Nat \ {0} /\ squares # {}
  BY <1>4, <1>5
<1>7. IsFiniteSet(squares)
  <2> DEFINE f == [q \in Zeros(S) |-> Square(p[1] - q[1]) + Square(p[2] - q[2])]
  <2>1. squares = {f[q] : q \in Zeros(S)}
    OBVIOUS
  <2> HIDE DEF f, squares
  <2>2. QED
    BY <1>3, <2>1, ImageFinite
<1> HIDE DEF squares
<1>8. Min(squares) \in squares
  <2>1. squares \in SUBSET Int
    BY <1>6
  <2>2. QED
    BY <1>6, <1>7, <2>1, MinMember
<1>9. Min(squares) \in Nat /\ Min(squares) > 0
  <2>1. Min(squares) \in Nat \ {0}
    BY <1>6, <1>8, Zenon
  <2>2. \A m \in Nat \ {0} : m > 0
    OBVIOUS
  <2>3. QED
    BY <2>1, <2>2, Zenon
<1>10. QED
  BY <1>1, <1>9

LEMMA KeptNotEmpty ==
  ASSUME NEW S \in SUBSET Pixels, S # {}
  PROVE  Kept(S) \subseteq S /\ Kept(S) # {}
<1> DEFINE d == Distances(S)
           depths_ == {d[p] : p \in S}
<1>1. \A p \in S : d[p] \in Nat /\ d[p] > 0
  BY DistancesPositive
<1>2. Kept(S) = {p \in S : \/ 10000 * d[p] > Square(TrimPercent * Side(S))
                           \/ 100 * d[p] > 81 * Max(depths_)}
  BY DEF Kept
<1> HIDE DEF d
<1>3. IsFiniteSet(depths_) /\ depths_ \in SUBSET Int /\ depths_ # {}
  <2>1. IsFiniteSet(S)
    BY PixelFacts, FS_Subset
  <2>2. IsFiniteSet(depths_)
    BY <2>1, ImageFinite
  <2>3. QED
    BY <1>1, <2>2
<1>4. Max(depths_) \in depths_
  <2> HIDE DEF depths_
  <2>1. QED
    BY <1>3, MaxMember
<1>5. PICK p \in S : d[p] = Max(depths_)
  BY <1>4
<1>6. 100 * d[p] > 81 * Max(depths_)
  BY <1>1, <1>5
<1> HIDE DEF depths_
<1>7. p \in Kept(S)
  BY <1>2, <1>6
<1>8. QED
  BY <1>2, <1>7

(* No instance is trimmed away, and nothing else is added.                 *)
LEMMA TrimKeepsInstances ==
  ASSUME NEW mask
  PROVE  /\ \A p \in Trimmed(mask) : p \in Pixels /\ mask[p] # 0
         /\ {mask[p] : p \in Trimmed(mask)} = Instances(mask)
<1> DEFINE Rest(k) == IF TrimPercent = 0 THEN Instance(mask, k) ELSE Kept(Instance(mask, k))
<1>1. \A k \in Instances(mask) : Rest(k) \subseteq Instance(mask, k) /\ Rest(k) # {}
  <2> SUFFICES ASSUME NEW k \in Instances(mask)
               PROVE  Rest(k) \subseteq Instance(mask, k) /\ Rest(k) # {}
    OBVIOUS
  <2>1. Instance(mask, k) \in SUBSET Pixels /\ Instance(mask, k) # {}
    BY DEF Instance, Instances
  <2>2. QED
    BY <2>1, KeptNotEmpty
<1>2. Trimmed(mask) = UNION {Rest(k) : k \in Instances(mask)}
  BY DEF Trimmed
<1> HIDE DEF Rest
<1>3. \A k \in Instances(mask) : k # 0
  BY DEF Instances
<1>4. \A k : \A p \in Instance(mask, k) : p \in Pixels /\ mask[p] = k
  BY DEF Instance
<1>5. ASSUME NEW p \in Trimmed(mask)
      PROVE  p \in Pixels /\ mask[p] \in Instances(mask)
  <2>1. PICK k \in Instances(mask) : p \in Rest(k)
    BY <1>2
  <2>2. QED
    BY <1>1, <1>4, <2>1
<1>6. ASSUME NEW k \in Instances(mask)
      PROVE  \E p \in Trimmed(mask) : mask[p] = k
  <2>1. PICK p : p \in Rest(k)
    BY <1>1
  <2>2. QED
    BY <1>1, <1>2, <1>4, <2>1
<1>7. QED
  BY <1>3, <1>5, <1>6

-----------------------------------------------------------------------------
(* The cloud: of the samples of a pixel the nearest to the colour camera,  *)
(* and of two that are as near the first, is in front of the others.       *)
InFront(depth, i, j) ==
  \/ DepthOf(depth, i) < DepthOf(depth, j)
  \/ DepthOf(depth, i) = DepthOf(depth, j) /\ i <= j

\* Samples whose distance from the colour camera is known.
Located(depth, S) == \A i \in S : DepthOf(depth, i) \in Int

LEMMA SeenIsLocated ==
  ASSUME NEW depth, IsDepthImage(depth), NEW kept, NEW i \in DepthPixels, SeenIn(depth, kept, i)
  PROVE  DepthOf(depth, i) \in Int
BY SizeAssumption DEF IsDepthImage, SeenIn, DepthOf

LEMMA PixelNumbers == IsFiniteSet(DepthPixels) /\ DepthPixels \subseteq Nat
<1>1. DepthRows \in Nat /\ DepthColumns \in Nat
  BY SizeAssumption
<1>2. DepthRows * DepthColumns \in Int
  BY <1>1
<1>3. \A m \in Int : IsFiniteSet(0 .. m - 1) /\ 0 .. m - 1 \subseteq Nat
  BY FS_Interval
<1>4. QED
  BY <1>2, <1>3 DEF DepthPixels

LEMMA ForemostOfPixel ==
  ASSUME NEW depth, NEW S \in SUBSET DepthPixels, Located(depth, S), NEW j \in S
  PROVE  \E k \in Foremost(depth, S) : SamePixel(depth, k, j) /\ InFront(depth, k, j)
<1> DEFINE C == {i \in S : SamePixel(depth, i, j)}
           B == {p \in C \X C : InFront(depth, p[1], p[2])}
<1>1. IsFiniteSet(C) /\ j \in C /\ C \in SUBSET DepthPixels
  <2>1. C \in SUBSET DepthPixels /\ j \in C
    BY DEF SamePixel
  <2> HIDE DEF C
  <2>2. QED
    BY <2>1, PixelNumbers, FS_Subset
<1>2. \A a \in C : DepthOf(depth, a) \in Int /\ a \in Nat
  BY PixelNumbers DEF Located
<1>3. \A a, b \in C : <<a, b>> \in B <=> InFront(depth, a, b)
  OBVIOUS
<1>4. \A a, b \in C : InFront(depth, a, b) \/ InFront(depth, b, a)
  BY <1>2 DEF InFront
<1>5. \A a, b, c \in C :
        InFront(depth, a, b) /\ InFront(depth, b, c) => InFront(depth, a, c)
  BY <1>2 DEF InFront
<1>6. PICK k \in C : \A i \in C : <<k, i>> \in B
  <2>1. /\ \A a, b \in C : <<a, b>> \in B \/ <<b, a>> \in B
        /\ \A a, b, c \in C : <<a, b>> \in B /\ <<b, c>> \in B => <<a, c>> \in B
    BY <1>1, <1>3, <1>4, <1>5
  <2> HIDE DEF B, C
  <2>2. QED
    BY <1>1, <2>1, LeastMember
<1>7. \A i \in C : InFront(depth, k, i)
  BY <1>3, <1>6
<1>8. \A i \in S : SamePixel(depth, k, i) => i \in C
  BY <1>6 DEF SamePixel
<1>9. k \in Foremost(depth, S)
  BY <1>6, <1>7, <1>8 DEF Foremost, InFront
<1>10. QED
  BY <1>1, <1>6, <1>7, <1>9

(* What is seen in a chunk, and what comes before it                       *)
SeenInChunk(depth, kept, row) == {i \in Sampled(row) : SeenIn(depth, kept, i)}
Precede(A, B) == \A a \in A : \A b \in B : a < b

(* A chunk whose samples come after those that were looked at.             *)
LEMMA ChunkMerges ==
  ASSUME NEW depth, NEW kept, NEW row,
         NEW A \in SUBSET DepthPixels, SeenInChunk(depth, kept, row) \in SUBSET DepthPixels,
         Located(depth, A \cup SeenInChunk(depth, kept, row)),
         Precede(A, SeenInChunk(depth, kept, row))
  PROVE  Chunk(Foremost(depth, A), depth, kept, row) =
           Foremost(depth, A \cup SeenInChunk(depth, kept, row))
<1> DEFINE B == SeenInChunk(depth, kept, row)
           Same(i, j) == SamePixel(depth, i, j)
           shown == Foremost(depth, A)
           first == Foremost(depth, B)
           closer == {i \in first : \A j \in shown : Same(i, j) => DepthOf(depth, i) < DepthOf(depth, j)}
           left == {j \in shown : \A i \in closer : ~Same(i, j)}
           all == Foremost(depth, A \cup B)
<1>1. Chunk(shown, depth, kept, row) = closer \cup left
  BY DEF Chunk, SeenInChunk
<1>0. /\ B \in SUBSET DepthPixels /\ Located(depth, A \cup B)
      /\ \A a \in A : \A b \in B : a < b
  BY DEF Precede
<1> HIDE DEF B
<1>2. \A a \in A \cup B : DepthOf(depth, a) \in Int /\ a \in Nat
  BY <1>0, PixelNumbers DEF Located
<1>3. \A i, j, k : /\ Same(i, j) => Same(j, i)
                   /\ Same(i, j) /\ Same(j, k) => Same(i, k)
  BY DEF SamePixel
<1>4. \A S : \A i : i \in Foremost(depth, S) <=>
        i \in S /\ \A j \in S : Same(i, j) => InFront(depth, i, j)
  BY DEF Foremost, InFront
<1>5. /\ \A j \in A : \E k \in shown : Same(k, j) /\ InFront(depth, k, j)
      /\ \A j \in B : \E k \in first : Same(k, j) /\ InFront(depth, k, j)
  <2>1. Located(depth, A) /\ Located(depth, B)
    BY <1>0 DEF Located
  <2> HIDE DEF Same
  <2>2. QED
    BY <1>0, <2>1, ForemostOfPixel DEF Same
<1> HIDE DEF Same
<1> HIDE DEF shown, first
<1>6. /\ \A i : i \in shown <=> i \in A /\ \A j \in A : Same(i, j) => InFront(depth, i, j)
      /\ \A i : i \in first <=> i \in B /\ \A j \in B : Same(i, j) => InFront(depth, i, j)
      /\ \A i : i \in all <=> i \in A \cup B /\ \A j \in A \cup B : Same(i, j) => InFront(depth, i, j)
  BY <1>4 DEF shown, first
<1> HIDE DEF all
<1>7. ASSUME NEW i \in closer PROVE i \in all
  <2>1. i \in first /\ i \in B
    BY <1>6
  <2>2. ASSUME NEW j \in A, Same(i, j) PROVE InFront(depth, i, j)
    <3>1. PICK k \in shown : Same(k, j) /\ InFront(depth, k, j)
      BY <1>5
    <3>2. Same(i, k) /\ k \in A
      BY <1>3, <1>6, <2>2, <3>1
    <3>3. DepthOf(depth, i) < DepthOf(depth, k)
      BY <3>2
    <3>4. DepthOf(depth, i) \in Int /\ DepthOf(depth, j) \in Int /\ DepthOf(depth, k) \in Int
      BY <1>0, <1>2, <2>1, <3>2
    <3>5. QED
      BY <3>1, <3>3, <3>4 DEF InFront
  <2>3. QED
    BY <1>6, <2>1, <2>2
<1>8. ASSUME NEW j \in left PROVE j \in all
  <2>1. j \in shown /\ j \in A /\ \A i \in closer : ~Same(i, j)
    BY <1>6
  <2>2. ASSUME NEW k \in B, Same(j, k) PROVE InFront(depth, j, k)
    <3>1. PICK i \in first : Same(i, k) /\ InFront(depth, i, k)
      BY <1>5
    <3>2. Same(i, j) /\ i \in B
      BY <1>3, <1>6, <2>2, <3>1
    <3>3. PICK l \in shown : Same(i, l) /\ ~(DepthOf(depth, i) < DepthOf(depth, l))
      BY <2>1, <3>2
    <3>4. l \in A /\ Same(j, l)
      BY <1>3, <1>6, <3>2, <3>3
    <3>5. InFront(depth, j, l)
      BY <1>6, <2>1, <3>4
    <3>6. /\ DepthOf(depth, i) \in Int /\ DepthOf(depth, j) \in Int /\ DepthOf(depth, k) \in Int /\ DepthOf(depth, l) \in Int
          /\ j \in Nat /\ k \in Nat /\ j < k
      BY <1>0, <1>2, <2>1, <3>2, <3>4
    <3>7. QED
      BY <3>1, <3>3, <3>5, <3>6 DEF InFront
  <2>3. QED
    BY <1>6, <2>1, <2>2
<1>9. ASSUME NEW i \in all PROVE i \in closer \cup left
  <2>1. i \in A \cup B /\ \A j \in A \cup B : Same(i, j) => InFront(depth, i, j)
    BY <1>6
  <2>2. CASE i \in A
    <3>1. i \in shown
      BY <1>6, <2>1, <2>2
    <3>2. ASSUME NEW c \in closer, Same(c, i) PROVE FALSE
      <4>1. c \in B /\ DepthOf(depth, c) < DepthOf(depth, i)
        BY <1>6, <3>1, <3>2
      <4>2. InFront(depth, i, c)
        BY <1>3, <2>1, <3>2, <4>1
      <4>3. DepthOf(depth, c) \in Int /\ DepthOf(depth, i) \in Int
        BY <1>0, <1>2, <2>2, <4>1
      <4>4. QED
        BY <4>1, <4>2, <4>3 DEF InFront
    <3>3. QED
      BY <3>1, <3>2
  <2>3. CASE i \in B
    <3>1. i \in first
      BY <1>6, <2>1, <2>3
    <3>2. ASSUME NEW j \in shown, Same(i, j) PROVE DepthOf(depth, i) < DepthOf(depth, j)
      <4>1. j \in A /\ InFront(depth, i, j)
        BY <1>6, <2>1, <3>2
      <4>2. j < i /\ DepthOf(depth, i) \in Int /\ DepthOf(depth, j) \in Int /\ i \in Nat /\ j \in Nat
        BY <1>0, <1>2, <2>3, <4>1
      <4>3. QED
        BY <4>1, <4>2 DEF InFront
    <3>3. QED
      BY <3>1, <3>2
  <2>4. QED
    BY <2>1, <2>2, <2>3
<1>10. closer \cup left = all
  BY <1>7, <1>8, <1>9
<1>11. QED
  BY <1>1, <1>10 DEF shown, all, B

-----------------------------------------------------------------------------
(* The samples of the chunks, one after the other.                         *)
Samples(depth, kept) ==
  FoldLeft(LAMBDA shown, row : Chunk(shown, depth, kept, row), {}, ChunkStarts)

CloudRun(f, n, depth, kept) ==
  /\ f[0] = {}
  /\ \A i \in 1 .. n : f[i] = Chunk(f[i - 1], depth, kept, ChunkStarts[i])
  /\ f[n] = Samples(depth, kept)

LEMMA CloudSteps ==
  ASSUME NEW depth, NEW kept, NEW n \in Nat, DOMAIN ChunkStarts = 1 .. n
  PROVE  \E f : CloudRun(f, n, depth, kept)
<1> DEFINE Op(h, e) == Chunk(h, depth, kept, e)
           Body(f, u) == IF u = {} THEN {} ELSE Op(f[u \ {Max(u)}], ChunkStarts[Max(u)])
           Steps(f, m) == f = [u \in SUBSET (1 .. m) |-> Body(f, u)]
           T == {m \in Nat : \E f : Steps(f, m)}
           iter == CHOOSE f : Steps(f, n)
<1>1. Samples(depth, kept) = iter[1 .. n]
  BY DEF Samples, FoldLeft, MapThenFoldSet
<1> HIDE DEF Op
<1>2. \A m \in Nat : \A u \in SUBSET (1 .. m) :
        u # {} => Max(u) \in u /\ \A d \in u : d <= Max(u)
  <2> SUFFICES ASSUME NEW m \in Nat, NEW u \in SUBSET (1 .. m), u # {}
               PROVE  Max(u) \in u /\ \A d \in u : d <= Max(u)
    OBVIOUS
  <2>1. IsFiniteSet(u) /\ u \in SUBSET Int
    <3>1. IsFiniteSet(1 .. m) /\ 1 .. m \subseteq Int
      BY FS_Interval
    <3>2. QED
      BY <3>1, FS_Subset
  <2>2. QED
    BY <2>1, MaxMember
<1>3. 0 \in T
  <2> DEFINE f == [u \in SUBSET (1 .. 0) |-> {}]
  <2>1. \A u \in SUBSET (1 .. 0) : u = {}
    OBVIOUS
  <2>2. Steps(f, 0)
    BY <2>1
  <2> HIDE DEF Steps, f
  <2>3. QED
    BY <2>2
<1>4. ASSUME NEW m \in T PROVE m + 1 \in T
  <2>1. PICK f : Steps(f, m)
    OBVIOUS
  <2> DEFINE g == [u \in SUBSET (1 .. m + 1) |-> IF u \subseteq 1 .. m THEN f[u] ELSE Body(f, u)]
  <2>2. ASSUME NEW u \in SUBSET (1 .. m + 1) PROVE g[u] = Body(g, u)
    <3>1. CASE u = {}
      <4>1. u \in SUBSET (1 .. m) /\ f[u] = Body(f, u)
        BY <2>1, <3>1
      <4>2. QED
        BY <3>1, <4>1
    <3>2. CASE u # {}
      <4> DEFINE x == Max(u)
                 v == u \ {x}
      <4>1. x \in u /\ (\A d \in u : d <= x) /\ x \in 1 .. m + 1
        <5>1. m + 1 \in Nat
          OBVIOUS
        <5>2. QED
          BY <1>2, <3>2, <5>1
      <4>2. v \in SUBSET (1 .. m) /\ v \in SUBSET (1 .. m + 1)
        <5> HIDE DEF x
        <5>1. QED
          BY <4>1
      <4>3. g[v] = f[v]
        BY <4>2
      <4>4. g[u] = Body(f, u)
        BY <2>1
      <4>5. Body(f, u) = Op(f[v], ChunkStarts[x]) /\ Body(g, u) = Op(g[v], ChunkStarts[x])
        BY <3>2
      <4>6. QED
        BY <4>3, <4>4, <4>5
    <3>3. QED
      BY <3>1, <3>2
  <2>3. Steps(g, m + 1)
    <3>1. g = [u \in SUBSET (1 .. m + 1) |-> g[u]]
      OBVIOUS
    <3> HIDE DEF g, Body
    <3>2. QED
      BY <2>2, <3>1
  <2> HIDE DEF Steps, g
  <2>4. QED
    BY <2>3
<1>5. n \in T
  <2>1. T \in SUBSET Nat
    OBVIOUS
  <2> HIDE DEF T
  <2>2. QED
    BY <1>3, <1>4, <2>1, NatInd
<1>6. Steps(iter, n)
  <2> HIDE DEF Steps
  <2>1. QED
    BY <1>5
<1> DEFINE f == [i \in 0 .. n |-> iter[1 .. i]]
<1> HIDE DEF iter
<1>7. f[0] = {}
  <2>1. 1 .. 0 = {} /\ 1 .. 0 \in SUBSET (1 .. n)
    OBVIOUS
  <2>2. QED
    BY <1>6, <2>1
<1>8. ASSUME NEW i \in 1 .. n PROVE f[i] = Op(f[i - 1], ChunkStarts[i])
  <2> DEFINE u == 1 .. i
  <2>1. u \in SUBSET (1 .. n) /\ u # {} /\ i \in u /\ \A d \in u : d <= i
    <3>1. \A d \in 1 .. i : d \in 1 .. n /\ d <= i
      OBVIOUS
    <3>2. i \in 1 .. i
      OBVIOUS
    <3>3. QED
      BY <3>1, <3>2
  <2>2. Max(u) = i
    <3>1. Max(u) \in u /\ i <= Max(u)
      BY <1>2, <2>1
    <3>2. QED
      BY <3>1
  <2>3. u \ {i} = 1 .. i - 1
    OBVIOUS
  <2> HIDE DEF u
  <2>4. iter[u] = Op(iter[1 .. i - 1], ChunkStarts[i])
    BY <1>6, <2>1, <2>2, <2>3
  <2>5. QED
    BY <2>4 DEF u
<1>9. f[n] = Samples(depth, kept)
  BY <1>1
<1> HIDE DEF f
<1>10. QED
  BY <1>7, <1>8, <1>9 DEF Op, CloudRun

(* Division and remainder belong together.                                 *)
LEMMA Remainder ==
  ASSUME NEW s \in Nat \ {0}, NEW x \in Int
  PROVE  /\ x \div s \in Int /\ x % s \in 0 .. s - 1 /\ x = s * (x \div s) + (x % s)
         /\ \A q \in Int, r \in 0 .. s - 1 : x = s * q + r => x % s = r
<1>1. x \div s \in Int /\ x % s \in 0 .. s - 1 /\ x = s * (x \div s) + (x % s)
  OBVIOUS
<1>2. ASSUME NEW q \in Int, NEW r \in 0 .. s - 1, x = s * q + r
      PROVE  x % s = r
  <2> DEFINE p == x \div s
             t == x % s
  <2>1. p \in Int /\ t \in 0 .. s - 1 /\ s * p + t = s * q + r
    BY <1>1, <1>2
  <2> HIDE DEF p, t
  <2>2. CASE q = p
    <3>1. s * q = s * p /\ s * p \in Int
      BY <2>1, <2>2
    <3>2. t = r
      BY <2>1, <3>1
    <3>3. QED
      BY <3>2 DEF t
  <2>3. \A u, v \in Int : u > v => s * u >= s * v + s
    <3> SUFFICES ASSUME NEW u \in Int, NEW v \in Int, u > v
                 PROVE  s * u >= s * v + s
      OBVIOUS
    <3>1. s * (u - v - 1) >= 0
      OBVIOUS
    <3>2. s * (u - v - 1) = s * u - s * v - s
      OBVIOUS
    <3>3. s * u \in Int /\ s * v \in Int
      OBVIOUS
    <3>4. QED
      BY <3>1, <3>2, <3>3
  <2>4. s * p \in Int /\ s * q \in Int
    BY <2>1
  <2>5. ~(q > p) /\ ~(p > q)
    <3>1. (q > p => s * q >= s * p + s) /\ (p > q => s * p >= s * q + s)
      BY <2>1, <2>3
    <3> DEFINE y == s * p
               z == s * q
    <3>2. y \in Int /\ z \in Int /\ y + t = z + r
          /\ (q > p => z >= y + s) /\ (p > q => y >= z + s)
      BY <2>1, <2>4, <3>1
    <3> HIDE DEF y, z
    <3>3. QED
      BY <2>1, <3>2
  <2>6. QED
    BY <2>1, <2>2, <2>5
<1>3. QED
  BY <1>1, <1>2

FirstMultiple(a, s) == a + ((-a) % s)

(* The samples of a chunk are those its rows share with the whole image.   *)
LEMMA SampledInRows ==
  ASSUME NEW a \in Nat, NEW s \in Nat \ {0}
  PROVE  /\ FirstMultiple(a, s) \in Int
         /\ \A i \in Int : (i >= FirstMultiple(a, s) /\ (i - FirstMultiple(a, s)) % s = 0)
                             <=> (i >= a /\ i % s = 0)
<1> DEFINE p == (-a) \div s
           first == FirstMultiple(a, s)
<1>0. first = a + ((-a) % s)
  BY DEF FirstMultiple
<1> HIDE DEF first
<1>1. -a \in Int /\ p \in Int /\ (-a) % s \in 0 .. s - 1 /\ -a = s * p + ((-a) % s)
  <2>1. -a \in Int
    OBVIOUS
  <2> DEFINE x == -a
  <2> HIDE DEF x
  <2>2. x \in Int
    BY <2>1 DEF x
  <2>3. x \div s \in Int /\ x % s \in 0 .. s - 1 /\ x = s * (x \div s) + (x % s)
    BY <2>2, Remainder
  <2>4. QED
    BY <2>1, <2>3 DEF x
<1> HIDE DEF p
<1>2. first \in Int /\ a <= first /\ first < a + s /\ first = -(s * p) /\ s * p \in Int
  BY <1>0, <1>1
<1>3. ASSUME NEW i \in Int PROVE (i - first) % s = i % s
  <2> DEFINE q == i \div s
             r == i % s
  <2>1. q \in Int /\ r \in 0 .. s - 1 /\ i = s * q + r
    BY Remainder
  <2> HIDE DEF q, r
  <2>2. s * (q + p) = s * q + s * p
    BY <1>1, <2>1
  <2>3. i - first = s * (q + p) + r
    <3>1. s * q \in Int
      BY <2>1
    <3>2. QED
      BY <1>2, <2>1, <2>2, <3>1
  <2>4. i - first \in Int /\ q + p \in Int
    BY <1>1, <1>2, <2>1
  <2>5. (i - first) % s = r
    BY <2>1, <2>3, <2>4, Remainder
  <2>6. QED
    BY <2>5 DEF r
<1>4. ASSUME NEW i \in Int, a <= i, i % s = 0 PROVE first <= i
  <2> DEFINE q == i \div s
  <2>1. q \in Int /\ i = s * q
    <3>1. s * (i \div s) \in Int
      OBVIOUS
    <3>2. i = s * (i \div s) + (i % s) /\ i \div s \in Int
      BY Remainder
    <3>3. QED
      BY <1>4, <3>1, <3>2
  <2> HIDE DEF q
  <2>2. CASE q >= -p
    <3>1. s * (q + p) >= 0
      BY <1>1, <2>1, <2>2
    <3>2. s * (q + p) = s * q + s * p /\ s * q \in Int
      BY <1>1, <2>1
    <3>3. QED
      BY <1>2, <2>1, <3>1, <3>2
  <2>3. CASE q < -p
    <3>1. s * (q + p + 1) <= 0
      BY <1>1, <2>1, <2>3
    <3>2. s * (q + p + 1) = s * q + s * p + s /\ s * q \in Int
      BY <1>1, <2>1
    <3>3. i <= first - s
      BY <1>2, <2>1, <3>1, <3>2
    <3>4. QED
      BY <1>2, <1>4, <3>3
  <2>4. QED
    BY <1>1, <2>1, <2>2, <2>3
<1>5. \A i \in Int : (i >= first /\ (i - first) % s = 0) <=> (i >= a /\ i % s = 0)
  <2> SUFFICES ASSUME NEW i \in Int
               PROVE  (i >= first /\ (i - first) % s = 0) <=> (i >= a /\ i % s = 0)
    OBVIOUS
  <2>1. (i - first) % s = i % s
    BY <1>3
  <2>2. a <= i /\ i % s = 0 => first <= i
    BY <1>4
  <2>3. first \in Int /\ a <= first
    BY <1>2
  <2> DEFINE r == i % s
  <2> HIDE DEF r
  <2>4. (i >= first /\ r = 0) <=> (i >= a /\ r = 0)
    BY <2>2, <2>3 DEF r
  <2>5. QED
    BY <2>1, <2>4 DEF r
<1>6. QED
  BY <1>2, <1>5 DEF first

(* The rows before the end of the n-th chunk                               *)
Chunks == (DepthRows + ChunkRows - 1) \div ChunkRows
RowsDone(n) == IF n * ChunkRows <= DepthRows THEN n * ChunkRows ELSE DepthRows

LEMMA ChunksCover ==
  /\ Chunks \in Nat
  /\ DOMAIN ChunkStarts = 1 .. Chunks
  /\ RowsDone(0) = 0 /\ RowsDone(Chunks) = DepthRows
  /\ \A n \in 0 .. Chunks : RowsDone(n) \in 0 .. DepthRows
  /\ \A n \in 1 .. Chunks :
       /\ ChunkStarts[n] = RowsDone(n - 1)
       /\ Min({ChunkStarts[n] + ChunkRows, DepthRows}) = RowsDone(n)
       /\ RowsDone(n - 1) <= RowsDone(n)
<1> DEFINE c == ChunkRows
           d == DepthRows
           p == (d + c - 1) \div c
           t == (d + c - 1) % c
<1>1. c \in Nat \ {0} /\ d \in Nat \ {0} /\ p = Chunks
  BY SizeAssumption DEF Chunks
<1>2. p \in Int /\ t \in 0 .. c - 1 /\ d + c - 1 = c * p + t /\ c * p \in Int
  <2>1. d + c - 1 \in Int
    BY <1>1
  <2>2. p \in Int /\ t \in 0 .. c - 1 /\ d + c - 1 = c * p + t
    BY <1>1, <2>1, Remainder
  <2> HIDE DEF p, t
  <2>3. c * p \in Int
    BY <1>1, <2>2
  <2>4. QED
    BY <2>2, <2>3
<1>s. DOMAIN ChunkStarts = 1 .. p /\ \A n \in 1 .. p : ChunkStarts[n] = (n - 1) * c
  BY DEF ChunkStarts
<1> HIDE DEF p, t
<1>3. p \in Nat
  <2>1. CASE p < 0
    <3>1. c * p <= -c
      <4>1. c * (p + 1) <= 0 /\ c * (p + 1) = c * p + c
        BY <1>1, <1>2, <2>1
      <4>2. QED
        BY <1>1, <1>2, <4>1
    <3>2. QED
      BY <1>1, <1>2, <3>1
  <2>2. QED
    BY <1>2, <2>1
<1>4. p * c >= d
  <2>1. p * c = c * p
    BY <1>1, <1>2
  <2>2. QED
    BY <1>1, <1>2, <2>1
<1>5. ASSUME NEW n \in 1 .. p PROVE (n - 1) * c < d
  <2>1. c * (p - n) >= 0
    BY <1>1, <1>3
  <2>2. c * (p - n) = c * p - c * n /\ c * n \in Int /\ (n - 1) * c = c * n - c
    BY <1>1, <1>2
  <2>3. QED
    BY <1>1, <1>2, <2>1, <2>2
<1>6. \A n \in 0 .. p : n * c \in Nat
  BY <1>1, <1>3
<1>7. RowsDone(0) = 0 /\ RowsDone(p) = d
  <2>1. 0 * c = 0 /\ p * c \in Nat
    BY <1>1, <1>3, <1>6
  <2>2. RowsDone(0) = 0
    BY <1>1, <2>1 DEF RowsDone
  <2>3. RowsDone(p) = d
    BY <1>1, <1>4, <2>1 DEF RowsDone
  <2>4. QED
    BY <2>2, <2>3
<1>8. ASSUME NEW n \in 0 .. p PROVE RowsDone(n) \in 0 .. d
  <2> DEFINE m == n * c
  <2>1. m \in Nat /\ RowsDone(n) = IF m <= d THEN m ELSE d
    BY <1>6 DEF RowsDone
  <2> HIDE DEF m
  <2>2. QED
    BY <1>1, <2>1
<1>9. ASSUME NEW n \in 1 .. p
      PROVE  /\ ChunkStarts[n] = RowsDone(n - 1)
             /\ Min({ChunkStarts[n] + c, d}) = RowsDone(n)
             /\ RowsDone(n - 1) <= RowsDone(n)
  <2> DEFINE row == (n - 1) * c
             m == n * c
  <2>1. row \in Nat /\ m \in Nat /\ m = row + c /\ row < d
    <3>1. n - 1 \in 0 .. p /\ n \in 0 .. p
      BY <1>3
    <3>2. n * c = (n - 1) * c + c
      BY <1>1
    <3>3. QED
      BY <1>5, <1>6, <3>1, <3>2
  <2>2. ChunkStarts[n] = row
    BY <1>s
  <2>3. /\ RowsDone(n - 1) = IF row <= d THEN row ELSE d
        /\ RowsDone(n) = IF m <= d THEN m ELSE d
    BY DEF RowsDone
  <2> HIDE DEF row, m
  <2>4. RowsDone(n - 1) = row
    BY <1>1, <2>1, <2>3
  <2>5. {row + c, d} \in SUBSET Int /\ IsFiniteSet({row + c, d}) /\ {row + c, d} # {}
    <3> DEFINE m2 == row + c
    <3>1. m2 \in Int /\ d \in Int
      BY <1>1, <2>1
    <3> HIDE DEF m2
    <3>2. IsFiniteSet({m2}) /\ {m2, d} = {m2} \cup {d}
      BY FS_Singleton
    <3>3. IsFiniteSet({m2} \cup {d})
      BY <3>2, FS_AddElement
    <3>4. {m2, d} \in SUBSET Int /\ IsFiniteSet({m2, d}) /\ {m2, d} # {}
      BY <3>1, <3>2, <3>3
    <3>5. QED
      BY <3>4 DEF m2
  <2>6. Min({row + c, d}) \in {row + c, d} /\ \A x \in {row + c, d} : Min({row + c, d}) <= x
    BY <2>5, MinMember
  <2>7. Min({row + c, d}) = IF m <= d THEN m ELSE d
    BY <1>1, <2>1, <2>6
  <2>8. row <= IF m <= d THEN m ELSE d
    BY <1>1, <2>1
  <2>9. QED
    BY <2>2, <2>3, <2>4, <2>7, <2>8
<1>10. QED
  BY <1>1, <1>3, <1>s, <1>7, <1>8, <1>9

(* What is seen in the rows of the first n chunks                          *)
SeenBefore(depth, kept, n) ==
  {i \in DepthPixels : /\ i < RowsDone(n) * DepthColumns
                       /\ i % Stride = 0
                       /\ SeenIn(depth, kept, i)}

LEMMA ChunkAdds ==
  ASSUME NEW depth, IsDepthImage(depth), NEW kept, NEW n \in 1 .. Chunks
  PROVE  Chunk(Foremost(depth, SeenBefore(depth, kept, n - 1)), depth, kept, ChunkStarts[n])
           = Foremost(depth, SeenBefore(depth, kept, n))
<1> DEFINE row == ChunkStarts[n]
           a == RowsDone(n - 1) * DepthColumns
           e == RowsDone(n) * DepthColumns
           A == SeenBefore(depth, kept, n - 1)
           B == SeenInChunk(depth, kept, row)
           Seen(i) == SeenIn(depth, kept, i)
           Q(i) == i % Stride = 0
<1>1. /\ RowsDone(n - 1) \in 0 .. DepthRows /\ RowsDone(n) \in 0 .. DepthRows
      /\ row = RowsDone(n - 1) /\ Min({row + ChunkRows, DepthRows}) = RowsDone(n)
      /\ RowsDone(n - 1) <= RowsDone(n)
  <2>1. n - 1 \in 0 .. Chunks /\ n \in 0 .. Chunks
    BY ChunksCover
  <2>2. QED
    BY <2>1, ChunksCover
<1>2. DepthRows \in Nat /\ DepthColumns \in Nat \ {0} /\ Stride \in Nat \ {0}
  BY SizeAssumption
<1>3. a \in Nat /\ e \in Nat /\ a <= e /\ e <= DepthRows * DepthColumns
      /\ DepthRows * DepthColumns \in Nat
  <2>1. \A x, y, z \in Nat : x <= y => x * z <= y * z /\ x * z \in Nat /\ y * z \in Nat
    OBVIOUS
  <2>2. RowsDone(n - 1) \in Nat /\ RowsDone(n) \in Nat /\ RowsDone(n) <= DepthRows
    BY <1>1, <1>2
  <2>3. QED
    BY <1>1, <1>2, <2>1, <2>2
<1>4. Sampled(row) = {i \in a .. e - 1 : Q(i)}
  <2> DEFINE first == FirstPixel(row)
  <2>1. first = FirstMultiple(a, Stride)
    BY <1>1 DEF FirstPixel, FirstMultiple
  <2>2. Sampled(row) = {i \in first .. e - 1 : (i - first) % Stride = 0}
    BY <1>1 DEF Sampled
  <2> HIDE DEF first, a, e
  <2> DEFINE last == e - 1
  <2>3. last \in Int
    BY <1>3
  <2> HIDE DEF last
  <2>4. {i \in first .. last : (i - first) % Stride = 0} = {i \in a .. last : i % Stride = 0}
    <3> DEFINE P(i) == (i - first) % Stride = 0
    <3>1. a \in Nat
      BY <1>3
    <3>2. first \in Int /\ \A i \in Int : (i >= first /\ P(i)) <=> (i >= a /\ Q(i))
      BY <1>2, <3>1, <2>1, SampledInRows DEF Q
    <3> HIDE DEF P, Q
    <3>3. {i \in first .. last : P(i)} = {i \in a .. last : Q(i)}
      BY <2>3, <3>1, <3>2
    <3>4. QED
      BY <3>3 DEF P, Q
  <2>5. QED
    BY <2>2, <2>4 DEF last
<1>5. DepthPixels = 0 .. DepthRows * DepthColumns - 1
  BY DEF DepthPixels
<1>6. A = {i \in DepthPixels : i < a /\ Q(i) /\ Seen(i)}
  BY DEF SeenBefore
<1>7. SeenBefore(depth, kept, n) = {i \in DepthPixels : i < e /\ Q(i) /\ Seen(i)}
  BY DEF SeenBefore
<1>8. B = {i \in a .. e - 1 : Q(i) /\ Seen(i)}
  BY <1>4 DEF SeenInChunk
<1>s. /\ \A i \in DepthPixels : Seen(i) => DepthOf(depth, i) \in Int
      /\ Located(depth, A \cup B) <=> \A i \in A \cup B : DepthOf(depth, i) \in Int
  BY SeenIsLocated DEF Located
<1> DEFINE all == DepthRows * DepthColumns
<1> HIDE DEF a, e, A, B, Q, Seen, row, all
<1>9. /\ a \in Nat /\ e \in Nat /\ a <= e /\ e <= all /\ all \in Nat
      /\ DepthPixels = 0 .. all - 1
  BY <1>3, <1>5 DEF all
<1>10. B \in SUBSET DepthPixels
  BY <1>8, <1>9
<1>11. A \in SUBSET DepthPixels
  BY <1>6
<1>12. Precede(A, B)
  BY <1>6, <1>8, <1>9 DEF Precede
<1>13. A \cup B = SeenBefore(depth, kept, n)
  BY <1>6, <1>7, <1>8, <1>9
<1>14. Chunk(Foremost(depth, A), depth, kept, row) = Foremost(depth, A \cup B)
  <2>1. Located(depth, A \cup B)
    BY <1>s, <1>6, <1>8, <1>10
  <2>2. QED
    BY <1>10, <1>11, <1>12, <2>1, ChunkMerges DEF B
<1>15. QED
  BY <1>13, <1>14 DEF A, row

(* The chunks make what one pass over the depth image would.               *)
LEMMA ChunksMakeWhole ==
  ASSUME NEW depth, IsDepthImage(depth), NEW kept
  PROVE  Samples(depth, kept) =
           Foremost(depth, {i \in DepthPixels : i % Stride = 0 /\ SeenIn(depth, kept, i)})
<1>1. Chunks \in Nat /\ DOMAIN ChunkStarts = 1 .. Chunks
  BY ChunksCover
<1>2. PICK f : CloudRun(f, Chunks, depth, kept)
  BY <1>1, CloudSteps
<1> DEFINE T == {n \in 0 .. Chunks : f[n] = Foremost(depth, SeenBefore(depth, kept, n))}
<1>3. 0 \in T
  <2>1. RowsDone(0) * DepthColumns = 0
    BY ChunksCover, SizeAssumption
  <2>2. SeenBefore(depth, kept, 0) = {}
    <3>1. \A i \in DepthPixels : ~(i < 0)
      BY PixelNumbers
    <3>2. QED
      BY <2>1, <3>1 DEF SeenBefore
  <2>3. f[0] = {} /\ 0 \in 0 .. Chunks
    BY <1>1, <1>2 DEF CloudRun
  <2>4. QED
    BY <2>2, <2>3 DEF Foremost
<1>4. ASSUME NEW n \in 0 .. Chunks - 1, n \in T PROVE n + 1 \in T
  <2>1. n + 1 \in 1 .. Chunks /\ n + 1 - 1 = n /\ n + 1 \in 0 .. Chunks
    BY <1>1
  <2>2. f[n + 1] = Chunk(f[n], depth, kept, ChunkStarts[n + 1])
    BY <1>2, <2>1 DEF CloudRun
  <2>3. f[n] = Foremost(depth, SeenBefore(depth, kept, n))
    BY <1>4
  <2>4. Chunk(Foremost(depth, SeenBefore(depth, kept, n + 1 - 1)), depth, kept, ChunkStarts[n + 1])
          = Foremost(depth, SeenBefore(depth, kept, n + 1))
    BY <2>1, ChunkAdds
  <2>5. f[n + 1] = Foremost(depth, SeenBefore(depth, kept, n + 1))
    BY <2>1, <2>2, <2>3, <2>4
  <2>6. QED
    BY <2>1, <2>5
<1> HIDE DEF T
<1>5. Chunks \in T
  <2>1. \A n \in 0 .. Chunks : n \in T
    BY <1>1, <1>3, <1>4, IntervalInd
  <2>2. QED
    BY <1>1, <2>1
<1>6. Samples(depth, kept) = Foremost(depth, SeenBefore(depth, kept, Chunks))
  BY <1>2, <1>5 DEF T, CloudRun
<1>7. SeenBefore(depth, kept, Chunks) =
        {i \in DepthPixels : i % Stride = 0 /\ SeenIn(depth, kept, i)}
  <2>1. RowsDone(Chunks) = DepthRows
    BY ChunksCover
  <2> DEFINE all == DepthRows * DepthColumns
  <2>2. all \in Int /\ DepthPixels = 0 .. all - 1
    BY SizeAssumption DEF DepthPixels
  <2>3. SeenBefore(depth, kept, Chunks) =
          {i \in DepthPixels : i < all /\ i % Stride = 0 /\ SeenIn(depth, kept, i)}
    BY <2>1 DEF SeenBefore
  <2> HIDE DEF all
  <2>4. \A i \in DepthPixels : i < all
    BY <2>2
  <2>5. QED
    BY <2>3, <2>4
<1>8. QED
  BY <1>6, <1>7

-----------------------------------------------------------------------------
(* The annotator.  Frames are numbered as they come, a frame is published  *)
(* once, topic by topic, and the newest cloud is therefore of the frame    *)
(* the worker has only when the worker has published it.                   *)
Topics ==
  out = [mask |-> out.mask, cloud |-> out.cloud, detections |-> out.detections,
         heartbeat |-> out.heartbeat]

FramesInOrder ==
  /\ clock \in Nat /\ slot \in 0 .. clock /\ image \in 0 .. clock
  /\ out.cloud.frame \in 0 .. clock
  /\ slot # NoImage => slot > image /\ slot > out.cloud.frame
  /\ pc \in {"start", "snapshot", "infer", "masks", "cloud"} => out.cloud.frame < image
  /\ pc \in {"wait", "woken", "take", "done"} => image = NoImage

DepthFrames == [stamp : Nat, image : DepthImages]

DepthsInv ==
  /\ depths \in Seq(DepthFrames)
  /\ inputs.depth \in DepthFrames \cup {NoDepth}

(* What is being published agrees with itself.                             *)
Publishing == pc \in {"masks", "cloud", "detections", "heartbeat"}

ResultInv ==
  Publishing =>
    /\ result.depth \in DepthFrames \cup {NoDepth}
    /\ engine = "yolo" => Agree(result.objects, result.mask)

OutInv ==
  /\ pc = "cloud" => out.mask.ids = result.mask
  /\ (pc \in {"detections", "heartbeat"} /\ out.cloud.frame = image) =>
       /\ result.depth # NoDepth
       /\ out.cloud.points =
            InstanceCloud(result.depth.image, result.mask, Trimmed(result.mask))
  /\ pc = "heartbeat" =>
       out.detections = [frame |-> image, objects |-> result.objects]

AnnotatorInv == Topics /\ FramesInOrder /\ DepthsInv /\ ResultInv /\ OutInv

LEMMA AnnotatorInit == Init => AnnotatorInv
<1> SUFFICES ASSUME Init PROVE AnnotatorInv
  OBVIOUS
<1>1. Topics /\ FramesInOrder /\ ResultInv /\ OutInv
  BY DEF Init, Topics, FramesInOrder, ResultInv, OutInv, Publishing, NoImage
<1>2. DepthsInv
  BY DEF Init, DepthsInv, NoInputs
<1>3. QED
  BY <1>1, <1>2 DEF AnnotatorInv

LEMMA NearestTyped ==
  ASSUME NEW buffer \in Seq(DepthFrames), NEW stamp \in Nat
  PROVE  NearestDepth(buffer, stamp) \in DepthFrames \cup {NoDepth}
<1> DEFINE D == DOMAIN buffer
           off(i) == Offset(buffer[i], stamp)
           B == {p \in D \X D : \/ off(p[1]) < off(p[2])
                                \/ off(p[1]) = off(p[2]) /\ p[1] <= p[2]}
           i0 == CHOOSE i \in D : \A j \in D : \/ off(i) < off(j)
                                               \/ off(i) = off(j) /\ i <= j
<1>1. CASE buffer = <<>>
  BY <1>1 DEF NearestDepth
<1>2. CASE buffer # <<>>
  <2>1. D = 1 .. Len(buffer) /\ Len(buffer) \in Nat /\ 1 \in D
        /\ \A i \in D : buffer[i] \in DepthFrames
    BY <1>2
  <2>2. IsFiniteSet(D) /\ D # {} /\ \A i \in D : i \in Int
    <3> DEFINE n == Len(buffer)
    <3> HIDE DEF n
    <3>1. n \in Int /\ 1 \in Int
      BY <2>1 DEF n
    <3>2. IsFiniteSet(1 .. n) /\ 1 .. n \subseteq Int
      BY <3>1, FS_Interval
    <3>3. D = 1 .. n
      BY <2>1 DEF n
    <3> HIDE DEF D
    <3>4. QED
      BY <2>1, <3>2, <3>3
  <2>3. \A i \in D : off(i) \in Int
    BY <2>1 DEF DepthFrames, Offset
  <2> HIDE DEF off, D
  <2>4. /\ \A a, b \in D : <<a, b>> \in B \/ <<b, a>> \in B
        /\ \A a, b, c \in D : <<a, b>> \in B /\ <<b, c>> \in B => <<a, c>> \in B
    BY <2>2, <2>3
  <2>5. PICK c \in D : \A d \in D : <<c, d>> \in B
    <3> HIDE DEF B
    <3>1. QED
      BY <2>2, <2>4, LeastMember
  <2>6. i0 \in D
    <3>1. \E i \in D : \A j \in D : off(i) < off(j) \/ (off(i) = off(j) /\ i <= j)
      BY <2>5
    <3>2. QED
      BY <3>1
  <2>7. NearestDepth(buffer, stamp) \in {NoDepth, buffer[i0]}
    BY <1>2 DEF NearestDepth, off, D
  <2> HIDE DEF i0
  <2>8. QED
    BY <2>1, <2>6, <2>7
<1>3. QED
  BY <1>1, <1>2

(* What the callbacks and the closing leave alone                          *)
LEMMA OutsideStep ==
  ASSUME AnnotatorInv,
         ImageCallback \/ Pass \/ DepthCallback \/ CameraInfoCallback \/ Interrupt \/ Closing
  PROVE  AnnotatorInv'
<1>1. UNCHANGED <<engine, pc, image, inputs, result, out>>
  BY DEF ImageCallback, Pass, DepthCallback, CameraInfoCallback, Interrupt,
         Closing, StopWorker, WakeWorker, JoinWorker
<1>2. Topics' /\ ResultInv' /\ OutInv'
  BY <1>1 DEF AnnotatorInv, Topics, ResultInv, OutInv, Publishing
<1>3. FramesInOrder'
  <2>1. CASE ImageCallback
    BY <2>1 DEF ImageCallback, AnnotatorInv, FramesInOrder, NoImage
  <2>2. CASE ~ImageCallback
    <3>1. UNCHANGED <<clock, slot>>
      BY <2>2 DEF Pass, DepthCallback, CameraInfoCallback, Interrupt,
                  Closing, StopWorker, WakeWorker, JoinWorker
    <3>2. QED
      BY <1>1, <3>1 DEF AnnotatorInv, FramesInOrder
  <2>3. QED
    BY <2>1, <2>2
<1>4. DepthsInv'
  <2>1. CASE DepthCallback
    <3>1. PICK stamp \in 0 .. clock, depth \in DepthImages :
            depths' = LET longer == Append(depths, [stamp |-> stamp, image |-> depth])
                      IN  IF Len(longer) > DepthBufferSize THEN Tail(longer) ELSE longer
      BY <2>1 DEF DepthCallback
    <3>2. [stamp |-> stamp, image |-> depth] \in DepthFrames
      BY DEF AnnotatorInv, FramesInOrder, DepthFrames
    <3> DEFINE longer == Append(depths, [stamp |-> stamp, image |-> depth])
    <3>3. longer \in Seq(DepthFrames) /\ longer # <<>>
      BY <3>2 DEF AnnotatorInv, DepthsInv
    <3>4. depths' \in {longer, Tail(longer)}
      BY <3>1
    <3> HIDE DEF longer
    <3>5. depths' \in Seq(DepthFrames)
      BY <3>3, <3>4
    <3>6. QED
      BY <1>1, <3>5 DEF AnnotatorInv, DepthsInv
  <2>2. CASE ~DepthCallback
    <3>1. UNCHANGED depths
      BY <2>2 DEF ImageCallback, Pass, CameraInfoCallback, Interrupt, sensors,
                  Closing, StopWorker, WakeWorker, JoinWorker
    <3>2. QED
      BY <1>1, <3>1 DEF AnnotatorInv, DepthsInv
  <2>3. QED
    BY <2>1, <2>2
<1>5. QED
  BY <1>2, <1>3, <1>4 DEF AnnotatorInv

(* The worker up to the image it has something to publish of               *)
LEMMA LookStep ==
  ASSUME AnnotatorInv, Wait \/ Woken \/ Take \/ Start \/ Snapshot \/ Infer
  PROVE  AnnotatorInv'
<1>1. UNCHANGED <<clock, depths, engine, out>> /\ pc' # "cloud"
      /\ pc' \notin {"detections", "heartbeat"}
  BY DEF Wait, Woken, Take, Start, Snapshot, Infer, Worker, sensors
<1>2. Topics' /\ OutInv'
  BY <1>1 DEF AnnotatorInv, Topics, OutInv
<1>3. FramesInOrder'
  BY <1>1 DEF Wait, Woken, Take, Start, Snapshot, Infer, Worker, FrameEnds, NoImage,
              AnnotatorInv, FramesInOrder
<1>4. DepthsInv'
  <2>1. CASE Snapshot
    <3>1. NearestDepth(depths, image) \in DepthFrames \cup {NoDepth}
      BY NearestTyped DEF AnnotatorInv, DepthsInv, FramesInOrder
    <3>2. inputs'.depth = NearestDepth(depths, image)
      BY <2>1 DEF Snapshot
    <3>3. QED
      BY <1>1, <3>1, <3>2 DEF AnnotatorInv, DepthsInv
  <2>2. CASE ~Snapshot
    <3>1. inputs' \in {inputs, NoInputs}
      BY <2>2 DEF Wait, Woken, Take, Start, Infer, FrameEnds
    <3>2. QED
      BY <1>1, <3>1 DEF AnnotatorInv, DepthsInv, NoInputs
  <2>3. QED
    BY <2>1, <2>2
<1>5. ResultInv'
  <2>1. CASE Infer /\ pc' = "masks"
    <3>1. /\ pc = "infer" /\ UNCHANGED inputs
          /\ \/ engine = "yolo" /\ result' \in Annotations
             \/ engine = "manual" /\ result' \in ManualAnnotations
             \/ result' = Nothing
      BY <2>1 DEF Infer, Worker
    <3>2. CASE engine = "yolo" /\ result' \in Annotations
      <4>1. PICK found \in Found :
              result' = [objects |-> found.objects, mask |-> found.mask,
                         depth |-> inputs.depth]
        BY <3>2 DEF Annotations
      <4>2. Agree(found.objects, found.mask)
        BY FoundAgrees
      <4>3. Agree(result'.objects, result'.mask) /\ result'.depth = inputs.depth
        BY <4>1, <4>2
      <4>4. QED
        BY <4>3 DEF ResultInv, AnnotatorInv, DepthsInv
    <3>3. CASE engine = "manual" /\ result' \in ManualAnnotations
      BY <1>1, <3>3 DEF ManualAnnotations, ResultInv, AnnotatorInv, DepthsInv
    <3>4. CASE result' = Nothing
      <4>1. Agree(<<>>, EmptyMask)
        BY DEF Agree, EmptyMask
      <4>2. QED
        BY <3>4, <4>1 DEF Nothing, ResultInv
    <3>5. QED
      BY <3>1, <3>2, <3>3, <3>4
  <2>2. CASE ~(Infer /\ pc' = "masks")
    <3>1. ~Publishing'
      BY <2>2 DEF Wait, Woken, Take, Start, Snapshot, Infer, Worker, Publishing
    <3>2. QED
      BY <3>1 DEF ResultInv
  <2>3. QED
    BY <2>1, <2>2
<1>6. QED
  BY <1>2, <1>3, <1>4, <1>5 DEF AnnotatorInv

LEMMA PublishStep ==
  ASSUME AnnotatorInv, Publish
  PROVE  AnnotatorInv'
<1>1. UNCHANGED <<clock, slot, depths, engine>>
  BY DEF Publish, PublishMasks, PublishCloud, PublishDetections, PublishHeartbeat,
         PublishFails, sensors
<1>2. CASE PublishHeartbeat \/ PublishFails
  <2>1. /\ pc' = "wait" /\ image' = NoImage /\ inputs' = NoInputs
        /\ out' = out \/ out' = [out EXCEPT !.heartbeat = image]
    BY <1>2 DEF PublishHeartbeat, PublishFails, FrameEnds, Worker
  <2>2. Topics' /\ out'.cloud = out.cloud
    BY <2>1 DEF AnnotatorInv, Topics
  <2>3. FramesInOrder'
    BY <1>1, <2>1, <2>2 DEF AnnotatorInv, FramesInOrder, NoImage
  <2>4. DepthsInv' /\ ResultInv' /\ OutInv'
    BY <1>1, <2>1 DEF AnnotatorInv, DepthsInv, ResultInv, OutInv, Publishing, NoInputs
  <2>5. QED
    BY <2>2, <2>3, <2>4 DEF AnnotatorInv
<1>3. CASE PublishMasks
  <2>1. /\ pc = "masks" /\ pc' = "cloud" /\ UNCHANGED <<image, inputs, result>>
        /\ out' = [out EXCEPT !.mask = [frame |-> image, ids |-> result.mask]]
    BY <1>3 DEF PublishMasks, Worker
  <2>2. Topics' /\ out'.cloud = out.cloud /\ out'.mask.ids = result.mask
    BY <2>1 DEF AnnotatorInv, Topics
  <2>3. QED
    BY <1>1, <2>1, <2>2
       DEF AnnotatorInv, FramesInOrder, DepthsInv, ResultInv, OutInv, Publishing
<1>4. CASE PublishCloud
  <2>1. pc = "cloud" /\ pc' = "detections" /\ UNCHANGED <<image, inputs, result>>
    BY <1>4 DEF PublishCloud, Worker
  <2>2. CASE UNCHANGED out
    BY <1>1, <2>1, <2>2
       DEF AnnotatorInv, Topics, FramesInOrder, DepthsInv, ResultInv, OutInv, Publishing
  <2>3. CASE /\ result.depth # NoDepth
             /\ out' = [out EXCEPT !.cloud = CloudOf(Trimmed(result.mask))]
    <3>1. /\ Topics'
          /\ out'.cloud.frame = image
          /\ out'.cloud.points =
               InstanceCloud(result.depth.image, result.mask, Trimmed(result.mask))
      BY <2>3 DEF AnnotatorInv, Topics, CloudOf
    <3>2. slot # NoImage => slot > image
      BY DEF AnnotatorInv, FramesInOrder
    <3>3. FramesInOrder'
      BY <1>1, <2>1, <3>1, <3>2 DEF AnnotatorInv, FramesInOrder
    <3>4. DepthsInv' /\ ResultInv' /\ OutInv'
      BY <1>1, <2>1, <2>3, <3>1 DEF AnnotatorInv, DepthsInv, ResultInv, OutInv, Publishing
    <3>5. QED
      BY <3>1, <3>3, <3>4 DEF AnnotatorInv
  <2>4. QED
    BY <1>4, <2>2, <2>3 DEF PublishCloud
<1>5. CASE PublishDetections
  <2>1. /\ pc = "detections" /\ pc' = "heartbeat" /\ UNCHANGED <<image, inputs, result>>
        /\ out' = [out EXCEPT !.detections = [frame |-> image, objects |-> result.objects]]
    BY <1>5 DEF PublishDetections, Worker
  <2>2. /\ Topics' /\ out'.cloud = out.cloud
        /\ out'.detections = [frame |-> image, objects |-> result.objects]
    BY <2>1 DEF AnnotatorInv, Topics
  <2>3. QED
    BY <1>1, <2>1, <2>2
       DEF AnnotatorInv, FramesInOrder, DepthsInv, ResultInv, OutInv, Publishing
<1>6. QED
  BY <1>2, <1>3, <1>4, <1>5 DEF Publish

LEMMA AnnotatorStep == AnnotatorInv /\ [Next]_vars => AnnotatorInv'
<1> SUFFICES ASSUME AnnotatorInv, [Next]_vars PROVE AnnotatorInv'
  OBVIOUS
<1>1. CASE UNCHANGED vars
  BY <1>1 DEF vars, sensors, AnnotatorInv, Topics, FramesInOrder, DepthsInv,
              ResultInv, OutInv, Publishing
<1>2. CASE Next
  BY <1>2, OutsideStep, LookStep, PublishStep DEF Next, Sensor, WorkerStep
<1>3. QED
  BY <1>1, <1>2

LEMMA AnnotatorInvariant == Spec => []AnnotatorInv
BY AnnotatorInit, AnnotatorStep, PTL DEF Spec

(* The cloud, whatever is seen and whatever the size of a chunk, is the    *)
(* one that a pass over the whole depth image would make: of the points at *)
(* a pixel the nearest to the colour camera, wherever the lenses and the   *)
(* transform put them (publish_instance_pointcloud).                       *)
THEOREM CloudIsWhole == Spec => []CloudIsWhatIsSeen
<1>1. AnnotatorInv => CloudIsWhatIsSeen
  <2> SUFFICES ASSUME AnnotatorInv, pc = "detections", out.cloud.frame = image
               PROVE  out.cloud.points =
                        WholeCloud(result.depth.image, result.mask, Trimmed(result.mask))
    BY DEF CloudIsWhatIsSeen
  <2> DEFINE depth == result.depth.image
             kept == Trimmed(result.mask)
  <2>1. /\ result.depth \in DepthFrames
        /\ out.cloud.points = InstanceCloud(depth, result.mask, kept)
    BY DEF AnnotatorInv, ResultInv, OutInv, Publishing
  <2>2. IsDepthImage(depth)
    BY <2>1, NodeAssumption DEF DepthFrames
  <2> HIDE DEF depth, kept
  <2>3. Samples(depth, kept) =
          Foremost(depth, {i \in DepthPixels : i % Stride = 0 /\ SeenIn(depth, kept, i)})
    BY <2>2, ChunksMakeWhole
  <2>4. InstanceCloud(depth, result.mask, kept) =
          InstancePoints(Samples(depth, kept), depth, result.mask)
    BY DEF InstanceCloud, Samples
  <2>5. QED
    BY <2>1, <2>3, <2>4 DEF WholeCloud, depth, kept
<1>2. QED
  BY <1>1, AnnotatorInvariant, PTL

(* The cloud and the detections of a frame speak of the same objects, and  *)
(* trimming takes no object away (compose_detection_outputs,               *)
(* trim_instance_mask, publish_images).                                    *)
THEOREM CloudAgrees == Spec => []CloudShowsItsObjects
<1>1. AnnotatorInv => CloudShowsItsObjects
  <2> SUFFICES ASSUME AnnotatorInv PROVE CloudShowsItsObjects
    OBVIOUS
  <2>1. ASSUME pc = "heartbeat", engine = "yolo",
               out.cloud.frame = out.detections.frame,
               NEW point \in out.cloud.points
        PROVE  /\ point.id \in DOMAIN out.detections.objects
               /\ point.pixel \in out.detections.objects[point.id].mask
    <3> DEFINE depth == result.depth.image
               mask == result.mask
               kept == Trimmed(mask)
               objects == result.objects
    <3>1. /\ out.detections = [frame |-> image, objects |-> objects]
          /\ out.cloud.frame = image
      BY <2>1 DEF AnnotatorInv, OutInv
    <3>2. /\ result.depth \in DepthFrames
          /\ Agree(objects, mask)
          /\ out.cloud.points = InstanceCloud(depth, mask, kept)
      BY <2>1, <3>1 DEF AnnotatorInv, ResultInv, OutInv, Publishing
    <3>3. IsDepthImage(depth)
      BY <3>2, NodeAssumption DEF DepthFrames
    <3>4. out.detections.objects = objects
      BY <3>1
    <3>5. \A p \in kept : p \in Pixels /\ mask[p] # 0
      BY TrimKeepsInstances
    <3> HIDE DEF depth, mask, kept, objects
    <3>6. point \in InstancePoints(Samples(depth, kept), depth, mask)
      BY <2>1, <3>2 DEF InstanceCloud, Samples
    <3>7. PICK i \in Samples(depth, kept) :
            /\ point.pixel = PixelOf(depth, i)
            /\ point.id = mask[point.pixel]
      BY <3>6 DEF InstancePoints
    <3>8. SeenIn(depth, kept, i)
      BY <3>3, <3>7, ChunksMakeWhole DEF Foremost
    <3>9. point.pixel \in Pixels /\ mask[point.pixel] # 0
      BY <3>5, <3>7, <3>8 DEF SeenIn
    <3>10. QED
      BY <3>2, <3>4, <3>7, <3>9 DEF Agree
  <2>2. ASSUME pc = "cloud"
        PROVE  {out.mask.ids[p] : p \in Trimmed(out.mask.ids)} = Instances(out.mask.ids)
    BY TrimKeepsInstances
  <2>3. QED
    BY <2>1, <2>2 DEF CloudShowsItsObjects
<1>2. QED
  BY <1>1, AnnotatorInvariant, PTL

-----------------------------------------------------------------------------
(* Sequences of sequences, one after the other (FlattenSeq).               *)
Join(x, y) == x \o y

LEMMA JoinFacts ==
  ASSUME NEW E, NEW x \in Seq(E), NEW y \in Seq(E)
  PROVE  /\ Join(x, y) \in Seq(E)
         /\ Len(Join(x, y)) = Len(x) + Len(y)
         /\ \A i \in 1 .. Len(x) : Join(x, y)[i] = x[i]
         /\ \A i \in 1 .. Len(y) : Join(x, y)[Len(x) + i] = y[i]
<1>1. Len(x) \in Nat /\ Len(y) \in Nat
  OBVIOUS
<1>2. /\ Join(x, y) \in Seq(E)
      /\ Len(Join(x, y)) = Len(x) + Len(y)
      /\ \A i \in 1 .. Len(x) + Len(y) :
            Join(x, y)[i] = IF i <= Len(x) THEN x[i] ELSE y[i - Len(x)]
  BY ConcatProperties DEF Join
<1> DEFINE z == Join(x, y)
           m == Len(x)
           n == Len(y)
<1> HIDE DEF z, m, n
<1>4. m \in Nat /\ n \in Nat /\ \A i \in 1 .. m + n : z[i] = IF i <= m THEN x[i] ELSE y[i - m]
  BY <1>1, <1>2 DEF z, m, n
<1>5. (\A i \in 1 .. m : z[i] = x[i]) /\ (\A i \in 1 .. n : z[m + i] = y[i])
  <2>1. ASSUME NEW i \in 1 .. m PROVE z[i] = x[i]
    BY <1>4
  <2>2. ASSUME NEW i \in 1 .. n PROVE z[m + i] = y[i]
    <3>1. m + i \in 1 .. m + n /\ ~(m + i <= m) /\ m + i - m = i
      BY <1>4
    <3>2. z[m + i] = y[m + i - m]
      BY <1>4, <3>1
    <3>3. QED
      BY <3>1, <3>2
  <2>3. QED
    BY <2>1, <2>2
<1>6. QED
  BY <1>2, <1>5 DEF z, m, n

LEMMA JoinEmpty ==
  ASSUME NEW E, NEW x \in Seq(E) PROVE Join(x, <<>>) = x /\ Join(<<>>, x) = x
BY ConcatEmptySeq DEF Join

JoinRun(f, n, seqs) ==
  f[1] = seqs[1] /\ \A i \in 2 .. n : f[i] = Join(f[i - 1], seqs[i])

LEMMA FlattenIs ==
  ASSUME NEW n \in Nat \ {0}, NEW seqs, Len(seqs) = n, NEW f, JoinRun(f, n, seqs)
  PROVE  FlattenSeq(seqs) = f[n]
<1>0. f[1] = seqs[1] /\ \A i \in 2 .. n : f[i] = Join(f[i - 1], seqs[i])
  BY DEF JoinRun
<1> DEFINE Body(g, i) == IF i = 1 THEN seqs[i] ELSE Join(g[i - 1], seqs[i])
           Steps(g) == g = [i \in 1 .. n |-> Body(g, i)]
           flat == CHOOSE g : Steps(g)
           h == [i \in 1 .. n |-> f[i]]
<1>1. FlattenSeq(seqs) = flat[n]
  BY DEF FlattenSeq, Join
<1>2. \A i \in 1 .. n : h[i] = Body(h, i)
  <2> SUFFICES ASSUME NEW i \in 1 .. n PROVE h[i] = Body(h, i)
    OBVIOUS
  <2>1. CASE i = 1
    BY <1>0, <2>1
  <2>2. CASE i # 1
    <3>1. i \in 2 .. n /\ i - 1 \in 1 .. n
      BY <2>2
    <3>2. f[i] = Join(f[i - 1], seqs[i])
      BY <1>0, <3>1
    <3>3. QED
      BY <2>2, <3>1, <3>2
  <2>3. QED
    BY <2>1, <2>2
<1>3. Steps(h)
  <2>1. h = [i \in 1 .. n |-> h[i]]
    OBVIOUS
  <2> HIDE DEF h, Body
  <2>2. h = [i \in 1 .. n |-> Body(h, i)]
    BY <1>2, <2>1
  <2>3. QED
    BY <2>2
<1>4. Steps(flat)
  <2> HIDE DEF Steps, h
  <2>1. QED
    BY <1>3
<1> HIDE DEF flat
<1>5. \A i \in 1 .. n : flat[i] = Body(flat, i)
  BY <1>4
<1>6. flat[1] = seqs[1] /\ \A i \in 2 .. n : flat[i] = Join(flat[i - 1], seqs[i])
  BY <1>5
<1> HIDE DEF Steps, Body
<1> DEFINE T == {i \in 0 .. n : i > 0 => flat[i] = f[i]}
<1>7. 0 \in T
  OBVIOUS
<1>8. ASSUME NEW i \in 0 .. n - 1, i \in T PROVE i + 1 \in T
  <2>1. CASE i = 0
    BY <1>0, <1>6, <2>1
  <2>2. CASE i # 0
    <3> DEFINE j == i + 1
    <3>1. j \in 2 .. n /\ j - 1 = i /\ j \in 0 .. n
      BY <2>2
    <3> HIDE DEF j
    <3>2. flat[j] = Join(flat[i], seqs[j]) /\ f[j] = Join(f[i], seqs[j])
      BY <1>0, <1>6, <3>1
    <3>3. flat[i] = f[i]
      BY <1>8, <2>2
    <3>4. j \in T
      BY <3>1, <3>2, <3>3
    <3>5. QED
      BY <3>4 DEF j
  <2>3. QED
    BY <2>1, <2>2
<1> HIDE DEF T
<1>9. \A i \in 0 .. n : i \in T
  BY <1>7, <1>8, IntervalInd
<1>10. n \in T
  BY <1>9
<1>11. QED
  BY <1>1, <1>10 DEF T

LEMMA FlattenNone == ASSUME NEW seqs, Len(seqs) = 0 PROVE FlattenSeq(seqs) = seqs
BY DEF FlattenSeq

LEMMA FlattenOne ==
  ASSUME NEW seqs, Len(seqs) = 1 PROVE FlattenSeq(seqs) = seqs[1]
<1> DEFINE f == [i \in {1} |-> seqs[1]]
<1>1. f[1] = seqs[1] /\ 2 .. 1 = {}
  OBVIOUS
<1> HIDE DEF f
<1>2. JoinRun(f, 1, seqs) /\ 1 \in Nat \ {0}
  BY <1>1 DEF JoinRun
<1>3. FlattenSeq(seqs) = f[1]
  BY <1>2, FlattenIs
<1>4. QED
  BY <1>1, <1>3

LEMMA FlattenTwo ==
  ASSUME NEW seqs, Len(seqs) = 2 PROVE FlattenSeq(seqs) = Join(seqs[1], seqs[2])
<1> DEFINE f == [i \in {1, 2} |-> IF i = 1 THEN seqs[1] ELSE Join(seqs[1], seqs[2])]
<1>1. f[1] = seqs[1] /\ f[2] = Join(f[1], seqs[2])
  OBVIOUS
<1> HIDE DEF f
<1>2. JoinRun(f, 2, seqs)
  <2>1. \A i \in 2 .. 2 : i = 2 /\ i - 1 = 1
    OBVIOUS
  <2>2. QED
    BY <1>1, <2>1 DEF JoinRun
<1>3. 2 \in Nat \ {0}
  OBVIOUS
<1>4. FlattenSeq(seqs) = f[2]
  BY <1>2, <1>3, FlattenIs
<1>5. QED
  BY <1>1, <1>4

LEMMA OneMore ==
  ASSUME NEW E, NEW a \in Seq(E), NEW b \in Seq(E), NEW e \in E,
         Len(b) = Len(a) + 1, \A j \in 1 .. Len(a) : b[j] = a[j], b[Len(b)] = e
  PROVE  b = Append(a, e) /\ b = Join(a, <<e>>)
<1>1. Len(a) \in Nat /\ <<e>> \in Seq(E)
  OBVIOUS
<1>2. /\ Append(a, e) \in Seq(E) /\ Len(Append(a, e)) = Len(b)
      /\ \A j \in 1 .. Len(a) : Append(a, e)[j] = a[j]
      /\ Append(a, e)[Len(b)] = e
  BY <1>1
<1>3. \A j \in 1 .. Len(b) : j \in 1 .. Len(a) \/ j = Len(b)
  BY <1>1
<1>4. \A j \in 1 .. Len(b) : b[j] = Append(a, e)[j]
  BY <1>2, <1>3
<1>5. b = Append(a, e)
  BY <1>2, <1>4, SeqEqual
<1>6. Append(a, e) = a \o <<e>>
  BY AppendIsConcat
<1>7. QED
  BY <1>5, <1>6, Zenon DEF Join

(* The tokens of a text, one by one, are the text.                         *)
LEMMA FlattenTokens ==
  ASSUME NEW U, NEW t \in Seq(U), t # <<>>
  PROVE  FlattenSeq([i \in DOMAIN t |-> <<t[i]>>]) = t
<1> DEFINE n == Len(t)
           tokens == [i \in 1 .. n |-> <<t[i]>>]
           f == [i \in 1 .. n |-> [j \in 1 .. i |-> t[j]]]
<1>1. n \in Nat \ {0} /\ DOMAIN t = 1 .. n /\ t = [j \in 1 .. n |-> t[j]]
      /\ \A i \in 1 .. n : t[i] \in U
  BY EmptySeq
<1> HIDE DEF n
<1>2. Len(tokens) = n
  BY <1>1
<1>3. \A i \in 1 .. n : f[i] = [j \in 1 .. i |-> t[j]] /\ tokens[i] = <<t[i]>>
  OBVIOUS
<1>4. f[1] = tokens[1]
  BY <1>1, <1>3
<1> HIDE DEF f, tokens
<1>5. ASSUME NEW i \in 2 .. n PROVE f[i] = Join(f[i - 1], tokens[i])
  <2> DEFINE m == i - 1
             a == [j \in 1 .. m |-> t[j]]
             b == [j \in 1 .. i |-> t[j]]
             c == <<t[i]>>
  <2>1. i \in 1 .. n /\ m \in 1 .. n /\ m \in Nat /\ i \in Nat /\ i = m + 1
    BY <1>1
  <2>2. f[m] = a /\ f[i] = b /\ tokens[i] = c
    BY <1>3, <2>1
  <2>3. \A j \in 1 .. i : t[j] \in U
    BY <1>1, <2>1
  <2> HIDE DEF m
  <2>4. a \in [1 .. m -> U] /\ b \in [1 .. i -> U] /\ t[i] \in U
    BY <2>1, <2>3
  <2>5. /\ a \in Seq(U) /\ Len(a) = m /\ b \in Seq(U) /\ Len(b) = i
        /\ c \in Seq(U) /\ Len(c) = 1 /\ c[1] = t[i]
    BY <2>1, <2>4
  <2>6. (\A j \in 1 .. m : a[j] = t[j]) /\ (\A j \in 1 .. i : b[j] = t[j])
    OBVIOUS
  <2> HIDE DEF a, b
  <2>7. b = Join(a, <<t[i]>>)
    <3>1. Len(b) = Len(a) + 1 /\ \A j \in 1 .. Len(a) : b[j] = a[j]
      BY <2>1, <2>5, <2>6
    <3>2. b[Len(b)] = t[i]
      BY <2>1, <2>5, <2>6
    <3>3. a \in Seq(U) /\ b \in Seq(U) /\ t[i] \in U
      BY <2>4, <2>5
    <3>4. QED
      BY <3>1, <3>2, <3>3, OneMore
  <2>8. QED
    BY <2>2, <2>7 DEF m, c
<1>6. FlattenSeq(tokens) = f[n]
  <2>1. JoinRun(f, n, tokens)
    BY <1>4, <1>5 DEF JoinRun
  <2>2. QED
    BY <1>1, <1>2, <2>1, FlattenIs
<1>7. f[n] = t
  BY <1>1, <1>3
<1>8. tokens = [i \in DOMAIN t |-> <<t[i]>>]
  BY <1>1 DEF tokens
<1>9. QED
  BY <1>6, <1>7, <1>8

-----------------------------------------------------------------------------
(* What is selected: everything, nothing, and from two sequences.          *)
LEMMA JoinAppend ==
  ASSUME NEW E, NEW x \in Seq(E), NEW y \in Seq(E), NEW e \in E
  PROVE  Join(x, Append(y, e)) = Append(Join(x, y), e)
<1>1. <<e>> \in Seq(E) /\ x \o y \in Seq(E)
  BY ConcatProperties
<1>2. Append(y, e) = y \o <<e>> /\ Append(x \o y, e) = (x \o y) \o <<e>>
  BY <1>1, AppendIsConcat
<1>3. (x \o y) \o <<e>> = x \o (y \o <<e>>)
  BY <1>1, ConcatAssociative
<1>4. QED
  BY <1>2, <1>3, Zenon DEF Join

LEMMA RunTyped ==
  ASSUME NEW U, NEW s, NEW S, NEW n \in Nat, \A i \in 1 .. n : s[i] \in U,
         NEW f, SelectionRun(f, n, s, S)
  PROVE  \A i \in 0 .. n : f[i] \in Seq(U)
<1> DEFINE T == {i \in 0 .. n : f[i] \in Seq(U)}
<1>1. 0 \in T
  <2>1. 0 \in 0 .. n /\ <<>> \in Seq(U)
    OBVIOUS
  <2>2. QED
    BY <2>1 DEF SelectionRun
<1>2. ASSUME NEW i \in 0 .. n - 1, i \in T PROVE i + 1 \in T
  <2>1. i + 1 \in 1 .. n /\ i + 1 - 1 = i /\ i + 1 \in 0 .. n
    OBVIOUS
  <2>2. f[i + 1] = IF s[i + 1] \in S THEN Append(f[i], s[i + 1]) ELSE f[i]
    BY <2>1 DEF SelectionRun
  <2>3. f[i] \in Seq(U) /\ s[i + 1] \in U
    BY <1>2, <2>1
  <2>4. f[i + 1] \in Seq(U)
    BY <2>2, <2>3
  <2>5. QED
    BY <2>1, <2>4
<1> HIDE DEF T
<1>3. \A i \in 0 .. n : i \in T
  BY <1>1, <1>2, IntervalInd
<1>4. QED
  BY <1>3 DEF T

Selects(f, n, s, S) ==
  /\ f[0] = <<>>
  /\ \A i \in 1 .. n : f[i] = IF s[i] \in S THEN Append(f[i - 1], s[i]) ELSE f[i - 1]

LEMMA ThoseAre ==
  ASSUME NEW s, NEW S, NEW n \in Nat, DOMAIN s = 1 .. n, NEW f, Selects(f, n, s, S)
  PROVE  Those(s, S) = f[n]
<1>1. PICK g : SelectionRun(g, n, s, S)
  BY SelectionSteps
<1> DEFINE T == {i \in 0 .. n : f[i] = g[i]}
<1>2. 0 \in T
  BY <1>1 DEF SelectionRun, Selects
<1>3. ASSUME NEW i \in 0 .. n - 1, i \in T PROVE i + 1 \in T
  <2> DEFINE k == i + 1
  <2>1. k \in 1 .. n /\ k - 1 = i /\ k \in 0 .. n
    OBVIOUS
  <2> HIDE DEF k
  <2>2. /\ f[k] = IF s[k] \in S THEN Append(f[i], s[k]) ELSE f[i]
        /\ g[k] = IF s[k] \in S THEN Append(g[i], s[k]) ELSE g[i]
    BY <1>1, <2>1 DEF SelectionRun, Selects
  <2>3. f[i] = g[i]
    BY <1>3
  <2>4. k \in T
    BY <2>1, <2>2, <2>3
  <2>5. QED
    BY <2>4 DEF k
<1> HIDE DEF T
<1>4. \A i \in 0 .. n : i \in T
  BY <1>2, <1>3, IntervalInd
<1>5. n \in T
  BY <1>4
<1>6. QED
  BY <1>1, <1>5 DEF SelectionRun, T

LEMMA ThoseNone ==
  ASSUME NEW s, NEW S, NEW n \in Nat, DOMAIN s = 1 .. n, \A i \in 1 .. n : s[i] \notin S
  PROVE  Those(s, S) = <<>>
<1> DEFINE f == [i \in 0 .. n |-> <<>>]
<1>1. Selects(f, n, s, S)
  <2>1. \A i \in 1 .. n : i - 1 \in 0 .. n /\ i \in 0 .. n
    OBVIOUS
  <2>2. QED
    BY <2>1 DEF Selects
<1>2. f[n] = <<>>
  OBVIOUS
<1> HIDE DEF f
<1>3. QED
  BY <1>1, <1>2, ThoseAre

LEMMA ThoseAll ==
  ASSUME NEW U, NEW s \in Seq(U), NEW S, \A i \in 1 .. Len(s) : s[i] \in S
  PROVE  Those(s, S) = s
<1> DEFINE n == Len(s)
           f == [i \in 0 .. n |-> [j \in 1 .. i |-> s[j]]]
<1>1. n \in Nat /\ DOMAIN s = 1 .. n /\ s = [j \in 1 .. n |-> s[j]]
      /\ \A i \in 1 .. n : s[i] \in U /\ s[i] \in S
  OBVIOUS
<1> HIDE DEF n
<1>2. \A i \in 0 .. n : f[i] = [j \in 1 .. i |-> s[j]]
  OBVIOUS
<1> HIDE DEF f
<1>3. ASSUME NEW i \in 1 .. n PROVE f[i] = Append(f[i - 1], s[i])
  <2> DEFINE m == i - 1
             a == [j \in 1 .. m |-> s[j]]
             b == [j \in 1 .. i |-> s[j]]
  <2>1. m \in 0 .. n /\ i \in 0 .. n /\ i \in Nat /\ m \in Nat /\ i = m + 1
    BY <1>1
  <2>2. f[m] = a /\ f[i] = b
    BY <1>2, <2>1
  <2>3. \A j \in 1 .. i : s[j] \in U
    BY <1>1
  <2> HIDE DEF m
  <2>4. a \in Seq(U) /\ b \in Seq(U) /\ Len(a) = m /\ Len(b) = i /\ s[i] \in U
    <3>1. a \in [1 .. m -> U] /\ b \in [1 .. i -> U] /\ s[i] \in U
      BY <2>1, <2>3
    <3>2. QED
      BY <2>1, <3>1
  <2>5. (\A j \in 1 .. m : a[j] = s[j]) /\ (\A j \in 1 .. i : b[j] = s[j])
    OBVIOUS
  <2> HIDE DEF a, b
  <2>6. /\ Append(a, s[i]) \in Seq(U) /\ Len(Append(a, s[i])) = i
        /\ \A j \in 1 .. m : Append(a, s[i])[j] = a[j]
        /\ Append(a, s[i])[i] = s[i]
    BY <2>1, <2>4
  <2>7. \A j \in 1 .. i : b[j] = Append(a, s[i])[j]
    <3>1. \A j \in 1 .. i : j \in 1 .. m \/ j = i
      BY <2>1
    <3>2. QED
      BY <2>1, <2>5, <2>6, <3>1
  <2>8. b = Append(a, s[i])
    BY <2>4, <2>6, <2>7, SeqEqual
  <2>9. QED
    BY <2>2, <2>8 DEF m
<1>4. f[0] = <<>>
  <2>1. 0 \in 0 .. n
    BY <1>1
  <2>2. f[0] = [j \in 1 .. 0 |-> s[j]]
    BY <1>2, <2>1
  <2>3. [j \in 1 .. 0 |-> s[j]] = <<>>
    OBVIOUS
  <2>4. QED
    BY <2>2, <2>3
<1>5. Selects(f, n, s, S)
  BY <1>1, <1>3, <1>4 DEF Selects
<1>6. Those(s, S) = f[n]
  BY <1>1, <1>5, ThoseAre
<1>7. f[n] = [j \in 1 .. n |-> s[j]]
  <2>1. n \in 0 .. n
    BY <1>1
  <2>2. QED
    BY <1>2, <2>1
<1>8. QED
  BY <1>1, <1>6, <1>7

LEMMA ThoseAgree ==
  ASSUME NEW s, NEW S, NEW R, NEW n \in Nat, DOMAIN s = 1 .. n,
         \A i \in 1 .. n : s[i] \in S <=> s[i] \in R
  PROVE  Those(s, S) = Those(s, R)
<1>1. PICK f : SelectionRun(f, n, s, S)
  BY SelectionSteps
<1>2. Selects(f, n, s, R)
  BY <1>1 DEF SelectionRun, Selects
<1>3. QED
  BY <1>1, <1>2, ThoseAre DEF SelectionRun

LEMMA ThoseJoin ==
  ASSUME NEW U, NEW s \in Seq(U), NEW t \in Seq(U), NEW S
  PROVE  Those(Join(s, t), S) = Join(Those(s, S), Those(t, S))
<1> DEFINE m == Len(s)
           n == Len(t)
           r == Join(s, t)
<1>1. /\ m \in Nat /\ DOMAIN s = 1 .. m /\ \A i \in 1 .. m : s[i] \in U
      /\ n \in Nat /\ DOMAIN t = 1 .. n /\ \A i \in 1 .. n : t[i] \in U
  OBVIOUS
<1>2. /\ r \in Seq(U) /\ Len(r) = m + n
      /\ \A i \in 1 .. m : r[i] = s[i]
      /\ \A i \in 1 .. n : r[m + i] = t[i]
  <2>1. s \in Seq(U) /\ t \in Seq(U)
    OBVIOUS
  <2>2. Join(s, t) \in Seq(U) /\ Len(Join(s, t)) = Len(s) + Len(t)
    BY <2>1, JoinFacts
  <2>3. \A i \in 1 .. Len(s) : Join(s, t)[i] = s[i]
    BY <2>1, JoinFacts
  <2>4. \A i \in 1 .. Len(t) : Join(s, t)[Len(s) + i] = t[i]
    BY <2>1, JoinFacts
  <2>5. QED
    BY <1>1, <2>2, <2>3, <2>4
<1> HIDE DEF m, n, r
<1>3. DOMAIN r = 1 .. m + n
  BY <1>2
<1>4. PICK f : SelectionRun(f, m, s, S)
  BY <1>1, SelectionSteps
<1>5. PICK g : SelectionRun(g, n, t, S)
  BY <1>1, SelectionSteps
<1>6. \A i \in 0 .. m : f[i] \in Seq(U)
  BY <1>1, <1>4, RunTyped
<1>7. \A i \in 0 .. n : g[i] \in Seq(U)
  BY <1>1, <1>5, RunTyped
<1> DEFINE h == [i \in 0 .. m + n |-> IF i <= m THEN f[i] ELSE Join(f[m], g[i - m])]
<1>8. \A i \in 0 .. m : h[i] = f[i]
  BY <1>1
<1>9. \A i \in 0 .. n : h[m + i] = Join(f[m], g[i])
  <2> SUFFICES ASSUME NEW i \in 0 .. n PROVE h[m + i] = Join(f[m], g[i])
    OBVIOUS
  <2>1. CASE i = 0
    <3>1. h[m] = f[m] /\ g[0] = <<>> /\ f[m] \in Seq(U)
      BY <1>1, <1>5, <1>6, <1>8 DEF SelectionRun
    <3>2. Join(f[m], <<>>) = f[m]
      BY <3>1, JoinEmpty
    <3>3. m + i = m
      BY <1>1, <2>1
    <3>4. QED
      BY <2>1, <3>1, <3>2, <3>3
  <2>2. CASE i # 0
    <3>1. m + i \in 0 .. m + n /\ ~(m + i <= m) /\ m + i - m = i
      BY <1>1, <2>2
    <3> DEFINE k == m + i
    <3>2. k \in 0 .. m + n /\ ~(k <= m) /\ k - m = i
      BY <1>1, <3>1
    <3> HIDE DEF k
    <3>3. h[k] = Join(f[m], g[k - m])
      BY <3>2
    <3>4. QED
      BY <3>2, <3>3 DEF k
  <2>3. QED
    BY <2>1, <2>2
<1> HIDE DEF h
<1>10. \A i \in 1 .. m : h[i] = IF r[i] \in S THEN Append(h[i - 1], r[i]) ELSE h[i - 1]
  <2> SUFFICES ASSUME NEW i \in 1 .. m
               PROVE  h[i] = IF r[i] \in S THEN Append(h[i - 1], r[i]) ELSE h[i - 1]
    OBVIOUS
  <2>1. i \in 0 .. m /\ i - 1 \in 0 .. m
    BY <1>1
  <2>2. h[i] = f[i] /\ h[i - 1] = f[i - 1] /\ r[i] = s[i]
    BY <1>2, <1>8, <2>1
  <2>3. QED
    BY <1>4, <2>2 DEF SelectionRun
<1>11. ASSUME NEW i \in 1 .. n
       PROVE  h[m + i] = IF r[m + i] \in S THEN Append(h[m + i - 1], r[m + i])
                         ELSE h[m + i - 1]
  <2> DEFINE k == i - 1
  <2>1. k \in 0 .. n /\ i \in 0 .. n /\ m + i - 1 = m + k
    BY <1>1
  <2>2. g[i] = IF t[i] \in S THEN Append(g[k], t[i]) ELSE g[k]
    BY <1>5 DEF SelectionRun
  <2> HIDE DEF k
  <2>3. h[m + i] = Join(f[m], g[i]) /\ h[m + k] = Join(f[m], g[k]) /\ r[m + i] = t[i]
    BY <1>2, <1>9, <2>1
  <2>4. f[m] \in Seq(U) /\ g[k] \in Seq(U) /\ t[i] \in U
    BY <1>1, <1>6, <1>7, <2>1
  <2>5. \A a, c \in Seq(U), e \in U : Join(a, Append(c, e)) = Append(Join(a, c), e)
    BY JoinAppend
  <2>6. Join(f[m], Append(g[k], t[i])) = Append(Join(f[m], g[k]), t[i])
    BY <2>4, <2>5, Zenon
  <2>7. QED
    BY <2>1, <2>2, <2>3, <2>6
<1>12. Selects(h, m + n, r, S)
  <2>1. h[0] = <<>>
    BY <1>1, <1>4, <1>8 DEF SelectionRun
  <2>2. ASSUME NEW i \in 1 .. m + n
        PROVE  h[i] = IF r[i] \in S THEN Append(h[i - 1], r[i]) ELSE h[i - 1]
    <3>1. CASE i \in 1 .. m
      BY <1>10, <3>1
    <3>2. CASE i \notin 1 .. m
      <4> DEFINE j == i - m
      <4>1. j \in 1 .. n /\ i = m + j
        BY <1>1, <3>2
      <4> HIDE DEF j
      <4>2. h[m + j] = IF r[m + j] \in S THEN Append(h[m + j - 1], r[m + j])
                       ELSE h[m + j - 1]
        BY <1>11, <4>1
      <4>3. QED
        BY <1>1, <4>1, <4>2
    <3>3. QED
      BY <3>1, <3>2
  <2>3. QED
    BY <2>1, <2>2 DEF Selects
<1>13. Those(r, S) = h[m + n]
  <2>1. m + n \in Nat
    BY <1>1
  <2>2. QED
    BY <1>3, <1>12, <2>1, ThoseAre
<1>14. h[m + n] = Join(f[m], g[n])
  BY <1>1, <1>9
<1>15. QED
  BY <1>4, <1>5, <1>13, <1>14 DEF SelectionRun, r

-----------------------------------------------------------------------------
(* Events and parts of a type, and events with a key.                      *)
TypeIn(E, type) == {x \in E : x.type = type}
KeyIn(E, k) == {x \in E : x.key = k}

LEMMA OfTypeIs ==
  ASSUME NEW E, NEW s \in Seq(E), NEW type
  PROVE  OfType(s, type) = Those(s, TypeIn(E, type))
<1> DEFINE n == Len(s)
           R == {x \in ToSet(s) : x.type = type}
<1>1. n \in Nat /\ DOMAIN s = 1 .. n /\ \A i \in 1 .. n : s[i] \in E
  OBVIOUS
<1>2. \A i \in 1 .. n : s[i] \in R <=> s[i] \in TypeIn(E, type)
  <2> SUFFICES ASSUME NEW i \in 1 .. n PROVE s[i] \in R <=> s[i] \in TypeIn(E, type)
    OBVIOUS
  <2>1. s[i] \in ToSet(s) /\ s[i] \in E
    BY <1>1 DEF ToSet
  <2>2. QED
    BY <2>1 DEF TypeIn
<1> HIDE DEF n, R
<1>3. Those(s, R) = Those(s, TypeIn(E, type))
  BY <1>1, <1>2, ThoseAgree
<1>4. QED
  BY <1>3 DEF OfType, R

LEMMA OfKeyIs ==
  ASSUME NEW E, NEW s \in Seq(E), NEW k
  PROVE  OfKey(s, k) = Those(s, KeyIn(E, k))
<1> DEFINE n == Len(s)
           R == {x \in ToSet(s) : x.key = k}
<1>1. n \in Nat /\ DOMAIN s = 1 .. n /\ \A i \in 1 .. n : s[i] \in E
  OBVIOUS
<1>2. \A i \in 1 .. n : s[i] \in R <=> s[i] \in KeyIn(E, k)
  <2> SUFFICES ASSUME NEW i \in 1 .. n PROVE s[i] \in R <=> s[i] \in KeyIn(E, k)
    OBVIOUS
  <2>1. s[i] \in ToSet(s) /\ s[i] \in E
    BY <1>1 DEF ToSet
  <2>2. QED
    BY <2>1 DEF KeyIn
<1> HIDE DEF n, R
<1>3. Those(s, R) = Those(s, KeyIn(E, k))
  BY <1>1, <1>2, ThoseAgree
<1>4. QED
  BY <1>3 DEF OfKey, R

LEMMA OfTypeJoin ==
  ASSUME NEW E, NEW s \in Seq(E), NEW t \in Seq(E), NEW type
  PROVE  OfType(Join(s, t), type) = Join(OfType(s, type), OfType(t, type))
<1>1. Join(s, t) \in Seq(E)
  BY JoinFacts
<1>2. OfType(Join(s, t), type) = Those(Join(s, t), TypeIn(E, type))
  BY <1>1, OfTypeIs
<1>3. OfType(s, type) = Those(s, TypeIn(E, type))
  BY OfTypeIs
<1>4. OfType(t, type) = Those(t, TypeIn(E, type))
  BY OfTypeIs
<1>5. Those(Join(s, t), TypeIn(E, type))
        = Join(Those(s, TypeIn(E, type)), Those(t, TypeIn(E, type)))
  BY ThoseJoin
<1>6. QED
  BY <1>2, <1>3, <1>4, <1>5, Zenon

LEMMA OfTypeTyped ==
  ASSUME NEW E, NEW s \in Seq(E), NEW type
  PROVE  OfType(s, type) \in Seq(E)
<1>1. OfType(s, type) = Those(s, TypeIn(E, type))
  BY OfTypeIs
<1>2. Those(s, TypeIn(E, type)) \in Seq(E \cap TypeIn(E, type))
  BY ThoseTyped
<1>3. E \cap TypeIn(E, type) \subseteq E
  OBVIOUS
<1>4. QED
  BY <1>1, <1>2, <1>3, SeqMonotonic

LEMMA OfKeyJoin ==
  ASSUME NEW E, NEW s \in Seq(E), NEW t \in Seq(E), NEW k
  PROVE  OfKey(Join(s, t), k) = Join(OfKey(s, k), OfKey(t, k))
<1>1. Join(s, t) \in Seq(E)
  BY JoinFacts
<1>2. OfKey(Join(s, t), k) = Those(Join(s, t), KeyIn(E, k))
  BY <1>1, OfKeyIs
<1>3. OfKey(s, k) = Those(s, KeyIn(E, k))
  BY OfKeyIs
<1>4. OfKey(t, k) = Those(t, KeyIn(E, k))
  BY OfKeyIs
<1>5. Those(Join(s, t), KeyIn(E, k)) = Join(Those(s, KeyIn(E, k)), Those(t, KeyIn(E, k)))
  BY ThoseJoin
<1>6. QED
  BY <1>2, <1>3, <1>4, <1>5, Zenon

AllTyped(s, type) == \A i \in 1 .. Len(s) : s[i].type = type
NoneTyped(s, type) == \A i \in 1 .. Len(s) : s[i].type # type
AllKeyed(s, k) == \A i \in 1 .. Len(s) : s[i].key = k

LEMMA OfTypeAll ==
  ASSUME NEW E, NEW s \in Seq(E), NEW type, AllTyped(s, type)
  PROVE  OfType(s, type) = s
<1>1. OfType(s, type) = Those(s, TypeIn(E, type))
  BY OfTypeIs
<1>2. \A i \in 1 .. Len(s) : s[i] \in TypeIn(E, type)
  BY DEF AllTyped, TypeIn
<1>3. Those(s, TypeIn(E, type)) = s
  BY <1>2, ThoseAll
<1>4. QED
  BY <1>1, <1>3

LEMMA OfTypeNone ==
  ASSUME NEW E, NEW s \in Seq(E), NEW type, NoneTyped(s, type)
  PROVE  OfType(s, type) = <<>>
<1>1. OfType(s, type) = Those(s, TypeIn(E, type))
  BY OfTypeIs
<1> DEFINE n == Len(s)
<1>2. n \in Nat /\ DOMAIN s = 1 .. n /\ \A i \in 1 .. n : s[i] \notin TypeIn(E, type)
  BY DEF NoneTyped, TypeIn
<1> HIDE DEF n
<1>3. Those(s, TypeIn(E, type)) = <<>>
  BY <1>2, ThoseNone
<1>4. QED
  BY <1>1, <1>3

LEMMA OfKeyAll ==
  ASSUME NEW E, NEW s \in Seq(E), NEW k, AllKeyed(s, k)
  PROVE  OfKey(s, k) = s
<1>1. OfKey(s, k) = Those(s, KeyIn(E, k))
  BY OfKeyIs
<1>2. \A i \in 1 .. Len(s) : s[i] \in KeyIn(E, k)
  BY DEF AllKeyed, KeyIn
<1>3. Those(s, KeyIn(E, k)) = s
  BY <1>2, ThoseAll
<1>4. QED
  BY <1>1, <1>3

LEMMA OfKeyNone ==
  ASSUME NEW E, NEW s \in Seq(E), NEW k, NEW j, j # k, AllKeyed(s, j)
  PROVE  OfKey(s, k) = <<>>
<1>1. OfKey(s, k) = Those(s, KeyIn(E, k))
  BY OfKeyIs
<1> DEFINE n == Len(s)
<1>2. n \in Nat /\ DOMAIN s = 1 .. n /\ \A i \in 1 .. n : s[i] \notin KeyIn(E, k)
  BY DEF AllKeyed, KeyIn
<1> HIDE DEF n
<1>3. Those(s, KeyIn(E, k)) = <<>>
  BY <1>2, ThoseNone
<1>4. QED
  BY <1>1, <1>3

-----------------------------------------------------------------------------
(* A generation of one part or of two, and its text.                       *)
OneOf(parts) == Len(parts) = 1 /\ DOMAIN parts = {1} /\ parts[1] \in Texts
TwoOf(parts) == /\ Len(parts) = 2 /\ DOMAIN parts = {1, 2}
                /\ parts[1] \in Texts /\ parts[2] \in Texts

LEMMA TextsTyped == ASSUME NEW t \in Texts PROVE t \in Seq(Nat) /\ t # <<>>
BY LimitsValidated

LEMMA PartsTyped ==
  ASSUME NEW generation \in Generations
  PROVE  /\ generation.parts \in Seq(Texts)
         /\ OneOf(generation.parts) \/ TwoOf(generation.parts)
<1> DEFINE parts == generation.parts
<1>1. parts \in {<<t>> : t \in Texts} \/ parts \in Texts \X Texts
  BY DEF Generations
<1> HIDE DEF parts
<1>2. CASE parts \in {<<t>> : t \in Texts}
  <2>1. PICK t \in Texts : parts = <<t>>
    BY <1>2
  <2>2. <<t>> \in Seq(Texts) /\ Len(<<t>>) = 1 /\ DOMAIN <<t>> = {1} /\ <<t>>[1] = t
    OBVIOUS
  <2>3. QED
    BY <2>1, <2>2 DEF OneOf, parts
<1>3. CASE parts \in Texts \X Texts
  <2>1. PICK t \in Texts, u \in Texts : parts = <<t, u>>
    BY <1>3
  <2>2. /\ <<t, u>> \in Seq(Texts) /\ Len(<<t, u>>) = 2 /\ DOMAIN <<t, u>> = {1, 2}
        /\ <<t, u>>[1] = t /\ <<t, u>>[2] = u
    OBVIOUS
  <2>3. QED
    BY <2>1, <2>2 DEF TwoOf, parts
<1>4. QED
  BY <1>1, <1>2, <1>3

LEMMA JoinNotEmpty ==
  ASSUME NEW E, NEW x \in Seq(E), NEW y \in Seq(E), x # <<>> \/ y # <<>>
  PROVE  Join(x, y) # <<>>
BY ConcatEqualIffEmpty DEF Join

LEMMA WholeText ==
  ASSUME NEW generation \in Generations
  PROVE  /\ OneOf(generation.parts) => Whole(generation) = generation.parts[1]
         /\ TwoOf(generation.parts) =>
              Whole(generation) = Join(generation.parts[1], generation.parts[2])
         /\ Whole(generation) # <<>>
<1> DEFINE parts == generation.parts
<1>1. Whole(generation) = FlattenSeq(parts)
  BY DEF Whole
<1>2. OneOf(parts) \/ TwoOf(parts)
  BY PartsTyped
<1> HIDE DEF parts
<1>3. ASSUME OneOf(parts)
      PROVE  FlattenSeq(parts) = parts[1] /\ FlattenSeq(parts) # <<>>
  <2>1. FlattenSeq(parts) = parts[1]
    BY <1>3, FlattenOne DEF OneOf
  <2>2. parts[1] # <<>>
    BY <1>3, TextsTyped DEF OneOf
  <2>3. QED
    BY <2>1, <2>2
<1>4. ASSUME TwoOf(parts)
      PROVE  FlattenSeq(parts) = Join(parts[1], parts[2]) /\ FlattenSeq(parts) # <<>>
  <2>1. FlattenSeq(parts) = Join(parts[1], parts[2])
    BY <1>4, FlattenTwo DEF TwoOf
  <2>2. parts[1] \in Texts /\ parts[2] \in Texts
    BY <1>4 DEF TwoOf
  <2>3. parts[1] \in Seq(Nat) /\ parts[2] \in Seq(Nat) /\ parts[1] # <<>>
    BY <2>2, TextsTyped
  <2>4. Join(parts[1], parts[2]) # <<>>
    BY <2>3, JoinNotEmpty
  <2>5. QED
    BY <2>1, <2>4
<1>5. QED
  BY <1>1, <1>2, <1>3, <1>4 DEF parts

-----------------------------------------------------------------------------
(* Answers in one piece.                                                   *)
RightAnswer(generation, inFull, a) ==
  /\ a.ok => generation.ending = "completed"
  /\ generation.ending = "completed" /\ inFull => a = Text(Whole(generation))

LEMMA WholeIsRight ==
  ASSUME NEW generation, NEW inFull, generation.ending = "completed"
  PROVE  RightAnswer(generation, inFull, Text(Whole(generation)))
BY DEF RightAnswer

LEMMA ErrorIsRight ==
  ASSUME NEW generation, NEW inFull, generation.ending # "completed"
  PROVE  RightAnswer(generation, inFull, Error)
BY DEF RightAnswer, Error

LEMMA ChatRight ==
  ASSUME NEW generation \in Generations, NEW inFull, NEW body \in ChatBodies(generation)
  PROVE  RightAnswer(generation, inFull, ExtractChat(body))
<1>1. /\ body.finish \in ChatFinish(generation.ending)
      /\ body.refused = (generation.ending = "refused")
      /\ body.content \in {[kind |-> "text", text |-> Whole(generation)],
                           [kind |-> "list", parts |-> generation.parts]}
  BY DEF ChatBodies
<1>2. ContentText(body.content) = Text(Whole(generation))
  <2>1. CASE body.content = [kind |-> "text", text |-> Whole(generation)]
    BY <2>1 DEF ContentText
  <2>2. CASE body.content = [kind |-> "list", parts |-> generation.parts]
    <3>1. generation.parts # <<>>
      BY PartsTyped DEF OneOf, TwoOf
    <3>2. QED
      BY <2>2, <3>1 DEF ContentText, Whole
  <2>3. QED
    BY <1>1, <2>1, <2>2
<1>3. generation.ending \in Endings
  BY DEF Generations
<1>4. CASE generation.ending \in {"completed", "refused"}
  <2>1. body.finish \in {"stop", Absent}
    BY <1>1, <1>4 DEF ChatFinish
  <2>2. ExtractChat(body) = IF body.refused THEN Error ELSE Text(Whole(generation))
    BY <1>2, <2>1 DEF ExtractChat
  <2>3. CASE generation.ending = "completed"
    <3>1. ExtractChat(body) = Text(Whole(generation))
      BY <1>1, <2>2, <2>3
    <3>2. QED
      BY <2>3, <3>1, WholeIsRight
  <2>4. CASE generation.ending = "refused"
    <3>1. ExtractChat(body) = Error /\ generation.ending # "completed"
      BY <1>1, <2>2, <2>4
    <3>2. QED
      BY <3>1, ErrorIsRight
  <2>5. QED
    BY <1>4, <2>3, <2>4
<1>5. CASE generation.ending \in {"incomplete", "filtered", "failed", "cut"}
  <2>1. body.finish \in {"length", "content_filter", "error"}
    BY <1>1, <1>5 DEF ChatFinish
  <2>2. ExtractChat(body) = Error
    BY <2>1 DEF ExtractChat, Absent
  <2>3. generation.ending # "completed"
    BY <1>5
  <2>4. QED
    BY <2>2, <2>3, ErrorIsRight
<1>6. QED
  BY <1>3, <1>4, <1>5 DEF Endings

Kind(generation) == IF generation.ending = "refused" THEN "refusal" ELSE "output_text"
SaidParts == [type : {"refusal", "output_text"}, text : Texts]
PartsSaid(generation) ==
  [i \in DOMAIN generation.parts |->
     [type |-> Kind(generation), text |-> generation.parts[i]]]

LEMMA PartsSaidFacts ==
  ASSUME NEW generation \in Generations
  PROVE  /\ PartsSaid(generation) \in Seq(SaidParts)
         /\ PartsSaid(generation) # <<>>
         /\ AllTyped(PartsSaid(generation), Kind(generation))
         /\ TextOf(PartsSaid(generation)) = Whole(generation)
<1> DEFINE parts == generation.parts
           n == Len(parts)
           said == PartsSaid(generation)
<1>1. n \in Nat \ {0} /\ DOMAIN parts = 1 .. n /\ (\A i \in 1 .. n : parts[i] \in Texts)
      /\ parts = [i \in 1 .. n |-> parts[i]]
  BY PartsTyped DEF OneOf, TwoOf
<1>2. Kind(generation) \in {"refusal", "output_text"}
  BY DEF Kind
<1>3. said = [i \in 1 .. n |-> [type |-> Kind(generation), text |-> parts[i]]]
  BY <1>1 DEF PartsSaid
<1>4. Whole(generation) = FlattenSeq(parts)
  BY DEF Whole
<1> HIDE DEF n, parts, said
<1>5. said \in Seq(SaidParts) /\ Len(said) = n
  <2>1. \A i \in 1 .. n : [type |-> Kind(generation), text |-> parts[i]] \in SaidParts
    BY <1>1, <1>2 DEF SaidParts
  <2>2. said \in [1 .. n -> SaidParts]
    BY <1>3, <2>1
  <2>3. QED
    BY <1>1, <2>2
<1>6. said # <<>> /\ AllTyped(said, Kind(generation))
  BY <1>1, <1>3, <1>5 DEF AllTyped
<1>7. [i \in DOMAIN said |-> said[i].text] = parts
  <2>1. \A i \in 1 .. n : said[i].text = parts[i]
    BY <1>3
  <2>2. DOMAIN said = 1 .. n
    BY <1>3
  <2>3. QED
    BY <1>1, <2>1, <2>2
<1>8. TextOf(said) = Whole(generation)
  BY <1>4, <1>7 DEF TextOf
<1>9. QED
  BY <1>5, <1>6, <1>8 DEF said

LEMMA OutputFacts ==
  ASSUME NEW generation \in Generations
  PROVE  /\ \A type : PartsOf(Output(generation), type)
                        = IF type = Kind(generation) THEN PartsSaid(generation) ELSE <<>>
         /\ \A type : PartsOf(Messages(Output(generation)), type)
                        = IF type = Kind(generation) THEN PartsSaid(generation) ELSE <<>>
         /\ Output(generation) # <<>>
<1> DEFINE said == PartsSaid(generation)
           reasoning == [type |-> "reasoning", parts |-> <<>>]
           message == [type |-> "message", parts |-> said]
           output == <<reasoning, message>>
<1>1. Output(generation) = output
  BY DEF Output, PartsSaid, Kind
<1>2. /\ said \in Seq(SaidParts)
      /\ AllTyped(said, Kind(generation)) /\ said # <<>>
  BY PartsSaidFacts
<1> HIDE DEF said
<1>3. \A type : OfType(said, type) = IF type = Kind(generation) THEN said ELSE <<>>
  <2> SUFFICES ASSUME NEW type
               PROVE  OfType(said, type) = IF type = Kind(generation) THEN said ELSE <<>>
    OBVIOUS
  <2>1. CASE type = Kind(generation)
    BY <1>2, <2>1, OfTypeAll
  <2>2. CASE type # Kind(generation)
    <3>1. NoneTyped(said, type)
      BY <1>2, <2>2 DEF AllTyped, NoneTyped
    <3>2. OfType(said, type) = <<>>
      BY <1>2, <3>1, OfTypeNone
    <3>3. QED
      BY <2>2, <3>2
  <2>3. QED
    BY <2>1, <2>2
<1>4. \A type : OfType(<<>>, type) = <<>>
  <2> SUFFICES ASSUME NEW type PROVE OfType(<<>>, type) = <<>>
    OBVIOUS
  <2>1. <<>> \in Seq(Nat) /\ NoneTyped(<<>>, type)
    BY DEF NoneTyped
  <2>2. QED
    BY <2>1, OfTypeNone
<1>5. ASSUME NEW type PROVE PartsOf(output, type) = OfType(said, type)
  <2> DEFINE both == [i \in DOMAIN output |-> OfType(output[i].parts, type)]
  <2>1. DOMAIN output = 1 .. 2 /\ output[1].parts = <<>> /\ output[2].parts = said
    OBVIOUS
  <2>2. PartsOf(output, type) = FlattenSeq(both)
    BY DEF PartsOf
  <2> HIDE DEF output
  <2>3. both = [i \in 1 .. 2 |-> OfType(output[i].parts, type)]
    BY <2>1
  <2>4. Len(both) = 2 /\ both[1] = OfType(<<>>, type) /\ both[2] = OfType(said, type)
    BY <2>1, <2>3
  <2> HIDE DEF both
  <2>5. FlattenSeq(both) = Join(both[1], both[2])
    BY <2>4, FlattenTwo
  <2>6. both[1] = <<>> /\ both[2] \in Seq(SaidParts)
    <3>1. <<>> \in Seq(SaidParts)
      OBVIOUS
    <3>2. OfType(said, type) \in Seq(SaidParts)
      BY <1>2, <1>3, <3>1
    <3>3. QED
      BY <1>4, <2>4, <3>2
  <2>7. Join(<<>>, both[2]) = both[2]
    BY <2>6, JoinEmpty
  <2>8. QED
    BY <2>2, <2>4, <2>5, <2>6, <2>7
<1>6. Messages(output) = <<message>>
  <2> DEFINE E == {reasoning, message}
             x == <<reasoning>>
             y == <<message>>
  <2>1. x \in Seq(E) /\ y \in Seq(E)
    OBVIOUS
  <2>2. NoneTyped(x, "message") /\ AllTyped(y, "message")
    BY DEF NoneTyped, AllTyped
  <2>3. output = Join(x, y)
    BY DEF Join
  <2> HIDE DEF E, x, y, output
  <2>4. OfType(Join(x, y), "message") = Join(OfType(x, "message"), OfType(y, "message"))
    BY <2>1, OfTypeJoin
  <2>5. OfType(x, "message") = <<>>
    BY <2>1, <2>2, OfTypeNone
  <2>6. OfType(y, "message") = y
    BY <2>1, <2>2, OfTypeAll
  <2>7. Join(<<>>, y) = y
    BY <2>1, JoinEmpty
  <2>8. QED
    BY <2>3, <2>4, <2>5, <2>6, <2>7 DEF Messages, y
<1>7. ASSUME NEW type PROVE PartsOf(<<message>>, type) = OfType(said, type)
  <2> DEFINE one == [i \in DOMAIN <<message>> |-> OfType(<<message>>[i].parts, type)]
  <2>1. PartsOf(<<message>>, type) = FlattenSeq(one)
    BY DEF PartsOf
  <2>2. DOMAIN <<message>> = 1 .. 1 /\ <<message>>[1].parts = said
    OBVIOUS
  <2>3. one = [i \in 1 .. 1 |-> OfType(<<message>>[i].parts, type)]
    BY <2>2
  <2>4. Len(one) = 1 /\ one[1] = OfType(said, type)
    BY <2>2, <2>3
  <2> HIDE DEF one
  <2>5. FlattenSeq(one) = one[1]
    BY <2>4, FlattenOne
  <2>6. QED
    BY <2>1, <2>4, <2>5
<1>8. output # <<>>
  OBVIOUS
<1> HIDE DEF output, message
<1>9. QED
  BY <1>1, <1>3, <1>5, <1>6, <1>7, <1>8 DEF said

LEMMA NothingSaid ==
  /\ \A type : PartsOf(<<>>, type) = <<>>
  /\ OutputTexts(<<>>) = Error
<1>1. ASSUME NEW type PROVE PartsOf(<<>>, type) = <<>>
  <2> DEFINE none == [i \in DOMAIN <<>> |-> OfType(<<>>[i].parts, type)]
  <2>1. PartsOf(<<>>, type) = FlattenSeq(none)
    BY DEF PartsOf
  <2>2. none = <<>> /\ Len(none) = 0
    OBVIOUS
  <2> HIDE DEF none
  <2>3. FlattenSeq(none) = none
    BY <2>2, FlattenNone
  <2>4. QED
    BY <2>1, <2>2, <2>3
<1>2. Messages(<<>>) = <<>>
  <2>1. <<>> \in Seq(Nat) /\ NoneTyped(<<>>, "message")
    BY DEF NoneTyped
  <2>2. QED
    BY <2>1, OfTypeNone DEF Messages
<1>3. QED
  BY <1>1, <1>2 DEF OutputTexts

LEMMA ResponsesRight ==
  ASSUME NEW generation \in Generations, NEW inFull,
         NEW body \in ResponseBodies(generation)
  PROVE  RightAnswer(generation, inFull, ExtractResponses(body))
<1> DEFINE output == Output(generation)
           said == PartsSaid(generation)
<1>1. /\ body.status \in ResponseStatus(generation.ending) /\ body.output = output
      /\ body.shortcut.text \in {<<>>, Whole(generation)}
  BY DEF ResponseBodies, NoShortcut, Shortcut
<1>2. /\ \A type : PartsOf(output, type) = IF type = Kind(generation) THEN said ELSE <<>>
      /\ \A type : PartsOf(Messages(output), type)
                     = IF type = Kind(generation) THEN said ELSE <<>>
  BY OutputFacts
<1>3. said # <<>> /\ TextOf(said) = Whole(generation)
  BY PartsSaidFacts
<1> HIDE DEF output, said
<1>4. generation.ending \in Endings
  BY DEF Generations
<1>5. CASE generation.ending = "completed"
  <2>1. body.status \in {"completed", Absent} /\ Kind(generation) = "output_text"
    BY <1>1, <1>5 DEF ResponseStatus, Kind
  <2>2. /\ PartsOf(output, "refusal") = <<>>
        /\ PartsOf(Messages(output), "output_text") = said
    BY <1>2, <2>1
  <2>3. OutputTexts(output) = Text(Whole(generation))
    BY <1>3, <2>2 DEF OutputTexts
  <2>4. ExtractResponses(body) = Text(Whole(generation))
    BY <1>1, <2>1, <2>2, <2>3 DEF ExtractResponses
  <2>5. QED
    BY <1>5, <2>4, WholeIsRight
<1>6. CASE generation.ending = "refused"
  <2>1. PartsOf(output, "refusal") # <<>>
    BY <1>2, <1>3, <1>6 DEF Kind
  <2>2. ExtractResponses(body) = Error
    BY <1>1, <2>1 DEF ExtractResponses
  <2>3. generation.ending # "completed"
    BY <1>6
  <2>4. QED
    BY <2>2, <2>3, ErrorIsRight
<1>7. CASE generation.ending \in {"incomplete", "filtered", "failed", "cut"}
  <2>1. body.status \in {"incomplete", "failed"}
    BY <1>1, <1>7 DEF ResponseStatus
  <2>2. ExtractResponses(body) = Error
    BY <2>1 DEF ExtractResponses, Absent
  <2>3. generation.ending # "completed"
    BY <1>7
  <2>4. QED
    BY <2>2, <2>3, ErrorIsRight
<1>8. QED
  BY <1>4, <1>5, <1>6, <1>7 DEF Endings

-----------------------------------------------------------------------------
(* Texts joined by their keys.                                             *)
DeltaType == "response.output_text.delta"
DoneType == "response.output_text.done"
CompletedType == "response.completed"

TextEvents ==
  [type : {"response.output_text.delta", "response.output_text.done"},
   key : {1, 2}, text : Seq(Nat)]

Order(keys) ==
  CHOOSE s \in SetToSeqs(keys) : \A i, j \in DOMAIN s : i < j => s[i] < s[j]

\* What events of a type say: the last of them when they are done events.
Said(type, events) == IF type = DoneType THEN Last(events).text ELSE TextOf(events)
SaidByKey(type, events) == IF type = DoneType THEN DoneText(events) ELSE TextDeltas(events)

LEMMA SaidOfKey ==
  ASSUME NEW type, NEW events
  PROVE  SaidByKey(type, events) = [k \in Keys(events) |-> Said(type, OfKey(events, k))]
BY DEF Said, SaidByKey, DoneText, TextDeltas

LEMMA OrderOne == Order({1}) = <<1>>
<1>1. Cardinality({1}) = 1
  BY FS_Singleton
<1>2. SetToSeqs({1}) = {f \in [1 .. 1 -> {1}] : \A i, j \in 1 .. 1 : i # j => f[i] # f[j]}
  BY <1>1 DEF SetToSeqs
<1>3. \A f \in SetToSeqs({1}) : f = <<1>>
  BY <1>2
<1>4. <<1>> \in SetToSeqs({1})
  <2>1. <<1>> \in [1 .. 1 -> {1}] /\ \A i, j \in 1 .. 1 : i = j
    OBVIOUS
  <2>2. QED
    BY <1>2, <2>1
<1>5. \A i, j \in DOMAIN <<1>> : i < j => <<1>>[i] < <<1>>[j]
  OBVIOUS
<1>6. QED
  BY <1>3, <1>4, <1>5 DEF Order

LEMMA OrderTwo == Order({1, 2}) = <<1, 2>>
<1> DEFINE Rises(s) == \A i, j \in DOMAIN s : i < j => s[i] < s[j]
<1>1. Cardinality({1, 2}) = 2
  <2>1. IsFiniteSet({1}) /\ Cardinality({1}) = 1
    BY FS_Singleton
  <2>2. 2 \notin {1} /\ {1, 2} = {1} \cup {2}
    OBVIOUS
  <2>3. QED
    BY <2>1, <2>2, FS_AddElement
<1>2. SetToSeqs({1, 2})
        = {f \in [1 .. 2 -> {1, 2}] : \A i, j \in 1 .. 2 : i # j => f[i] # f[j]}
  BY <1>1 DEF SetToSeqs
<1>3. ASSUME NEW f \in SetToSeqs({1, 2}), Rises(f) PROVE f = <<1, 2>>
  <2>1. f \in [1 .. 2 -> {1, 2}]
    BY <1>2
  <2>2. f[1] < f[2] /\ f[1] \in {1, 2} /\ f[2] \in {1, 2}
    BY <1>3, <2>1
  <2>3. f[1] = 1 /\ f[2] = 2
    BY <2>2
  <2>4. f = [i \in 1 .. 2 |-> f[i]] /\ <<1, 2>> = [i \in 1 .. 2 |-> <<1, 2>>[i]]
    BY <2>1
  <2>5. \A i \in 1 .. 2 : f[i] = <<1, 2>>[i]
    <3>1. \A i \in 1 .. 2 : i = 1 \/ i = 2
      OBVIOUS
    <3>2. QED
      BY <2>3, <3>1
  <2>6. QED
    BY <2>4, <2>5
<1>4. <<1, 2>> \in SetToSeqs({1, 2})
  <2>1. <<1, 2>> \in [1 .. 2 -> {1, 2}]
    OBVIOUS
  <2>2. \A i, j \in 1 .. 2 : i # j => <<1, 2>>[i] # <<1, 2>>[j]
    <3>1. \A i \in 1 .. 2 : i = 1 \/ i = 2
      OBVIOUS
    <3>2. QED
      BY <3>1
  <2>3. QED
    BY <1>2, <2>1, <2>2
<1>5. Rises(<<1, 2>>)
  OBVIOUS
<1>6. Order({1, 2}) = CHOOSE s \in SetToSeqs({1, 2}) : Rises(s)
  BY DEF Order
<1> HIDE DEF Rises
<1>7. QED
  BY <1>3, <1>4, <1>5, <1>6

LEMMA InOrderIs ==
  ASSUME NEW keys, NEW texts, DOMAIN texts = keys
  PROVE  InOrder(texts) = FlattenSeq([i \in DOMAIN Order(keys) |-> texts[Order(keys)[i]]])
BY DEF InOrder, Order

LEMMA ToSetJoin ==
  ASSUME NEW E, NEW x \in Seq(E), NEW y \in Seq(E)
  PROVE  ToSet(Join(x, y)) = ToSet(x) \cup ToSet(y)
<1> DEFINE m == Len(x)
           n == Len(y)
           z == Join(x, y)
<1>1. m \in Nat /\ DOMAIN x = 1 .. m /\ n \in Nat /\ DOMAIN y = 1 .. n
  OBVIOUS
<1>2. z \in Seq(E) /\ Len(z) = m + n
  BY JoinFacts
<1>3. \A i \in 1 .. m : z[i] = x[i]
  BY JoinFacts
<1>4. \A i \in 1 .. n : z[m + i] = y[i]
  BY JoinFacts
<1> HIDE DEF m, n, z
<1>5. DOMAIN z = 1 .. m + n
  BY <1>2
<1>6. ASSUME NEW i \in DOMAIN z PROVE z[i] \in ToSet(x) \cup ToSet(y)
  <2>1. CASE i <= m
    BY <1>1, <1>3, <1>5, <2>1 DEF ToSet
  <2>2. CASE ~(i <= m)
    <3> DEFINE j == i - m
    <3>1. j \in 1 .. n /\ i = m + j
      BY <1>1, <1>5, <2>2
    <3> HIDE DEF j
    <3>2. z[m + j] = y[j] /\ y[j] \in ToSet(y)
      BY <1>1, <1>4, <3>1 DEF ToSet
    <3>3. QED
      BY <1>1, <3>1, <3>2
  <2>3. QED
    BY <2>1, <2>2
<1>7. ASSUME NEW i \in DOMAIN x PROVE x[i] \in ToSet(z)
  <2>1. i \in DOMAIN z /\ z[i] = x[i]
    BY <1>1, <1>3, <1>5
  <2>2. QED
    BY <2>1 DEF ToSet
<1>8. ASSUME NEW i \in DOMAIN y PROVE y[i] \in ToSet(z)
  <2>1. m + i \in DOMAIN z /\ z[m + i] = y[i]
    BY <1>1, <1>4, <1>5
  <2>2. z[m + i] \in ToSet(z)
    BY <2>1 DEF ToSet
  <2>3. QED
    BY <2>1, <2>2
<1>9. ToSet(z) \subseteq ToSet(x) \cup ToSet(y)
  BY <1>6 DEF ToSet
<1>10. ToSet(x) \subseteq ToSet(z) /\ ToSet(y) \subseteq ToSet(z)
  BY <1>7, <1>8 DEF ToSet
<1>11. QED
  BY <1>9, <1>10 DEF z

LEMMA KeysOf ==
  ASSUME NEW E, NEW x \in Seq(E), x # <<>>, NEW k, AllKeyed(x, k)
  PROVE  Keys(x) = {k}
<1>1. 1 \in DOMAIN x /\ DOMAIN x = 1 .. Len(x)
  BY EmptySeq
<1>2. \A i \in DOMAIN x : x[i].key = k
  BY <1>1 DEF AllKeyed
<1>3. x[1] \in ToSet(x) /\ \A e \in ToSet(x) : e.key = k
  BY <1>1, <1>2 DEF ToSet
<1>4. QED
  BY <1>3 DEF Keys

LEMMA InOrderOne ==
  ASSUME NEW type, NEW x \in Seq(TextEvents), x # <<>>, AllKeyed(x, 1)
  PROVE  InOrder(SaidByKey(type, x)) = Said(type, x)
<1> DEFINE texts == SaidByKey(type, x)
           all == [i \in DOMAIN Order({1}) |-> texts[Order({1})[i]]]
<1>1. Keys(x) = {1}
  BY KeysOf
<1>2. OfKey(x, 1) = x
  BY OfKeyAll
<1>3. DOMAIN texts = {1} /\ texts[1] = Said(type, x)
  BY <1>1, <1>2, SaidOfKey
<1> HIDE DEF texts
<1>4. InOrder(texts) = FlattenSeq(all)
  BY <1>3, InOrderIs
<1>5. DOMAIN Order({1}) = 1 .. 1 /\ Order({1})[1] = 1
  BY OrderOne
<1>6. Len(all) = 1 /\ all[1] = texts[1]
  BY <1>5
<1> HIDE DEF all
<1>7. FlattenSeq(all) = all[1]
  BY <1>6, FlattenOne
<1>8. QED
  BY <1>3, <1>4, <1>6, <1>7 DEF texts

LEMMA InOrderTwo ==
  ASSUME NEW type, NEW x \in Seq(TextEvents), x # <<>>, AllKeyed(x, 1),
         NEW y \in Seq(TextEvents), y # <<>>, AllKeyed(y, 2),
         NEW z \in {Join(x, y), Join(y, x)}
  PROVE  InOrder(SaidByKey(type, z)) = Join(Said(type, x), Said(type, y))
<1>1. OfKey(x, 1) = x /\ OfKey(y, 2) = y
  BY OfKeyAll
<1>2. OfKey(x, 2) = <<>>
  <2>1. 1 # 2
    OBVIOUS
  <2>2. QED
    BY <2>1, OfKeyNone
<1>3. OfKey(y, 1) = <<>>
  <2>1. 2 # 1
    OBVIOUS
  <2>2. QED
    BY <2>1, OfKeyNone
<1>4. OfKey(z, 1) = x
  <2>1. OfKey(Join(x, y), 1) = Join(OfKey(x, 1), OfKey(y, 1))
    BY OfKeyJoin
  <2>2. OfKey(Join(y, x), 1) = Join(OfKey(y, 1), OfKey(x, 1))
    BY OfKeyJoin
  <2>3. Join(x, <<>>) = x /\ Join(<<>>, x) = x
    BY JoinEmpty
  <2>4. QED
    BY <1>1, <1>3, <2>1, <2>2, <2>3
<1>5. OfKey(z, 2) = y
  <2>1. OfKey(Join(x, y), 2) = Join(OfKey(x, 2), OfKey(y, 2))
    BY OfKeyJoin
  <2>2. OfKey(Join(y, x), 2) = Join(OfKey(y, 2), OfKey(x, 2))
    BY OfKeyJoin
  <2>3. Join(y, <<>>) = y /\ Join(<<>>, y) = y
    BY JoinEmpty
  <2>4. QED
    BY <1>1, <1>2, <2>1, <2>2, <2>3
<1>6. Keys(z) = {1, 2}
  <2>1. ToSet(Join(x, y)) = ToSet(x) \cup ToSet(y)
    BY ToSetJoin
  <2>2. ToSet(Join(y, x)) = ToSet(y) \cup ToSet(x)
    BY ToSetJoin
  <2>3. ToSet(z) = ToSet(x) \cup ToSet(y)
    BY <2>1, <2>2
  <2>4. Keys(x) = {1}
    BY KeysOf
  <2>5. Keys(y) = {2}
    BY KeysOf
  <2>6. QED
    BY <2>3, <2>4, <2>5 DEF Keys
<1> DEFINE keys == {1, 2}
           texts == SaidByKey(type, z)
           all == [i \in DOMAIN Order(keys) |-> texts[Order(keys)[i]]]
<1>7. DOMAIN texts = keys /\ texts[1] = Said(type, x) /\ texts[2] = Said(type, y)
  BY <1>4, <1>5, <1>6, SaidOfKey
<1> HIDE DEF texts
<1>8. InOrder(texts) = FlattenSeq(all)
  BY <1>7, InOrderIs
<1>9. DOMAIN Order(keys) = 1 .. 2 /\ Order(keys)[1] = 1 /\ Order(keys)[2] = 2
  BY OrderTwo
<1>10. Len(all) = 2 /\ all[1] = texts[1] /\ all[2] = texts[2]
  BY <1>9
<1> HIDE DEF all
<1>11. FlattenSeq(all) = Join(all[1], all[2])
  BY <1>10, FlattenTwo
<1>12. QED
  BY <1>7, <1>8, <1>10, <1>11 DEF texts

-----------------------------------------------------------------------------
(* What a stream tells of a part.                                          *)
Deltas(i, t) == [k \in DOMAIN t |-> Delta(i, t[k])]

\* x tells the text t under key i, in events of a type.
Tells(x, i, t, type) ==
  /\ x \in Seq(TextEvents) /\ x # <<>>
  /\ AllTyped(x, type) /\ AllKeyed(x, i) /\ Said(type, x) = t

LEMMA DeltasTell ==
  ASSUME NEW i \in {1, 2}, NEW t \in Seq(Nat), t # <<>>
  PROVE  Tells(Deltas(i, t), i, t, DeltaType)
<1> DEFINE n == Len(t)
           x == Deltas(i, t)
<1>1. n \in Nat \ {0} /\ DOMAIN t = 1 .. n /\ \A k \in 1 .. n : t[k] \in Nat
  BY EmptySeq
<1>2. x = [k \in 1 .. n |-> Delta(i, t[k])]
  BY <1>1 DEF Deltas
<1> HIDE DEF n, x
<1>3. \A k \in 1 .. n : Delta(i, t[k]) \in TextEvents
  <2> SUFFICES ASSUME NEW k \in 1 .. n PROVE Delta(i, t[k]) \in TextEvents
    OBVIOUS
  <2>1. <<t[k]>> \in Seq(Nat)
    BY <1>1
  <2>2. QED
    BY <2>1 DEF Delta, TextEvents
<1>4. x \in [1 .. n -> TextEvents]
  BY <1>2, <1>3
<1>5. x \in Seq(TextEvents) /\ Len(x) = n /\ DOMAIN x = 1 .. n
  BY <1>1, <1>4
<1>6. \A k \in 1 .. n : x[k].type = DeltaType /\ x[k].key = i /\ x[k].text = <<t[k]>>
  BY <1>2 DEF Delta, DeltaType
<1>7. [k \in DOMAIN x |-> x[k].text] = [k \in DOMAIN t |-> <<t[k]>>]
  BY <1>1, <1>5, <1>6
<1>8. TextOf(x) = t
  <2>1. FlattenSeq([k \in DOMAIN t |-> <<t[k]>>]) = t
    BY FlattenTokens
  <2>2. QED
    BY <1>7, <2>1, Zenon DEF TextOf
<1>9. x # <<>>
  BY <1>1, <1>5
<1>10. AllTyped(x, DeltaType) /\ AllKeyed(x, i)
  BY <1>5, <1>6 DEF AllTyped, AllKeyed
<1>11. Said(DeltaType, x) = t
  BY <1>8 DEF Said, DeltaType, DoneType
<1>12. QED
  BY <1>5, <1>9, <1>10, <1>11 DEF Tells, x

LEMMA DoneTells ==
  ASSUME NEW i \in {1, 2}, NEW t \in Seq(Nat)
  PROVE  Tells(<<Done(i, t)>>, i, t, DoneType)
<1> DEFINE e == Done(i, t)
           x == <<e>>
<1>1. e \in TextEvents /\ e.type = DoneType /\ e.key = i /\ e.text = t
  BY DEF Done, TextEvents, DoneType
<1> HIDE DEF e
<1>2. x \in Seq(TextEvents) /\ x # <<>> /\ Len(x) = 1 /\ x[1] = e
  BY <1>1
<1> HIDE DEF x
<1>3. \A k \in 1 .. Len(x) : x[k] = e
  BY <1>2
<1>4. AllTyped(x, DoneType) /\ AllKeyed(x, i)
  BY <1>1, <1>3 DEF AllTyped, AllKeyed
<1>5. Said(DoneType, x) = t
  BY <1>1, <1>2 DEF Said, Last
<1>6. QED
  BY <1>2, <1>4, <1>5 DEF Tells, x, e

\* What x says under key i: in deltas, and once more when the part is done.
TellsPart(x, i, t, done) ==
  /\ x \in Seq(TextEvents)
  /\ NoneTyped(x, CompletedType)
  /\ Tells(OfType(x, DeltaType), i, t, DeltaType)
  /\ IF done THEN Tells(OfType(x, DoneType), i, t, DoneType)
     ELSE OfType(x, DoneType) = <<>>

LEMMA TextEventTypes ==
  ASSUME NEW x \in Seq(TextEvents)
  PROVE  \A i \in 1 .. Len(x) : x[i].type \in {DeltaType, DoneType}
<1>1. \A i \in 1 .. Len(x) : x[i] \in TextEvents
  OBVIOUS
<1>2. \A e \in TextEvents : e.type \in {DeltaType, DoneType}
  BY DEF TextEvents, DeltaType, DoneType
<1>3. QED
  BY <1>1, <1>2

LEMMA PartTold ==
  ASSUME NEW t \in Texts, NEW i \in {1, 2}, NEW done \in BOOLEAN
  PROVE  TellsPart(PartEvents(t, i, done), i, t, done)
<1> DEFINE x == Deltas(i, t)
           y == IF done THEN <<Done(i, t)>> ELSE <<>>
           z == PartEvents(t, i, done)
<1>2. z = Join(x, y)
  BY DEF PartEvents, Join, Deltas
<1> HIDE DEF x, y, z
<1>3. t \in Seq(Nat) /\ t # <<>>
  BY TextsTyped
<1>4. Tells(x, i, t, DeltaType)
  BY <1>3, DeltasTell DEF x
<1>5. x \in Seq(TextEvents) /\ AllTyped(x, DeltaType)
  BY <1>4 DEF Tells
<1>6. DeltaType # DoneType
  BY DEF DeltaType, DoneType
<1>7. OfType(x, DeltaType) = x /\ OfType(x, DoneType) = <<>>
  <2>1. NoneTyped(x, DoneType)
    BY <1>5, <1>6 DEF AllTyped, NoneTyped
  <2>2. OfType(x, DeltaType) = x
    BY <1>5, OfTypeAll
  <2>3. OfType(x, DoneType) = <<>>
    BY <1>5, <2>1, OfTypeNone
  <2>4. QED
    BY <2>2, <2>3
<1>8. /\ y \in Seq(TextEvents) /\ OfType(y, DeltaType) = <<>> /\ OfType(y, DoneType) = y
      /\ IF done THEN Tells(y, i, t, DoneType) ELSE y = <<>>
  <2>1. CASE done
    <3>1. Tells(y, i, t, DoneType)
      BY <1>3, <2>1, DoneTells DEF y
    <3>2. y \in Seq(TextEvents) /\ AllTyped(y, DoneType)
      BY <3>1 DEF Tells
    <3>3. NoneTyped(y, DeltaType)
      BY <1>6, <3>2 DEF AllTyped, NoneTyped
    <3>4. OfType(y, DoneType) = y
      BY <3>2, OfTypeAll
    <3>5. OfType(y, DeltaType) = <<>>
      BY <3>2, <3>3, OfTypeNone
    <3>6. QED
      BY <2>1, <3>1, <3>2, <3>4, <3>5
  <2>2. CASE ~done
    <3>1. y = <<>> /\ y \in Seq(TextEvents)
      BY <2>2 DEF y
    <3>2. NoneTyped(y, DeltaType) /\ NoneTyped(y, DoneType)
      BY <3>1 DEF NoneTyped
    <3>3. OfType(y, DoneType) = <<>>
      BY <3>1, <3>2, OfTypeNone
    <3>4. OfType(y, DeltaType) = <<>>
      BY <3>1, <3>2, OfTypeNone
    <3>5. QED
      BY <2>2, <3>1, <3>3, <3>4
  <2>3. QED
    BY <2>1, <2>2
<1>9. z \in Seq(TextEvents)
  BY <1>2, <1>5, <1>8, JoinFacts
<1>10. OfType(z, DeltaType) = x
  <2>1. OfType(Join(x, y), DeltaType) = Join(OfType(x, DeltaType), OfType(y, DeltaType))
    BY <1>5, <1>8, OfTypeJoin
  <2>2. Join(x, <<>>) = x
    BY <1>5, JoinEmpty
  <2>3. QED
    BY <1>2, <1>7, <1>8, <2>1, <2>2
<1>11. OfType(z, DoneType) = y
  <2>1. OfType(Join(x, y), DoneType) = Join(OfType(x, DoneType), OfType(y, DoneType))
    BY <1>5, <1>8, OfTypeJoin
  <2>2. Join(<<>>, y) = y
    BY <1>8, JoinEmpty
  <2>3. QED
    BY <1>2, <1>7, <1>8, <2>1, <2>2
<1>12. NoneTyped(z, CompletedType)
  BY <1>9, TextEventTypes DEF NoneTyped, CompletedType, DeltaType, DoneType
<1>13. QED
  BY <1>4, <1>8, <1>9, <1>10, <1>11, <1>12 DEF TellsPart, z

\* What text says of a generation, its parts taking turns.
TextOnly(text) == text \in Seq(TextEvents) /\ OfType(text, CompletedType) = <<>>

TellsAll(text, generation, done) ==
  /\ OfType(text, DeltaType) # <<>>
  /\ InOrder(TextDeltas(OfType(text, DeltaType))) = Whole(generation)
  /\ IF done THEN /\ OfType(text, DoneType) # <<>>
                  /\ InOrder(DoneText(OfType(text, DoneType))) = Whole(generation)
     ELSE OfType(text, DoneType) = <<>>

LEMMA TextEventsOnly ==
  ASSUME NEW text \in Seq(TextEvents) PROVE TextOnly(text)
<1>1. NoneTyped(text, CompletedType)
  BY TextEventTypes DEF NoneTyped, CompletedType, DeltaType, DoneType
<1>2. QED
  BY <1>1, OfTypeNone DEF TextOnly

LEMMA SaidTypes ==
  /\ \A events : SaidByKey(DeltaType, events) = TextDeltas(events)
  /\ \A events : SaidByKey(DoneType, events) = DoneText(events)
BY DEF SaidByKey, DeltaType, DoneType

LEMMA TwoTell ==
  ASSUME NEW x, NEW y, NEW t, NEW u, NEW type,
         Tells(x, 1, t, type), Tells(y, 2, u, type), NEW z \in {Join(x, y), Join(y, x)}
  PROVE  z # <<>> /\ InOrder(SaidByKey(type, z)) = Join(t, u)
<1>1. /\ x \in Seq(TextEvents) /\ x # <<>> /\ AllKeyed(x, 1) /\ Said(type, x) = t
      /\ y \in Seq(TextEvents) /\ y # <<>> /\ AllKeyed(y, 2) /\ Said(type, y) = u
  BY DEF Tells
<1>2. InOrder(SaidByKey(type, z)) = Join(Said(type, x), Said(type, y))
  BY <1>1, InOrderTwo
<1>3. Join(x, y) # <<>> /\ Join(y, x) # <<>>
  <2>1. Join(x, y) # <<>>
    BY <1>1, JoinNotEmpty
  <2>2. Join(y, x) # <<>>
    BY <1>1, JoinNotEmpty
  <2>3. QED
    BY <2>1, <2>2
<1>4. QED
  BY <1>1, <1>2, <1>3

LEMMA OneTold ==
  ASSUME NEW generation \in Generations, OneOf(generation.parts), NEW done \in BOOLEAN,
         NEW text, TellsPart(text, 1, generation.parts[1], done)
  PROVE  TellsAll(text, generation, done)
<1> DEFINE t == generation.parts[1]
           x == OfType(text, DeltaType)
           y == OfType(text, DoneType)
<1>1. /\ Tells(x, 1, t, DeltaType)
      /\ IF done THEN Tells(y, 1, t, DoneType) ELSE y = <<>>
  BY DEF TellsPart
<1>2. Whole(generation) = t
  BY WholeText
<1> HIDE DEF t, x, y
<1>3. ASSUME NEW z, NEW type, Tells(z, 1, t, type)
      PROVE  z # <<>> /\ InOrder(SaidByKey(type, z)) = t
  BY <1>3, InOrderOne DEF Tells
<1>4. x # <<>> /\ InOrder(TextDeltas(x)) = t
  BY <1>1, <1>3, SaidTypes
<1>5. done => y # <<>> /\ InOrder(DoneText(y)) = t
  BY <1>1, <1>3, SaidTypes
<1>6. QED
  BY <1>1, <1>2, <1>4, <1>5 DEF TellsAll, x, y

LEMMA TwoTold ==
  ASSUME NEW generation \in Generations, TwoOf(generation.parts), NEW done \in BOOLEAN,
         NEW a, TellsPart(a, 1, generation.parts[1], done),
         NEW b, TellsPart(b, 2, generation.parts[2], done),
         NEW text \in {Join(a, b), Join(b, a)}
  PROVE  TellsAll(text, generation, done)
<1> DEFINE t == generation.parts[1]
           u == generation.parts[2]
<1>1. /\ a \in Seq(TextEvents)
      /\ Tells(OfType(a, DeltaType), 1, t, DeltaType)
      /\ IF done THEN Tells(OfType(a, DoneType), 1, t, DoneType)
         ELSE OfType(a, DoneType) = <<>>
  BY DEF TellsPart
<1>2. /\ b \in Seq(TextEvents)
      /\ Tells(OfType(b, DeltaType), 2, u, DeltaType)
      /\ IF done THEN Tells(OfType(b, DoneType), 2, u, DoneType)
         ELSE OfType(b, DoneType) = <<>>
  BY DEF TellsPart
<1>3. Whole(generation) = Join(t, u)
  BY WholeText
<1> HIDE DEF t, u
<1>6. \A type : OfType(text, type) \in {Join(OfType(a, type), OfType(b, type)),
                                        Join(OfType(b, type), OfType(a, type))}
  <2> SUFFICES ASSUME NEW type
               PROVE  OfType(text, type) \in {Join(OfType(a, type), OfType(b, type)),
                                              Join(OfType(b, type), OfType(a, type))}
    OBVIOUS
  <2>1. OfType(Join(a, b), type) = Join(OfType(a, type), OfType(b, type))
    BY <1>1, <1>2, OfTypeJoin
  <2>2. OfType(Join(b, a), type) = Join(OfType(b, type), OfType(a, type))
    BY <1>1, <1>2, OfTypeJoin
  <2>3. QED
    BY <2>1, <2>2
<1> DEFINE Both(type) == /\ OfType(text, type) # <<>>
                          /\ InOrder(SaidByKey(type, OfType(text, type))) = Join(t, u)
<1>4. ASSUME NEW type, Tells(OfType(a, type), 1, t, type), Tells(OfType(b, type), 2, u, type)
      PROVE  Both(type)
  <2> DEFINE x == OfType(a, type)
             y == OfType(b, type)
             z == OfType(text, type)
  <2>1. Tells(x, 1, t, type) /\ Tells(y, 2, u, type) /\ z \in {Join(x, y), Join(y, x)}
    BY <1>4, <1>6
  <2> HIDE DEF x, y, z
  <2>2. z # <<>> /\ InOrder(SaidByKey(type, z)) = Join(t, u)
    BY <2>1, TwoTell
  <2>3. QED
    BY <2>2 DEF z
<1>7. /\ OfType(text, DeltaType) # <<>>
      /\ InOrder(TextDeltas(OfType(text, DeltaType))) = Join(t, u)
  <2>1. Both(DeltaType)
    BY <1>1, <1>2, <1>4
  <2>2. QED
    BY <2>1, SaidTypes
<1>8. CASE done
  <2>1. /\ OfType(text, DoneType) # <<>>
        /\ InOrder(DoneText(OfType(text, DoneType))) = Join(t, u)
    <3>1. Both(DoneType)
      BY <1>1, <1>2, <1>4, <1>8
    <3>2. QED
      BY <3>1, SaidTypes
  <2>2. QED
    BY <1>3, <1>7, <1>8, <2>1 DEF TellsAll
<1>9. CASE ~done
  <2>1. Join(<<>>, <<>>) = <<>>
    <3>1. <<>> \in Seq(Nat)
      OBVIOUS
    <3>2. QED
      BY <3>1, JoinEmpty
  <2>2. OfType(text, DoneType) = <<>>
    BY <1>1, <1>2, <1>6, <1>9, <2>1
  <2>3. QED
    BY <1>3, <1>7, <1>9, <2>2 DEF TellsAll
<1>10. QED
  BY <1>8, <1>9

-----------------------------------------------------------------------------
(* Streams.                                                                *)
Events(generation, telling, done) ==
  [i \in DOMAIN generation.parts |->
     PartEvents(generation.parts[i], KeyOf(i, telling), done)]
Told(generation, telling, done) ==
  {FlattenSeq(Events(generation, telling, done)),
   FlattenSeq(Reverse(Events(generation, telling, done)))}

LEMMA ToldTells ==
  ASSUME NEW generation \in Generations, NEW telling \in Tellings, NEW done \in BOOLEAN,
         NEW text \in Told(generation, telling, done)
  PROVE  /\ TextOnly(text)
         /\ telling.keyed \/ OneOf(generation.parts) => TellsAll(text, generation, done)
<1> DEFINE parts == generation.parts
           Part(i) == PartEvents(parts[i], KeyOf(i, telling), done)
           events == Events(generation, telling, done)
           back == Reverse(events)
<1>1. text \in {FlattenSeq(events), FlattenSeq(back)} /\ events = [i \in DOMAIN parts |-> Part(i)]
  BY DEF Told, Events
<1>2. OneOf(parts) \/ TwoOf(parts)
  BY PartsTyped
<1>3. KeyOf(1, telling) = 1 /\ KeyOf(2, telling) \in {1, 2}
      /\ (telling.keyed => KeyOf(2, telling) = 2)
  BY DEF KeyOf
<1>4. ASSUME NEW i \in {1, 2}, parts[i] \in Texts
      PROVE  /\ TellsPart(Part(i), KeyOf(i, telling), parts[i], done)
             /\ Part(i) \in Seq(TextEvents)
  <2>1. KeyOf(i, telling) \in {1, 2}
    BY <1>3
  <2>2. TellsPart(Part(i), KeyOf(i, telling), parts[i], done)
    BY <1>4, <2>1, PartTold
  <2>3. QED
    BY <2>2 DEF TellsPart
<1> HIDE DEF Part, events, parts
<1>5. ASSUME OneOf(parts) PROVE TextOnly(text) /\ TellsAll(text, generation, done)
  <2>1. DOMAIN parts = 1 .. 1 /\ parts[1] \in Texts
    BY <1>5 DEF OneOf
  <2>2. TellsPart(Part(1), 1, parts[1], done) /\ Part(1) \in Seq(TextEvents)
    BY <1>3, <1>4, <2>1
  <2>3. events = [i \in 1 .. 1 |-> Part(i)]
    BY <1>1, <2>1
  <2>4. Len(events) = 1 /\ events[1] = Part(1)
    BY <2>3
  <2>5. back = [i \in 1 .. 1 |-> events[1 - i + 1]]
    BY <2>4 DEF Reverse
  <2>6. Len(back) = 1 /\ back[1] = Part(1)
    BY <2>4, <2>5
  <2> HIDE DEF back
  <2>7. FlattenSeq(events) = events[1] /\ FlattenSeq(back) = back[1]
    BY <2>4, <2>6, FlattenOne
  <2>8. text = Part(1)
    BY <1>1, <2>4, <2>6, <2>7
  <2>9. TellsAll(text, generation, done)
    BY <1>5, <2>2, <2>8, OneTold DEF parts
  <2>10. QED
    BY <2>2, <2>8, <2>9, TextEventsOnly
<1>6. ASSUME TwoOf(parts)
      PROVE  TextOnly(text) /\ (telling.keyed => TellsAll(text, generation, done))
  <2>1. DOMAIN parts = 1 .. 2 /\ parts[1] \in Texts /\ parts[2] \in Texts
    BY <1>6 DEF TwoOf
  <2>2. TellsPart(Part(1), 1, parts[1], done) /\ Part(1) \in Seq(TextEvents)
    BY <1>3, <1>4, <2>1
  <2>3. TellsPart(Part(2), KeyOf(2, telling), parts[2], done) /\ Part(2) \in Seq(TextEvents)
    BY <1>4, <2>1
  <2>4. events = [i \in 1 .. 2 |-> Part(i)]
    BY <1>1, <2>1
  <2>5. Len(events) = 2 /\ events[1] = Part(1) /\ events[2] = Part(2)
    BY <2>4
  <2>6. back = [i \in 1 .. 2 |-> events[2 - i + 1]]
    BY <2>5 DEF Reverse
  <2>7. Len(back) = 2 /\ back[1] = Part(2) /\ back[2] = Part(1)
    BY <2>5, <2>6
  <2> HIDE DEF back
  <2>8. FlattenSeq(events) = Join(events[1], events[2])
    BY <2>5, FlattenTwo
  <2>9. FlattenSeq(back) = Join(back[1], back[2])
    BY <2>7, FlattenTwo
  <2>10. text \in {Join(Part(1), Part(2)), Join(Part(2), Part(1))}
    BY <1>1, <2>5, <2>7, <2>8, <2>9
  <2>11. TextOnly(text)
    <3>1. Join(Part(1), Part(2)) \in Seq(TextEvents)
      BY <2>2, <2>3, JoinFacts
    <3>2. Join(Part(2), Part(1)) \in Seq(TextEvents)
      BY <2>2, <2>3, JoinFacts
    <3>3. QED
      BY <2>10, <3>1, <3>2, TextEventsOnly
  <2>12. ASSUME telling.keyed PROVE TellsAll(text, generation, done)
    <3>1. TellsPart(Part(2), 2, parts[2], done)
      BY <1>3, <2>3, <2>12
    <3>2. QED
      BY <1>6, <2>2, <2>10, <3>1, TwoTold DEF parts
  <2>13. QED
    BY <2>11, <2>12
<1>7. ~(OneOf(parts) /\ TwoOf(parts))
  BY DEF OneOf, TwoOf
<1>8. QED
  BY <1>2, <1>5, <1>6, <1>7 DEF parts

LEMMA StreamIs ==
  ASSUME NEW generation, NEW telling, NEW stream \in Streams(generation, telling)
  PROVE  \E text :
           /\ stream = Join(text, LastEvents(generation, telling))
           /\ IF generation.ending = "refused" THEN text = <<>>
              ELSE text \in Told(generation, telling, TRUE) \cup Told(generation, telling, FALSE)
<1> DEFINE texts == IF generation.ending = "refused" THEN {<<>>}
                    ELSE Told(generation, telling, TRUE) \cup Told(generation, telling, FALSE)
<1>1. Streams(generation, telling) = {text \o LastEvents(generation, telling) : text \in texts}
  BY DEF Streams, Told, Events
<1> HIDE DEF texts
<1>2. PICK text \in texts : stream = text \o LastEvents(generation, telling)
  BY <1>1
<1>3. stream = Join(text, LastEvents(generation, telling))
  BY <1>2, Zenon DEF Join
<1>4. QED
  BY <1>3 DEF texts

\* The last event of a stream.
LEMMA LastOf ==
  ASSUME NEW E, NEW x \in Seq(E), NEW e \in E
  PROVE  LET n == Len(Join(x, <<e>>)) IN
         /\ n \in DOMAIN Join(x, <<e>>) /\ Join(x, <<e>>)[n] = e
         /\ \A i \in DOMAIN Join(x, <<e>>) : i = n \/ (i \in 1 .. Len(x) /\ Join(x, <<e>>)[i] = x[i])
<1> DEFINE m == Len(x)
           y == <<e>>
           z == Join(x, y)
<1>1. m \in Nat /\ y \in Seq(E) /\ Len(y) = 1 /\ y[1] = e
  OBVIOUS
<1> HIDE DEF y
<1>2. z \in Seq(E) /\ Len(z) = m + 1
  <2>1. x \in Seq(E) /\ y \in Seq(E)
    BY <1>1
  <2>2. Join(x, y) \in Seq(E) /\ Len(Join(x, y)) = Len(x) + Len(y)
    BY <2>1, JoinFacts
  <2>3. QED
    BY <1>1, <2>2
<1>3. \A i \in 1 .. m : z[i] = x[i]
  <2>1. x \in Seq(E) /\ y \in Seq(E)
    BY <1>1
  <2>2. \A i \in 1 .. Len(x) : Join(x, y)[i] = x[i]
    BY <2>1, JoinFacts
  <2>3. QED
    BY <2>2
<1>4. \A i \in 1 .. Len(y) : z[m + i] = y[i]
  <2>1. x \in Seq(E) /\ y \in Seq(E)
    BY <1>1
  <2>2. \A i \in 1 .. Len(y) : Join(x, y)[Len(x) + i] = y[i]
    BY <2>1, JoinFacts
  <2>3. QED
    BY <2>2
<1>5. z[m + 1] = e
  <2>1. 1 \in 1 .. Len(y)
    BY <1>1
  <2>2. z[m + 1] = y[1]
    BY <1>4, <2>1
  <2>3. QED
    BY <1>1, <2>2
<1> HIDE DEF m, z
<1>6. DOMAIN z = 1 .. m + 1
  BY <1>1, <1>2
<1>7. \A i \in DOMAIN z : i = m + 1 \/ (i \in 1 .. m /\ z[i] = x[i])
  <2> SUFFICES ASSUME NEW i \in DOMAIN z, i # m + 1 PROVE i \in 1 .. m /\ z[i] = x[i]
    OBVIOUS
  <2>1. i \in 1 .. m
    BY <1>1, <1>6
  <2>2. QED
    BY <1>3, <2>1
<1>8. m + 1 \in DOMAIN z
  BY <1>1, <1>6
<1>9. QED
  BY <1>2, <1>5, <1>7, <1>8 DEF m, z, y

LEMMA FailureTold ==
  ASSUME NEW text \in Seq(TextEvents), NEW e, e.type \in FailureEvents
  PROVE  ExtractStream(Join(text, <<e>>)) = Error
<1> DEFINE E == TextEvents \cup {e}
           z == Join(text, <<e>>)
<1>1. text \in Seq(E) /\ e \in E
  BY SeqMonotonic
<1> HIDE DEF E
<1>2. Len(z) \in DOMAIN z /\ z[Len(z)] = e
  BY <1>1, LastOf
<1> HIDE DEF z
<1>3. ReportsFailure(z)
  BY <1>2 DEF ReportsFailure
<1>4. QED
  BY <1>3 DEF ExtractStream, z

LEMMA CompletedTold ==
  ASSUME NEW text \in Seq(TextEvents), OfType(text, CompletedType) = <<>>,
         NEW e, e.type = CompletedType
  PROVE  /\ \A type \in {DeltaType, DoneType} :
              OfType(Join(text, <<e>>), type) = OfType(text, type)
         /\ ExtractStream(Join(text, <<e>>))
              = ExtractResponses(Recovered(e.response, Join(text, <<e>>)))
<1> DEFINE E == TextEvents \cup {e}
           y == <<e>>
           z == Join(text, y)
<1>1. text \in Seq(E) /\ e \in E /\ y \in Seq(E) /\ y # <<>>
  BY SeqMonotonic
<1>2. AllTyped(y, CompletedType)
  <2>1. Len(y) = 1 /\ y[1] = e /\ \A i \in 1 .. 1 : i = 1
    OBVIOUS
  <2>2. QED
    BY <2>1 DEF AllTyped
<1>3. Len(y) = 1 /\ y[1] = e
  OBVIOUS
<1>4. /\ Len(z) \in DOMAIN z /\ z[Len(z)] = e
      /\ \A i \in DOMAIN z : i = Len(z) \/ (i \in 1 .. Len(text) /\ z[i] = text[i])
  BY <1>1, LastOf
<1> HIDE DEF E, y
<1>5. \A type : OfType(z, type) = Join(OfType(text, type), OfType(y, type))
  BY <1>1, OfTypeJoin
<1>6. OfType(y, CompletedType) = y
  BY <1>1, <1>2, OfTypeAll
<1>7. OfType(z, CompletedType) = y
  <2>1. Join(<<>>, y) = y
    BY <1>1, JoinEmpty
  <2>2. QED
    BY <1>5, <1>6, <2>1
<1>8. ~ReportsFailure(z)
  <2>1. \A i \in DOMAIN z : z[i].type \in {DeltaType, DoneType, CompletedType}
    BY <1>4, TextEventTypes
  <2>2. QED
    BY <2>1 DEF ReportsFailure, FailureEvents, DeltaType, DoneType, CompletedType
<1>9. ASSUME NEW type \in {DeltaType, DoneType} PROVE OfType(z, type) = OfType(text, type)
  <2>1. NoneTyped(y, type)
    BY <1>2 DEF AllTyped, NoneTyped, DeltaType, DoneType, CompletedType
  <2>2. OfType(y, type) = <<>>
    BY <1>1, <2>1, OfTypeNone
  <2>3. OfType(text, type) \in Seq(TextEvents)
    BY OfTypeTyped
  <2>4. Join(OfType(text, type), <<>>) = OfType(text, type)
    BY <2>3, JoinEmpty
  <2>5. QED
    BY <1>5, <2>2, <2>4
<1> HIDE DEF z
<1>10. ExtractStream(z) = ExtractResponses(Recovered(y[Len(y)].response, z))
  BY <1>1, <1>7, <1>8 DEF ExtractStream, CompletedType
<1>11. QED
  BY <1>3, <1>9, <1>10 DEF z, y

LEMMA StreamRight ==
  ASSUME NEW generation \in Generations, NEW telling \in Tellings,
         NEW stream \in Streams(generation, telling)
  PROVE  RightAnswer(generation, ToldInFull(generation, telling), ExtractStream(stream))
<1> DEFINE last == LastEvents(generation, telling)
           inFull == ToldInFull(generation, telling)
           body == LastResponse(generation, telling)
<1>1. PICK text :
        /\ stream = Join(text, last)
        /\ IF generation.ending = "refused" THEN text = <<>>
           ELSE text \in Told(generation, telling, TRUE) \cup Told(generation, telling, FALSE)
  BY StreamIs
<1>2. generation.ending \in Endings
  BY DEF Generations
<1>3. ASSUME generation.ending # "refused"
      PROVE  /\ TextOnly(text)
             /\ telling.keyed \/ OneOf(generation.parts) =>
                  TellsAll(text, generation, TRUE) \/ TellsAll(text, generation, FALSE)
  <2>1. CASE text \in Told(generation, telling, TRUE)
    BY <2>1, ToldTells
  <2>2. CASE text \in Told(generation, telling, FALSE)
    BY <2>2, ToldTells
  <2>3. QED
    BY <1>1, <1>3, <2>1, <2>2
<1>4. TextOnly(text)
  <2>1. CASE generation.ending = "refused"
    <3>1. text = <<>> /\ text \in Seq(TextEvents)
      BY <1>1, <2>1
    <3>2. QED
      BY <3>1, TextEventsOnly
  <2>2. QED
    BY <1>3, <2>1
<1>5. text \in Seq(TextEvents) /\ OfType(text, CompletedType) = <<>>
  BY <1>4 DEF TextOnly
<1> HIDE DEF last, inFull, body
<1>6. ASSUME generation.ending \in {"completed", "refused"}
      PROVE  /\ \A type \in {DeltaType, DoneType} : OfType(stream, type) = OfType(text, type)
             /\ ExtractStream(stream) = ExtractResponses(Recovered(body, stream))
  <2> DEFINE e == [type |-> "response.completed", response |-> body]
  <2>1. e.type = CompletedType /\ e.response = body
    BY DEF CompletedType
  <2>2. last = <<e>>
    BY <1>6 DEF LastEvents, last, body
  <2> HIDE DEF e
  <2>3. \A type \in {DeltaType, DoneType} :
          OfType(Join(text, <<e>>), type) = OfType(text, type)
    BY <1>5, <2>1, CompletedTold
  <2>4. ExtractStream(Join(text, <<e>>))
          = ExtractResponses(Recovered(e.response, Join(text, <<e>>)))
    BY <1>5, <2>1, CompletedTold
  <2>5. QED
    BY <1>1, <2>1, <2>2, <2>3, <2>4
<1>7. /\ body.status = "completed"
      /\ body.output = IF telling.sparse THEN <<>> ELSE Output(generation)
      /\ body.shortcut = IF telling.blank THEN Shortcut(<<>>) ELSE NoShortcut
      /\ body = [status |-> body.status, output |-> body.output, shortcut |-> body.shortcut]
  BY DEF LastResponse, body
<1>8. Shortcut(<<>>).there /\ ~NoShortcut.there
      /\ Shortcut(<<>>).text = <<>> /\ NoShortcut.text = <<>>
  BY DEF Shortcut, NoShortcut
<1>9. CASE generation.ending \in {"completed", "refused"} /\ ~telling.sparse
  <2>1. Recovered(body, stream) = body
    BY <1>7, <1>9, OutputFacts DEF Recovered
  <2>2. "completed" \in ResponseStatus(generation.ending)
    BY <1>9 DEF ResponseStatus
  <2>3. body \in ResponseBodies(generation)
    BY <1>7, <1>9, <2>2 DEF ResponseBodies
  <2>4. QED
    BY <1>6, <1>9, <2>1, <2>3, ResponsesRight
<1>10. CASE generation.ending = "refused" /\ telling.sparse
  <2>1. \A type \in {DeltaType, DoneType} : OfType(stream, type) = <<>>
    <3>1. text = <<>>
      BY <1>1, <1>10
    <3>2. \A type : NoneTyped(text, type)
      BY <3>1 DEF NoneTyped
    <3>3. \A type : OfType(text, type) = <<>>
      BY <1>5, <3>2, OfTypeNone
    <3>4. QED
      BY <1>6, <1>10, <3>3
  <2>2. Recovered(body, stream) = body
    BY <2>1 DEF Recovered, DeltaType, DoneType
  <2>3. ExtractResponses(body) = Error
    BY <1>7, <1>8, <1>10, NothingSaid DEF ExtractResponses
  <2>4. ExtractStream(stream) = Error /\ generation.ending # "completed"
    BY <1>6, <1>10, <2>2, <2>3
  <2>5. QED
    BY <2>4, ErrorIsRight
<1>11. CASE generation.ending = "completed" /\ telling.sparse /\ inFull
  <2> DEFINE told == [body EXCEPT !.shortcut = Shortcut(Whole(generation))]
             done == OfType(stream, "response.output_text.done")
             deltas == OfType(stream, "response.output_text.delta")
  <2>1. ~telling.blank /\ (telling.keyed \/ OneOf(generation.parts))
    BY <1>11, PartsTyped DEF inFull, ToldInFull, OneOf, TwoOf
  <2>2. done = OfType(text, DoneType) /\ deltas = OfType(text, DeltaType)
    BY <1>6, <1>11 DEF DoneType, DeltaType
  <2>3. /\ deltas # <<>> /\ InOrder(TextDeltas(deltas)) = Whole(generation)
        /\ done # <<>> => InOrder(DoneText(done)) = Whole(generation)
    BY <1>3, <1>11, <2>1, <2>2 DEF TellsAll
  <2>4. Recovered(body, stream)
          = IF done # <<>> THEN [body EXCEPT !.shortcut = Shortcut(InOrder(DoneText(done)))]
            ELSE IF deltas # <<>>
            THEN [body EXCEPT !.shortcut = Shortcut(InOrder(TextDeltas(deltas)))]
            ELSE body
    BY <1>7, <1>8, <1>11, <2>1 DEF Recovered
  <2> HIDE DEF done, deltas
  <2>5. Recovered(body, stream) = told
    BY <2>3, <2>4
  <2>6. told.status = "completed" /\ told.output = <<>> /\ told.shortcut.text = Whole(generation)
    BY <1>7, <1>11 DEF Shortcut
  <2> HIDE DEF told
  <2>7. ExtractResponses(told) = Text(Whole(generation))
    BY <2>6, WholeText, NothingSaid DEF ExtractResponses
  <2>8. ExtractStream(stream) = Text(Whole(generation))
    BY <1>6, <1>11, <2>5, <2>7
  <2>9. QED
    BY <1>11, <2>8, WholeIsRight DEF inFull
<1>12. CASE generation.ending = "completed" /\ ~inFull
  BY <1>12 DEF RightAnswer, inFull
<1>13. CASE generation.ending \in {"incomplete", "filtered", "failed"}
  <2>1. PICK e : last = <<e>> /\ e.type \in FailureEvents
    <3>1. last \in {<<[type |-> "response.incomplete"]>>, <<[type |-> "response.failed"]>>}
      BY <1>13 DEF LastEvents, last
    <3>2. \A type : [type |-> type].type = type
      OBVIOUS
    <3>3. QED
      BY <3>1, <3>2 DEF FailureEvents
  <2>2. ExtractStream(Join(text, <<e>>)) = Error
    BY <1>5, <2>1, FailureTold
  <2>3. ExtractStream(stream) = Error /\ generation.ending # "completed"
    BY <1>1, <1>13, <2>1, <2>2
  <2>4. QED
    BY <2>3, ErrorIsRight
<1>14. CASE generation.ending = "cut"
  <2>1. last = <<>>
    BY <1>14 DEF LastEvents, last
  <2>2. stream = text
    BY <1>1, <1>5, <2>1, JoinEmpty
  <2>3. ExtractStream(stream) = Error
    BY <1>5, <2>2 DEF ExtractStream, CompletedType
  <2>4. generation.ending # "completed"
    BY <1>14
  <2>5. QED
    BY <2>3, <2>4, ErrorIsRight
<1>15. QED
  BY <1>2, <1>9, <1>10, <1>11, <1>12, <1>13, <1>14 DEF Endings, inFull

LEMMA ExchangesRight ==
  ASSUME NEW e \in Exchanges
  PROVE  RightAnswer(e.generation, e.inFull, e.answer)
<1>1. PICK generation \in Generations, telling \in Tellings :
        e \in {[generation |-> generation, inFull |-> ToldInFull(generation, telling),
                answer |-> a] : a \in Verdicts(generation, telling)}
  BY DEF Exchanges
<1> DEFINE inFull == ToldInFull(generation, telling)
<1>2. PICK a \in Verdicts(generation, telling) :
        e = [generation |-> generation, inFull |-> inFull, answer |-> a]
  BY <1>1
<1>3. RightAnswer(generation, inFull, a)
  <2>1. CASE a \in {ExtractChat(body) : body \in ChatBodies(generation)}
    <3>1. PICK body \in ChatBodies(generation) : a = ExtractChat(body)
      BY <2>1
    <3>2. QED
      BY <3>1, ChatRight
  <2>2. CASE a \in {ExtractResponses(body) : body \in ResponseBodies(generation)}
    <3>1. PICK body \in ResponseBodies(generation) : a = ExtractResponses(body)
      BY <2>2
    <3>2. QED
      BY <3>1, ResponsesRight
  <2>3. CASE a \in {ExtractStream(stream) : stream \in Streams(generation, telling)}
    <3>1. PICK stream \in Streams(generation, telling) : a = ExtractStream(stream)
      BY <2>3
    <3>2. QED
      BY <3>1, StreamRight
  <2>4. QED
    BY <1>2, <2>1, <2>2, <2>3 DEF Verdicts
<1> HIDE DEF inFull
<1>4. e.generation = generation /\ e.inFull = inFull /\ e.answer = a
  BY <1>2
<1>5. QED
  BY <1>3, <1>4

-----------------------------------------------------------------------------
(* What a goal says is what came of an exchange, as long as the goal is    *)
(* between its answer and its end.                                         *)
HeardInv ==
  /\ DOMAIN heard = Goals /\ DOMAIN answer = Goals
  /\ \A g \in Goals : heard[g] # Unheard =>
       RightAnswer(heard[g].generation, heard[g].inFull, answer[g])

LEMMA HeardStep == HeardInv /\ [SocketNext]_socketVars => HeardInv'
<1> SUFFICES ASSUME HeardInv, [SocketNext]_socketVars PROVE HeardInv'
  OBVIOUS
<1>1. CASE UNCHANGED <<heard, answer>>
  BY <1>1 DEF HeardInv
<1> DEFINE Fits(h) == RightAnswer(heard'[h].generation, heard'[h].inFull, answer'[h])
<1>2. ASSUME NEW g \in Goals, TakeAnswer(g) PROVE HeardInv'
  <2>1. PICK e \in Exchanges :
          /\ heard' = [heard EXCEPT ![g] = [generation |-> e.generation, inFull |-> e.inFull]]
          /\ answer' = [answer EXCEPT ![g] = e.answer]
    BY <1>2 DEF TakeAnswer
  <2>2. RightAnswer(e.generation, e.inFull, e.answer)
    BY ExchangesRight
  <2>3. ASSUME NEW h \in Goals, heard'[h] # Unheard PROVE Fits(h)
    <3>1. CASE h = g
      <4>1. /\ heard'[h].generation = e.generation /\ heard'[h].inFull = e.inFull
            /\ answer'[h] = e.answer
        BY <2>1, <3>1 DEF HeardInv
      <4>2. QED
        BY <2>2, <4>1
    <3>2. CASE h # g
      <4>1. heard'[h] = heard[h] /\ answer'[h] = answer[h]
        BY <2>1, <3>2 DEF HeardInv
      <4>2. QED
        BY <2>3, <4>1 DEF HeardInv
    <3>3. QED
      BY <3>1, <3>2
  <2>4. QED
    BY <2>1, <2>3 DEF HeardInv
<1>3. ASSUME NEW g \in Goals, heard' = [heard EXCEPT ![g] = Unheard],
             DOMAIN answer' = Goals, \A h \in Goals : h # g => answer'[h] = answer[h]
      PROVE  HeardInv'
  <2>1. ASSUME NEW h \in Goals, heard'[h] # Unheard PROVE Fits(h)
    <3>1. h # g
      BY <1>3, <2>1 DEF HeardInv
    <3>2. heard'[h] = heard[h] /\ answer'[h] = answer[h]
      BY <1>3, <3>1 DEF HeardInv
    <3>3. QED
      BY <2>1, <3>2 DEF HeardInv
  <2>2. QED
    BY <1>3, <2>1 DEF HeardInv
<1>4. ASSUME NEW g \in Goals, Fail(g) PROVE HeardInv'
  BY <1>3, <1>4 DEF Fail, HeardInv
<1>5. ASSUME NEW g \in Goals, Close(g) PROVE HeardInv'
  <2>1. heard' = [heard EXCEPT ![g] = Unheard] /\ answer' = [answer EXCEPT ![g] = Error]
    BY <1>5 DEF Close
  <2>2. DOMAIN answer' = Goals /\ \A h \in Goals : h # g => answer'[h] = answer[h]
    BY <2>1 DEF HeardInv
  <2>3. QED
    BY <1>3, <2>1, <2>2
<1>6. ASSUME NEW g \in Goals, Execute(g) PROVE HeardInv'
  BY <1>1, <1>2, <1>4, <1>5, <1>6 DEF Execute, Validate, BeforeRequest, Register,
       Answered, Unanswered, Unregister, DropAnswer, Free
<1>7. ASSUME NEW g \in Goals, Request(g) \/ ChooseCanceled(g) \/ Cancel(g) PROVE HeardInv'
  BY <1>1, <1>7 DEF Request, GoalCallback, ChooseCanceled, Cancel, SetCancelEvent,
       CloseActiveConnection, MarkCanceling
<1>8. QED
  BY <1>1, <1>6, <1>7 DEF SocketNext, socketVars

(* An answer counts as a success only when the generation was completed;   *)
(* and a completed generation is a success with the whole text in order:   *)
(* for every text, both APIs, bodies and streams, and parts that take      *)
(* turns, as long as a stream whose last response has no output says which *)
(* part each event belongs to, or there is one part, and that response has *)
(* no empty output_text (extract_response, decode_response_body).          *)
THEOREM AnswersAreWhole == SocketSpec => []WholeAnswersOnly
<1>1. SocketInit => HeardInv
  BY DEF SocketInit, HeardInv
<1>2. HeardInv => WholeAnswersOnly
  BY DEF HeardInv, WholeAnswersOnly, RightAnswer
<1>3. QED
  BY <1>1, <1>2, HeardStep, PTL DEF SocketSpec

-----------------------------------------------------------------------------
(* The socket: one request at a time, for any number of goals and whatever *)
(* they ask with.  What an answer is made of (VlmAnswers) plays no part.   *)
Active(g) == phase[g] \notin {"idle", "done"}

(* The socket is busy while a goal is anywhere in its execution, so that   *)
(* the test of _busy in _goal_callback keeps others out; and the active    *)
(* connection is the one of the goal in execution, whose thread is at the  *)
(* request or just behind it.                                              *)
ActiveIsBusy == \A g \in Goals : Active(g) => busy
ConnectionIsActive ==
  connection # Nobody => phase[connection] \in {"wait", "answered", "unanswered"}

SocketInv == OneRequestAtATime /\ ActiveIsBusy /\ ConnectionIsActive

LEMMA TypeStep == SocketTypeOK /\ [SocketNext]_socketVars => SocketTypeOK'
<1> SUFFICES ASSUME SocketTypeOK, [SocketNext]_socketVars PROVE SocketTypeOK'
  OBVIOUS
<1> USE DEF SocketTypeOK, Goto, Becomes, Terminal
<1>1. ASSUME NEW g \in Goals, Request(g) PROVE SocketTypeOK'
  BY <1>1 DEF Request, GoalCallback
<1>2. ASSUME NEW g \in Goals, Execute(g) PROVE SocketTypeOK'
  <2>1. CASE Validate(g)
    BY <2>1 DEF Validate
  <2>2. CASE BeforeRequest(g)
    BY <2>2 DEF BeforeRequest
  <2>3. CASE Register(g)
    BY <2>3 DEF Register
  <2>4. CASE Answered(g) \/ Unanswered(g)
    BY <2>4 DEF Answered, Unanswered
  <2>5. CASE Unregister(g)
    BY <2>5 DEF Unregister
  <2>6. CASE DropAnswer(g)
    BY <2>6 DEF DropAnswer
  <2>7. CASE TakeAnswer(g)
    BY <2>7 DEF TakeAnswer
  <2>8. CASE Fail(g)
    BY <2>8 DEF Fail
  <2>9. CASE Close(g) \/ Free(g)
    BY <2>9 DEF Close, Free
  <2>10. QED
    BY <1>2, <2>1, <2>2, <2>3, <2>4, <2>5, <2>6, <2>7, <2>8, <2>9 DEF Execute
<1>3. ASSUME NEW g \in Goals, ChooseCanceled(g) \/ Cancel(g) PROVE SocketTypeOK'
  BY <1>3 DEF ChooseCanceled, Cancel, SetCancelEvent, CloseActiveConnection, MarkCanceling
<1>4. CASE UNCHANGED socketVars
  BY <1>4 DEF socketVars
<1>5. QED
  BY <1>1, <1>2, <1>3, <1>4 DEF SocketNext

(* A step of an execution moves one goal, which was active; it gives the   *)
(* socket back at its end only, and takes the connection for itself only.  *)
LEMMA ExecuteShape ==
  ASSUME SocketTypeOK, NEW g \in Goals, Execute(g)
  PROVE  /\ Active(g)
         /\ \A h \in Goals : h # g => phase'[h] = phase[h]
         /\ busy' = busy \/ phase'[g] = "done"
         /\ connection' = connection \/ connection' = Nobody
              \/ (connection' = g /\ phase'[g] = "wait")
         /\ \/ phase[g] \in {"answered", "unanswered"} /\ connection' = Nobody
            \/ phase[g] \notin {"wait", "answered", "unanswered"}
            \/ phase'[g] \in {"wait", "answered", "unanswered"}
<1> USE DEF SocketTypeOK, Goto, Active
<1>1. CASE Validate(g) \/ BeforeRequest(g) \/ Register(g)
  BY <1>1 DEF Validate, BeforeRequest, Register
<1>2. CASE Answered(g) \/ Unanswered(g) \/ Unregister(g)
  BY <1>2 DEF Answered, Unanswered, Unregister
<1>3. CASE DropAnswer(g) \/ TakeAnswer(g)
  BY <1>3 DEF DropAnswer, TakeAnswer
<1>4. CASE Fail(g) \/ Close(g) \/ Free(g)
  BY <1>4 DEF Fail, Close, Free
<1>5. QED
  BY <1>1, <1>2, <1>3, <1>4 DEF Execute

LEMMA SocketInvStep == SocketInv /\ [SocketNext]_socketVars => SocketInv'
<1> SUFFICES ASSUME SocketInv, [SocketNext]_socketVars PROVE SocketInv'
  OBVIOUS
<1>t. SocketTypeOK /\ SocketTypeOK'
  BY TypeStep DEF SocketInv, OneRequestAtATime
<1>o. \A g, h \in Goals : Active(g) /\ Active(h) => g = h
  BY DEF SocketInv, OneRequestAtATime, Active
<1>c. connection \in Goals \cup {Nobody}
  BY <1>t DEF SocketTypeOK
<1> SUFFICES /\ \A g, h \in Goals : Active(g)' /\ Active(h)' => g = h
             /\ ActiveIsBusy'
             /\ ConnectionIsActive'
  BY <1>t DEF SocketInv, OneRequestAtATime, Active
<1>1. ASSUME NEW g \in Goals, Request(g)
      PROVE  /\ \A i, j \in Goals : Active(i)' /\ Active(j)' => i = j
             /\ ActiveIsBusy' /\ ConnectionIsActive'
  <2>1. PICK content \in Contents : GoalCallback(g, content)
    BY <1>1 DEF Request
  <2>2. CASE content = <<>> \/ busy
    BY <2>1, <2>2, <1>o
       DEF GoalCallback, SocketInv, ActiveIsBusy, ConnectionIsActive, Active
  <2>3. CASE ~(content = <<>> \/ busy)
    <3>1. \A h \in Goals : ~Active(h)
      BY <2>3 DEF SocketInv, ActiveIsBusy
    <3>2. connection' = Nobody
      BY <2>1, <2>3, <3>1, <1>c DEF GoalCallback, SocketInv, ConnectionIsActive, Active
    <3>3. busy' /\ \A h \in Goals : h # g => phase'[h] = phase[h]
      BY <2>1, <2>3, <1>t DEF GoalCallback, Goto, SocketTypeOK
    <3>4. QED
      BY <3>1, <3>2, <3>3 DEF ActiveIsBusy, ConnectionIsActive, Active
  <2>4. QED
    BY <2>2, <2>3
<1>2. ASSUME NEW g \in Goals, Execute(g)
      PROVE  /\ \A i, j \in Goals : Active(i)' /\ Active(j)' => i = j
             /\ ActiveIsBusy' /\ ConnectionIsActive'
  <2>1. Active(g) /\ \A h \in Goals : h # g => ~Active(h) /\ phase'[h] = phase[h]
    BY <1>2, <1>t, <1>o, ExecuteShape
  <2>2. \A i \in Goals : Active(i)' => i = g
    BY <2>1 DEF Active
  <2>3. ActiveIsBusy'
    BY <2>1, <2>2, <1>2, <1>t, ExecuteShape DEF SocketInv, ActiveIsBusy, Active
  <2>4. ConnectionIsActive'
    <3>1. connection # Nobody => connection = g
      BY <2>1, <1>c DEF SocketInv, ConnectionIsActive, Active
    <3>2. QED
      BY <3>1, <1>2, <1>t, ExecuteShape DEF SocketInv, ConnectionIsActive
  <2>5. QED
    BY <2>2, <2>3, <2>4
<1>3. ASSUME NEW g \in Goals, ChooseCanceled(g) \/ Cancel(g)
      PROVE  /\ \A i, j \in Goals : Active(i)' /\ Active(j)' => i = j
             /\ ActiveIsBusy' /\ ConnectionIsActive'
  <2>1. phase' = phase /\ busy' = busy /\ connection' \in {connection, Nobody}
    BY <1>3 DEF ChooseCanceled, Cancel, SetCancelEvent, CloseActiveConnection,
                MarkCanceling
  <2>2. QED
    BY <2>1, <1>o DEF SocketInv, ActiveIsBusy, ConnectionIsActive, Active
<1>4. CASE UNCHANGED socketVars
  BY <1>4, <1>o DEF socketVars, SocketInv, ActiveIsBusy, ConnectionIsActive, Active
<1>5. QED
  BY <1>1, <1>2, <1>3, <1>4 DEF SocketNext

LEMMA SocketInvInit == SocketInit => SocketInv
BY DEF SocketInit, SocketInv, OneRequestAtATime, SocketTypeOK, ActiveIsBusy, ConnectionIsActive, Active

LEMMA SocketInvariance == SocketSpec => []SocketInv
BY SocketInvInit, SocketInvStep, PTL DEF SocketSpec

(* However goals, failures and cancellations interleave, at most one goal  *)
(* is between its acceptance and the release of the socket (_busy).        *)
THEOREM OneAtATime == SocketSpec => []OneRequestAtATime
<1>1. SocketInv => OneRequestAtATime
  BY DEF SocketInv
<1>2. QED
  BY <1>1, SocketInvariance, PTL

(* The connection a cancellation may close is one whose request is under   *)
(* way: no connection outlives the request it was made for                 *)
(* (_set_active_connection, post_vlm_request).                             *)
THEOREM NoConnectionLeaks == SocketSpec => []ConnectionIsActive
<1>1. SocketInv => ConnectionIsActive
  BY DEF SocketInv
<1>2. QED
  BY <1>1, SocketInvariance, PTL
=============================================================================
