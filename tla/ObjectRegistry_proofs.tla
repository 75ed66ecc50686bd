------------------------ MODULE ObjectRegistry_proofs ------------------------
(***************************************************************************)
(* The registry of objects, whatever is seen, in whatever order it comes,  *)
(* and whatever fails.                                                     *)
(*                                                                         *)
(* A callback works on a copy of the registry (Working) that it merges     *)
(* sightings into, one after another.  The invariant is therefore stated   *)
(* of such a copy, and the main lemma is that Merge keeps it.              *)
(*                                                                         *)
(* At the end, what the command layer makes of the registry's answers: the *)
(* list of a request and its revision (RegistryShortlist).                 *)
(***************************************************************************)
EXTENDS ObjectRegistry, RegistryShortlist, FiniteSetTheorems, SequenceTheorems,
        WellFoundedInduction, TLAPS

-----------------------------------------------------------------------------
(* Types.                                                                  *)
MessageType == [stamp : Nat, scene : Scenes]
RetryType == [cloud : MessageType, detection : MessageType, deadline : Int]
ObservationType == [stamp : Nat, place : Int, conf : Nat]
CropType == [conf : Int, stamp : Int]
CandidateType == [label : Labels, observations : Seq(ObservationType), crop : CropType]
Candidates == {S \in SUBSET CandidateType : IsFiniteSet(S)}
Files == UNION {[D -> Int] : D \in SUBSET Paths}
WorkType == [records : Seq(ObjectType), index : SUBSET (Labels \X Int \X Nat),
             candidates : Candidates, dirty : BOOLEAN, unpublished : BOOLEAN,
             files : Files, inserted : BOOLEAN]

(* A sighting that is merged.                                              *)
MergedType == [stamp : Nat, label : Labels, place : Int, conf : Nat, crop : BOOLEAN,
               counts : BOOLEAN]

QueueInv ==
  /\ clock \in Nat
  /\ clouds \in Seq(MessageType) /\ detections \in Seq(MessageType)
  /\ pendingClouds \in Seq(MessageType) /\ pendingDetections \in Seq(MessageType)
  /\ retries \in Seq(RetryType)

-----------------------------------------------------------------------------
(* What a copy of the registry keeps.                                      *)
Ordered(observations) ==
  \A i, j \in DOMAIN observations :
     i < j => observations[i].stamp < observations[j].stamp

Tentative(c) ==
  /\ c.observations # <<>>
  /\ Ordered(c.observations)
  /\ \A i \in 2 .. Len(c.observations) :
        c.observations[i].stamp - c.observations[i - 1].stamp <= ConfirmationMaxGap
  /\ Newest(c) - Oldest(c) <= ConfirmationWindow
  /\ ~Confirmed(c.observations)
  /\ c.crop = NoCrop \/ \E i \in DOMAIN c.observations :
                           c.observations[i].stamp = c.crop.stamp

OwnNames(g) ==
  \A i, j \in DOMAIN g.records : g.records[i].name = g.records[j].name => i = j

Exact(g) ==
  g.index = {<<g.records[i].label, CellOf(g.records[i]), i>> : i \in DOMAIN g.records}

(* A picture is named for its object; who has none has no confidence.      *)
Pictured(o) == IF o.image = NoPath THEN o.conf = -1 ELSE o.image[1] = o.name

Sound(g) ==
  /\ g \in WorkType
  /\ OwnNames(g)
  /\ Exact(g)
  /\ \A c \in g.candidates : Tentative(c)
  /\ \A i \in DOMAIN g.records :
        /\ Pictured(g.records[i])
        /\ g.records[i].image # NoPath => g.records[i].image \in DOMAIN g.files

(* The picture is there and is the object's.                               *)
Shows(o, files) == o.image # NoPath => o.image \in DOMAIN files /\ files[o.image] = o.conf

Faithful(g) == \A i \in DOMAIN g.records : Shows(g.records[i], g.files)

(* The objects of the file have records, which no new object takes the     *)
(* name of, and whose pictures are not drawn again.                        *)
Kept(g) ==
  \A o \in file.objects :
    /\ Shows(o, g.files)
    /\ \E i \in DOMAIN g.records :
          /\ g.records[i].name = o.name
          /\ o.image # NoPath => g.records[i].image = o.image

(* What differs from the registry is to be saved.                          *)
Marked(g) == ~g.dirty => g.records = reg.records /\ ~reg.dirty

Good(g) ==
  /\ Sound(g)
  /\ Marked(g)
  /\ ~revived => Faithful(g)
  /\ ~stale => Kept(g)

FileInv ==
  /\ file.kind = "absent" => file.objects = {}
  /\ file.objects \subseteq ObjectType /\ IsFiniteSet(file.objects)
  /\ \A o, p \in file.objects : o.name = p.name => o = p
  /\ \A o \in file.objects : Pictured(o)
  /\ ~stale => \A o \in file.objects : Shows(o, pictures)

RegInv ==
  /\ reg = [records |-> reg.records, index |-> reg.index, candidates |-> reg.candidates,
            dirty |-> reg.dirty, unpublished |-> reg.unpublished]
  /\ Sound(Working)
  /\ up /\ ~revived => Faithful(Working)
  /\ up /\ ~stale => Kept(Working)
  /\ ~up => reg = EmptyRegistry /\ ~revived
  /\ revived => stale

IInv == QueueInv /\ FileInv /\ RegInv /\ CleanMeansSaved

-----------------------------------------------------------------------------
(* Induction, and least members of finite sets.                            *)
LEMMA NatInd ==
  ASSUME NEW T \in SUBSET Nat, 0 \in T, \A n \in T : n + 1 \in T
  PROVE  T = Nat
<1> DEFINE Below(n) == 0..(n - 1)
           R == StrictSubsetOrdering(Nat)
           U == {Below(n) : n \in Nat \ T}
<1>1. \A n \in Nat : Below(n) \in FiniteSubsetsOf(Nat)
  <2>1. \A n \in Nat : IsFiniteSet(0..(n - 1)) /\ 0..(n - 1) \subseteq Nat
    BY FS_Interval
  <2>2. QED
    BY <2>1 DEF FiniteSubsetsOf
<1>2. IsWellFoundedOn(R, FiniteSubsetsOf(Nat))
  BY FS_StrictSubsetOrderingWellFounded
<1>3. U \subseteq FiniteSubsetsOf(Nat)
  BY <1>1
<1>4. \A n \in Nat \ {0} : <<Below(n - 1), Below(n)>> \in R
  <2>1. \A n \in Nat \ {0} : /\ Below(n - 1) \subseteq Nat /\ Below(n) \subseteq Nat
                             /\ Below(n - 1) \subseteq Below(n)
                             /\ n - 1 \in Below(n) /\ n - 1 \notin Below(n - 1)
    OBVIOUS
  <2>2. QED
    BY <2>1 DEF StrictSubsetOrdering
<1> HIDE DEF R, Below
<1> SUFFICES ASSUME Nat \ T # {} PROVE FALSE
  OBVIOUS
<1>5. PICK u \in U : \A v \in U : <<v, u>> \notin R
  <2>1. U # {}
    OBVIOUS
  <2> HIDE DEF U
  <2>2. QED
    BY <1>2, <1>3, <2>1, WFMin
<1>6. PICK x \in Nat \ T : u = Below(x)
  OBVIOUS
<1>7. x # 0 /\ x - 1 \in Nat /\ x - 1 + 1 = x
  OBVIOUS
<1>8. x - 1 \in T
  BY <1>4, <1>5, <1>6, <1>7
<1>9. QED
  BY <1>6, <1>7, <1>8

LEMMA IntervalInd ==
  ASSUME NEW N \in Nat, NEW T, 0 \in T, \A n \in 0..(N - 1) : n \in T => n + 1 \in T
  PROVE  \A n \in 0..N : n \in T
<1> DEFINE U == {n \in Nat : n <= N => n \in T}
<1>1. 0 \in U /\ U \in SUBSET Nat
  OBVIOUS
<1>2. \A n \in U : n + 1 \in U
  OBVIOUS
<1> HIDE DEF U
<1>3. U = Nat
  BY <1>1, <1>2, NatInd
<1>4. QED
  BY <1>3 DEF U

(* What is related to every member of a finite set, when the relation is   *)
(* total and transitive.                                                   *)
LEMMA LeastMember ==
  ASSUME NEW S, IsFiniteSet(S), S # {}, NEW B,
         \A a, b \in S : <<a, b>> \in B \/ <<b, a>> \in B,
         \A a, b, c \in S : <<a, b>> \in B /\ <<b, c>> \in B => <<a, c>> \in B
  PROVE  \E c \in S : \A d \in S : <<c, d>> \in B
<1> DEFINE R == StrictSubsetOrdering(S)
           U == {T \in SUBSET S : T # {} /\ \A x \in S : \E y \in T : <<y, x>> \in B}
<1>1. IsWellFoundedOn(R, FiniteSubsetsOf(S)) /\ FiniteSubsetsOf(S) = SUBSET S
  BY FS_StrictSubsetOrderingWellFounded, FS_FiniteSubsetsOfFinite
<1>2. U \subseteq SUBSET S /\ U # {}
  <2>1. S \in U
    OBVIOUS
  <2>2. QED
    BY <2>1
<1>3. PICK T \in U : \A V \in U : <<V, T>> \notin R
  <2> HIDE DEF U, R
  <2>1. QED
    BY <1>1, <1>2, WFMin
<1>4. PICK y \in T : TRUE
  BY <1>3
<1>5. ASSUME NEW a \in T, NEW b \in T, a # b, <<a, b>> \in B
      PROVE  FALSE
  <2> DEFINE V == T \ {b}
  <2>1. V \in SUBSET S /\ V # {}
    BY <1>5
  <2>2. \A x \in S : \E z \in V : <<z, x>> \in B
    <3> SUFFICES ASSUME NEW x \in S PROVE \E z \in V : <<z, x>> \in B
      OBVIOUS
    <3>1. PICK z \in T : <<z, x>> \in B
      OBVIOUS
    <3>2. CASE z = b
      <4>1. <<a, x>> \in B /\ a \in V
        BY <1>5, <3>1, <3>2
      <4>2. QED
        BY <4>1
    <3>3. QED
      BY <3>1, <3>2
  <2>3. V \in U
    BY <2>1, <2>2
  <2>4. <<V, T>> \in R
    BY <1>5, <2>1 DEF StrictSubsetOrdering
  <2>5. QED
    BY <1>3, <2>3, <2>4
<1>6. T = {y}
  <2> SUFFICES ASSUME NEW z \in T, z # y PROVE FALSE
    BY <1>4
  <2>1. <<y, z>> \in B \/ <<z, y>> \in B
    BY <1>2, <1>3, <1>4
  <2>2. QED
    BY <1>4, <1>5, <2>1
<1>7. QED
  BY <1>3, <1>6

(* The greatest member of a finite set of integers (Max).                  *)
LEMMA MaxMember ==
  ASSUME NEW S \in SUBSET Int, IsFiniteSet(S), S # {}
  PROVE  Max(S) \in S /\ \A d \in S : d <= Max(S)
<1> DEFINE B == {p \in Int \X Int : p[1] >= p[2]}
<1>1. /\ \A a, b \in S : <<a, b>> \in B \/ <<b, a>> \in B
      /\ \A a, b, c \in S : <<a, b>> \in B /\ <<b, c>> \in B => <<a, c>> \in B
  OBVIOUS
<1>2. PICK c \in S : \A d \in S : <<c, d>> \in B
  <2> HIDE DEF B
  <2>1. QED
    BY <1>1, LeastMember
<1>3. \E x \in S : \A y \in S : x >= y
  BY <1>2
<1>4. QED
  BY <1>3 DEF Max

(* The least of finitely many ratios of naturals.                          *)
LEMMA RatioTransitive ==
  ASSUME NEW a \in Nat, NEW b \in Nat \ {0}, NEW c \in Nat, NEW d \in Nat \ {0},
         NEW e \in Nat, NEW f \in Nat \ {0},
         a * d <= c * b, c * f <= e * d
  PROVE  a * f <= e * b
<1>1. (a * d) * f <= (c * b) * f
  OBVIOUS
<1>2. (c * f) * b <= (e * d) * b
  OBVIOUS
<1>3. (c * b) * f = (c * f) * b /\ (a * d) * f = (a * f) * d /\ (e * d) * b = (e * b) * d
  OBVIOUS
<1>4. (a * f) * d <= (e * b) * d
  <2>1. /\ (a * d) * f \in Int /\ (c * b) * f \in Int /\ (c * f) * b \in Int
        /\ (e * d) * b \in Int /\ (a * f) * d \in Int /\ (e * b) * d \in Int
    OBVIOUS
  <2>2. QED
    BY <1>1, <1>2, <1>3, <2>1
<1>5. ASSUME NEW u \in Int, NEW v \in Int, u * d <= v * d
      PROVE  u <= v
  BY <1>5
<1>6. a * f \in Int /\ e * b \in Int
  OBVIOUS
<1>7. QED
  BY <1>4, <1>5, <1>6

LEMMA LeastRatio ==
  ASSUME NEW S, IsFiniteSet(S), S # {}, NEW num \in [S -> Nat], NEW den \in [S -> Nat \ {0}]
  PROVE  \E c \in S : \A d \in S : ~(num[d] * den[c] < num[c] * den[d])
<1> DEFINE B == {p \in S \X S : num[p[1]] * den[p[2]] <= num[p[2]] * den[p[1]]}
<1>0. \A a, b \in S : <<a, b>> \in B <=> num[a] * den[b] <= num[b] * den[a]
  OBVIOUS
<1>1. \A a, b \in S : num[a] * den[b] \in Int
  <2>1. \A x, y \in Nat : x * y \in Int
    OBVIOUS
  <2>2. QED
    BY <2>1
<1> HIDE DEF B
<1>2. ASSUME NEW a \in S, NEW b \in S
      PROVE  /\ <<a, b>> \in B \/ <<b, a>> \in B
             /\ <<a, b>> \in B => ~(num[b] * den[a] < num[a] * den[b])
  <2> DEFINE x == num[a] * den[b]
             y == num[b] * den[a]
  <2>1. x \in Int /\ y \in Int
    BY <1>1
  <2>2. (<<a, b>> \in B <=> x <= y) /\ (<<b, a>> \in B <=> y <= x)
    BY <1>0
  <2> HIDE DEF x, y
  <2>3. (<<a, b>> \in B \/ <<b, a>> \in B) /\ (<<a, b>> \in B => ~(y < x))
    BY <2>1, <2>2
  <2>4. QED
    BY <2>3 DEF x, y
<1>3. \A a, b, c \in S : <<a, b>> \in B /\ <<b, c>> \in B => <<a, c>> \in B
  BY <1>0, RatioTransitive
<1>4. PICK c \in S : \A d \in S : <<c, d>> \in B
  BY <1>2, <1>3, LeastMember
<1>5. QED
  BY <1>2, <1>4

-----------------------------------------------------------------------------
(* Where things are.                                                       *)
LEMMA OffTyped ==
  ASSUME NEW place \in Int, NEW sum \in Int, NEW count \in Nat \ {0}
  PROVE  Abs(place * count - sum) \in Nat
<1>1. place * count \in Int
  OBVIOUS
<1>2. \A x, y \in Int : Abs(x - y) \in Nat
  BY DEF Abs
<1>3. QED
  BY <1>1, <1>2

(* An object in reach of a place is in its cell or a neighbouring one.     *)
LEMMA CellNear ==
  ASSUME NEW place \in Int, NEW sum \in Int, NEW count \in Nat \ {0},
         Abs(place * count - sum) <= Threshold * count
  PROVE  sum \div (count * Threshold) - place \div Threshold \in -1 .. 1
<1> DEFINE t == Threshold
           w == count * t
           p == place \div t
           q == sum \div w
<1>1. t \in Nat \ {0} /\ w \in Nat \ {0}
  BY ConfirmationAssumption
<1>2. p \in Int /\ p * t <= place /\ place < p * t + t
  BY <1>1
<1>3. q \in Int /\ q * w <= sum /\ sum < q * w + w
  <2> HIDE DEF w
  <2>1. QED
    BY <1>1
<1>4. /\ p * w \in Int /\ q * w \in Int /\ place * count \in Int
      /\ p * w <= place * count /\ place * count < p * w + w
  <2>1. (p * t) * count <= place * count
    BY <1>1, <1>2
  <2>2. place * count < (p * t + t) * count
    BY <1>1, <1>2
  <2>3. (p * t) * count = p * w /\ (p * t + t) * count = p * w + w
    <3>1. \A x, y, z \in Int : (x * y) * z = x * (z * y) /\ (x * y + y) * z = x * (z * y) + z * y
      OBVIOUS
    <3> HIDE DEF p
    <3>2. QED
      BY <1>1, <1>2, <3>1
  <2>4. place * count \in Int /\ p * w \in Int /\ q * w \in Int
    BY <1>1, <1>2, <1>3
  <2> HIDE DEF p, q, w
  <2>5. QED
    BY <2>1, <2>2, <2>3, <2>4
<1>5. place * count - sum <= w /\ sum - place * count <= w
  <2>1. w = Threshold * count
    BY <1>1
  <2>2. place * count \in Int
    OBVIOUS
  <2>3. \A x, y \in Int : Abs(x - y) <= w => x - y <= w /\ y - x <= w
    BY <1>1 DEF Abs
  <2> HIDE DEF w
  <2>4. QED
    BY <2>1, <2>2, <2>3
<1>6. q * w < (p + 2) * w /\ (p - 1) * w < (q + 1) * w
  <2>1. (p + 2) * w = p * w + w + w /\ (p - 1) * w = p * w - w /\ (q + 1) * w = q * w + w
    BY <1>1, <1>2, <1>3
  <2> HIDE DEF p, q, w
  <2>2. QED
    BY <1>1, <1>3, <1>4, <1>5, <2>1
<1>7. \A x, y \in Int : x * w < y * w => x < y
  BY <1>1
<1> HIDE DEF p, q, w
<1>8. q < p + 2 /\ p - 1 < q + 1
  BY <1>2, <1>3, <1>6, <1>7
<1>9. QED
  BY <1>2, <1>3, <1>8 DEF p, q, w

LEMMA Records ==
  ASSUME NEW s \in Seq(ObjectType), NEW i \in DOMAIN s
  PROVE  /\ i \in 1 .. Len(s) /\ s[i] \in ObjectType
         /\ s[i].sum \in Int /\ s[i].count \in Nat \ {0} /\ s[i].label \in Labels
         /\ s[i].name \in Names
<1>1. i \in 1 .. Len(s) /\ s[i] \in ObjectType
  OBVIOUS
<1>2. \A r \in ObjectType : /\ r.sum \in Int /\ r.count \in Nat \ {0} /\ r.label \in Labels
                            /\ r.name \in Names
  BY DEF ObjectType
<1>3. QED
  BY <1>1, <1>2

LEMMA IndexedMembers ==
  ASSUME NEW g, g.records \in Seq(ObjectType), NEW label, NEW place \in Int
  PROVE  /\ Indexed(g, label, place) \subseteq 1 .. Len(g.records)
         /\ IsFiniteSet(Indexed(g, label, place))
<1>1. Indexed(g, label, place) \subseteq 1 .. Len(g.records)
  BY DEF Indexed
<1>2. IsFiniteSet(1 .. Len(g.records))
  BY FS_Interval
<1>3. QED
  BY <1>1, <1>2, FS_Subset

LEMMA NearestFound ==
  ASSUME NEW g, g.records \in Seq(ObjectType), NEW label, NEW place \in Int,
         Indexed(g, label, place) # {}
  PROVE  /\ FindNearest(g, label, place) \in Indexed(g, label, place)
         /\ \A j \in Indexed(g, label, place) :
               ~Nearer(place, g.records[j], g.records[FindNearest(g, label, place)])
<1> DEFINE near == Indexed(g, label, place)
           num == [i \in near |-> Off(place, g.records[i])]
           den == [i \in near |-> g.records[i].count]
<1>1. near \subseteq 1 .. Len(g.records) /\ IsFiniteSet(near) /\ near # {}
  BY IndexedMembers
<1>2. \A i \in near : g.records[i].sum \in Int /\ g.records[i].count \in Nat \ {0}
  BY <1>1, Records
<1>3. num \in [near -> Nat] /\ den \in [near -> Nat \ {0}]
  <2> HIDE DEF near
  <2>1. \A i \in near : Off(place, g.records[i]) \in Nat
    BY <1>2, OffTyped DEF Off
  <2>2. QED
    BY <1>2, <2>1
<1>4. PICK c \in near : \A d \in near : ~(num[d] * den[c] < num[c] * den[d])
  <2> HIDE DEF near, num, den
  <2>1. QED
    BY <1>1, <1>3, LeastRatio
<1>5. \E i \in near : \A j \in near : ~Nearer(place, g.records[j], g.records[i])
  <2> HIDE DEF near
  <2>1. QED
    BY <1>4 DEF Nearer
<1>6. FindNearest(g, label, place) =
        CHOOSE i \in near : \A j \in near : ~Nearer(place, g.records[j], g.records[i])
  BY DEF FindNearest
<1> HIDE DEF near
<1>7. QED
  BY <1>5, <1>6 DEF near

(* What a copy with an exact index finds is what IndexFindsNearest asks.   *)
LEMMA IndexIsEnough ==
  ASSUME NEW g, g.records \in Seq(ObjectType), Exact(g), NEW label, NEW place \in Int
  PROVE  Indexed(g, label, place) =
           {i \in DOMAIN g.records : g.records[i].label = label /\ Within(place, g.records[i])}
<1>1. \A i \in DOMAIN g.records : g.records[i].sum \in Int /\ g.records[i].count \in Nat \ {0}
  BY Records
<1>2. ASSUME NEW i \in DOMAIN g.records, g.records[i].label = label,
             Within(place, g.records[i])
      PROVE  i \in Indexed(g, label, place)
  <2>1. CellOf(g.records[i]) - place \div Threshold \in -1 .. 1
    BY <1>1, <1>2, CellNear DEF Within, Off, CellOf
  <2>2. CellOf(g.records[i]) \in Int /\ place \div Threshold \in Int
    <3>1. g.records[i].count * Threshold \in Nat \ {0} /\ Threshold \in Nat \ {0}
      BY <1>1, ConfirmationAssumption
    <3>2. QED
      BY <1>1, <3>1 DEF CellOf
  <2>3. \E d \in -1 .. 1 : place \div Threshold + d = CellOf(g.records[i])
    BY <2>1, <2>2
  <2>4. <<label, CellOf(g.records[i]), i>> \in g.index
    BY <1>2 DEF Exact
  <2>5. QED
    BY <1>2, <2>3, <2>4 DEF Indexed
<1>3. ASSUME NEW i \in Indexed(g, label, place)
      PROVE  /\ i \in DOMAIN g.records /\ g.records[i].label = label
             /\ Within(place, g.records[i])
  <2>1. PICK d \in -1 .. 1 : /\ <<label, (place \div Threshold) + d, i>> \in g.index
                             /\ Within(place, g.records[i])
    BY <1>3 DEF Indexed
  <2>2. PICK j \in DOMAIN g.records :
          <<label, (place \div Threshold) + d, i>>
            = <<g.records[j].label, CellOf(g.records[j]), j>>
    BY <2>1 DEF Exact
  <2>3. QED
    BY <2>1, <2>2
<1>4. QED
  BY <1>2, <1>3

-----------------------------------------------------------------------------
(* A fold from the left, step by step.  (The provers cannot instantiate a  *)
(* lemma about every operator, so there is one for each operator folded.)  *)
LEMMA SumSteps ==
  ASSUME NEW s, NEW n \in Nat, DOMAIN s = 1 .. n
  PROVE  \E f : /\ f[0] = 0
               /\ \A i \in 1 .. n : f[i] = f[i - 1] + s[i].place
               /\ f[n] = PlaceSum(s)
<1> DEFINE Op(h, e) == h + e.place
           Body(f, u) == IF u = {} THEN 0 ELSE Op(f[u \ {Max(u)}], s[Max(u)])
           Steps(f, m) == f = [u \in SUBSET (1 .. m) |-> Body(f, u)]
           T == {m \in Nat : \E f : Steps(f, m)}
           iter == CHOOSE f : Steps(f, n)
<1>1. PlaceSum(s) = iter[1 .. n]
  BY DEF PlaceSum, FoldLeft, MapThenFoldSet
<1> HIDE DEF Op
<1>2. \A m \in Nat : \A u \in SUBSET (1 .. m) :
        u # {} => Max(u) \in u /\ \A d \in u : d <= Max(u)
  <2> SUFFICES ASSUME NEW m \in Nat, NEW u \in SUBSET (1 .. m), u # {}
               PROVE  Max(u) \in u /\ \A d \in u : d <= Max(u)
    OBVIOUS
  <2>1. IsFiniteSet(u) /\ u \in SUBSET Int
    <3>1. IsFiniteSet(1 .. m) /\ 1 .. m \subseteq Int
      BY FS_Interval
    <3>2. QED
      BY <3>1, FS_Subset
  <2>2. QED
    BY <2>1, MaxMember
<1>3. 0 \in T
  <2> DEFINE f == [u \in SUBSET (1 .. 0) |-> 0]
  <2>1. \A u \in SUBSET (1 .. 0) : u = {}
    OBVIOUS
  <2>2. Steps(f, 0)
    BY <2>1
  <2> HIDE DEF Steps, f
  <2>3. QED
    BY <2>2
<1>4. ASSUME NEW m \in T PROVE m + 1 \in T
  <2>1. PICK f : Steps(f, m)
    OBVIOUS
  <2> DEFINE g == [u \in SUBSET (1 .. m + 1) |-> IF u \subseteq 1 .. m THEN f[u] ELSE Body(f, u)]
  <2>2. ASSUME NEW u \in SUBSET (1 .. m + 1) PROVE g[u] = Body(g, u)
    <3>1. CASE u = {}
      <4>1. u \in SUBSET (1 .. m) /\ f[u] = Body(f, u)
        BY <2>1, <3>1
      <4>2. QED
        BY <3>1, <4>1
    <3>2. CASE u # {}
      <4> DEFINE x == Max(u)
                 v == u \ {x}
      <4>1. x \in u /\ (\A d \in u : d <= x) /\ x \in 1 .. m + 1
        <5>1. m + 1 \in Nat
          OBVIOUS
        <5>2. QED
          BY <1>2, <3>2, <5>1
      <4>2. v \in SUBSET (1 .. m) /\ v \in SUBSET (1 .. m + 1)
        <5> HIDE DEF x
        <5>1. QED
          BY <4>1
      <4>3. g[v] = f[v]
        BY <4>2
      <4>4. g[u] = Body(f, u)
        BY <2>1
      <4>5. Body(f, u) = Op(f[v], s[x]) /\ Body(g, u) = Op(g[v], s[x])
        BY <3>2
      <4>6. QED
        BY <4>3, <4>4, <4>5
    <3>3. QED
      BY <3>1, <3>2
  <2>3. Steps(g, m + 1)
    <3>1. g = [u \in SUBSET (1 .. m + 1) |-> g[u]]
      OBVIOUS
    <3> HIDE DEF g, Body
    <3>2. QED
      BY <2>2, <3>1
  <2> HIDE DEF Steps, g
  <2>4. QED
    BY <2>3
<1>5. n \in T
  <2>1. T \in SUBSET Nat
    OBVIOUS
  <2> HIDE DEF T
  <2>2. QED
    BY <1>3, <1>4, <2>1, NatInd
<1>6. Steps(iter, n)
  <2> HIDE DEF Steps
  <2>1. QED
    BY <1>5
<1> DEFINE f == [i \in 0 .. n |-> iter[1 .. i]]
<1> HIDE DEF iter
<1>7. f[0] = 0
  <2>1. 1 .. 0 = {} /\ 1 .. 0 \in SUBSET (1 .. n)
    OBVIOUS
  <2>2. QED
    BY <1>6, <2>1
<1>8. ASSUME NEW i \in 1 .. n PROVE f[i] = Op(f[i - 1], s[i])
  <2> DEFINE u == 1 .. i
  <2>1. u \in SUBSET (1 .. n) /\ u # {} /\ i \in u /\ \A d \in u : d <= i
    OBVIOUS
  <2>2. Max(u) = i
    <3>1. Max(u) \in u /\ i <= Max(u)
      BY <1>2, <2>1
    <3>2. QED
      BY <3>1
  <2>3. u \ {i} = 1 .. i - 1
    OBVIOUS
  <2> HIDE DEF u
  <2>4. iter[u] = Op(iter[1 .. i - 1], s[i])
    BY <1>6, <2>1, <2>2, <2>3
  <2>5. QED
    BY <2>4 DEF u
<1>9. f[n] = PlaceSum(s)
  BY <1>1
<1> HIDE DEF f
<1>10. QED
  BY <1>7, <1>8, <1>9 DEF Op

-----------------------------------------------------------------------------
(* Tentative candidates.                                                   *)
LEMMA CentroidTyped ==
  ASSUME NEW s \in Seq(ObservationType), s # <<>>
  PROVE  Centroid(s).sum \in Int /\ Centroid(s).count \in Nat \ {0}
<1>1. Len(s) \in Nat \ {0} /\ DOMAIN s = 1 .. Len(s)
  OBVIOUS
<1>2. PICK f : /\ f[0] = 0
               /\ \A i \in 1 .. Len(s) : f[i] = f[i - 1] + s[i].place
               /\ f[Len(s)] = PlaceSum(s)
  BY <1>1, SumSteps
<1> DEFINE T == {i \in 0 .. Len(s) : f[i] \in Int}
<1>3. 0 \in T /\ \A i \in 0 .. Len(s) - 1 : i \in T => i + 1 \in T
  <2>1. \A i \in 1 .. Len(s) : s[i].place \in Int
    <3>1. \A i \in 1 .. Len(s) : s[i] \in ObservationType
      OBVIOUS
    <3>2. \A o \in ObservationType : o.place \in Int
      BY DEF ObservationType
    <3>3. QED
      BY <3>1, <3>2
  <2>2. ASSUME NEW i \in 0 .. Len(s) - 1, i \in T PROVE i + 1 \in T
    <3>1. i + 1 \in 1 .. Len(s) /\ i + 1 - 1 = i
      BY <1>1
    <3>2. f[i + 1] = f[i] + s[i + 1].place
      BY <1>2, <3>1
    <3>3. QED
      BY <2>1, <2>2, <3>1, <3>2
  <2>3. QED
    BY <1>1, <1>2, <2>2
<1> HIDE DEF T
<1>4. Len(s) \in T
  <2>1. Len(s) \in Nat /\ Len(s) \in 0 .. Len(s)
    OBVIOUS
  <2>2. \A i \in 0 .. Len(s) : i \in T
    BY <1>3, <2>1, IntervalInd
  <2>3. QED
    BY <2>1, <2>2
<1>5. PlaceSum(s) \in Int
  BY <1>2, <1>4 DEF T
<1>6. QED
  BY <1>1, <1>5 DEF Centroid

(* A set written as a sequence (SetToSeqs).                                *)
LEMMA Enumeration ==
  ASSUME NEW S, IsFiniteSet(S), NEW s \in SetToSeqs(S)
  PROVE  /\ s \in Seq(S) /\ DOMAIN s = 1 .. Len(s)
         /\ \A x \in S : \E i \in DOMAIN s : s[i] = x
         /\ \A i, j \in DOMAIN s : s[i] = s[j] => i = j
<1> DEFINE n == Cardinality(S)
<1>1. n \in Nat
  BY FS_CardinalityType
<1>2. s \in [1 .. n -> S] /\ \A i, j \in 1 .. n : i # j => s[i] # s[j]
  BY DEF SetToSeqs
<1>3. s \in Injection(1 .. n, S)
  BY <1>2 DEF Injection, IsInjective
<1>4. Cardinality(1 .. n) = n
  BY <1>1, FS_Interval
<1>5. s \in Surjection(1 .. n, S)
  BY <1>3, <1>4, FS_Injection
<1> HIDE DEF n
<1>6. s \in Seq(S) /\ Len(s) = n
  BY <1>1, <1>2
<1>7. QED
  BY <1>2, <1>5, <1>6 DEF Surjection

Apart2(S) == \A o, p \in S : o.stamp = p.stamp => o = p

LEMMA OrderExists ==
  ASSUME NEW S \in SUBSET ObservationType, IsFiniteSet(S), Apart2(S)
  PROVE  \E s \in SetToSeqs(S) : Ordered(s)
<1> DEFINE Sorted(Q) == \E s \in SetToSeqs(Q) : Ordered(s)
           T == {n \in Nat : \A Q \in SUBSET ObservationType :
                   IsFiniteSet(Q) /\ Cardinality(Q) = n /\ Apart2(Q) => Sorted(Q)}
<1>1. 0 \in T
  <2>1. SUFFICES ASSUME NEW Q \in SUBSET ObservationType, IsFiniteSet(Q), Cardinality(Q) = 0
                 PROVE  Sorted(Q)
    OBVIOUS
  <2>2. Q = {}
    BY <2>1, FS_EmptySet
  <2>3. <<>> \in SetToSeqs(Q) /\ Ordered(<<>>)
    <3>1. <<>> \in [1 .. 0 -> Q] /\ DOMAIN <<>> = {}
      OBVIOUS
    <3>2. QED
      BY <2>1, <3>1 DEF SetToSeqs, Ordered
  <2>4. QED
    BY <2>3
<1>2. ASSUME NEW n \in T PROVE n + 1 \in T
  <2>1. SUFFICES ASSUME NEW Q \in SUBSET ObservationType, IsFiniteSet(Q),
                        Cardinality(Q) = n + 1, Apart2(Q)
                 PROVE  Sorted(Q)
    OBVIOUS
  <2>2. n \in Nat /\ Q # {}
    <3>1. n \in Nat
      OBVIOUS
    <3>2. QED
      BY <2>1, <3>1, FS_EmptySet
  <2> DEFINE B == {p \in Q \X Q : p[1].stamp >= p[2].stamp}
  <2>3. /\ \A a, b \in Q : <<a, b>> \in B \/ <<b, a>> \in B
        /\ \A a, b, c \in Q : <<a, b>> \in B /\ <<b, c>> \in B => <<a, c>> \in B
    <3>1. \A a \in Q : a.stamp \in Nat
      BY DEF ObservationType
    <3>2. QED
      BY <3>1
  <2>4. PICK m \in Q : \A d \in Q : <<m, d>> \in B
    <3> HIDE DEF B
    <3>1. QED
      BY <2>1, <2>2, <2>3, LeastMember
  <2> DEFINE R == Q \ {m}
  <2>5. IsFiniteSet(R) /\ Cardinality(R) = n /\ Apart2(R) /\ R \in SUBSET ObservationType
    <3>1. IsFiniteSet(R) /\ Cardinality(R) = Cardinality(Q) - 1
      BY <2>1, FS_RemoveElement
    <3>2. QED
      BY <2>1, <2>2, <3>1 DEF Apart2
  <2>6. PICK r \in SetToSeqs(R) : Ordered(r)
    <3> HIDE DEF R
    <3>1. QED
      BY <2>5
  <2>7. /\ r \in [1 .. n -> R]
        /\ \A i, j \in 1 .. n : i # j => r[i] # r[j]
    BY <2>5, <2>6 DEF SetToSeqs
  <2> DEFINE s == [i \in 1 .. n + 1 |-> IF i <= n THEN r[i] ELSE m]
  <2>8. s \in [1 .. n + 1 -> Q] /\ \A i, j \in 1 .. n + 1 : i # j => s[i] # s[j]
    BY <2>2, <2>7
  <2>9. s \in SetToSeqs(Q)
    <3> HIDE DEF s
    <3>1. QED
      BY <2>1, <2>8 DEF SetToSeqs
  <2>10. Ordered(s)
    <3>1. \A a \in Q : a.stamp \in Nat
      BY DEF ObservationType
    <3>2. \A a \in R : a.stamp < m.stamp
      <4>1. \A a \in Q : m.stamp >= a.stamp
        BY <2>4
      <4>2. \A a \in R : a.stamp # m.stamp
        BY <2>1 DEF Apart2
      <4>3. QED
        BY <3>1, <4>1, <4>2
    <3>3. \A i, j \in 1 .. n : i < j => r[i].stamp < r[j].stamp
      BY <2>6, <2>7 DEF Ordered
    <3>4. ASSUME NEW i \in 1 .. n + 1, NEW j \in 1 .. n + 1, i < j
          PROVE  s[i].stamp < s[j].stamp
      <4>1. i \in 1 .. n /\ s[i] = r[i] /\ r[i] \in R
        BY <2>2, <2>7, <3>4
      <4>2. CASE j = n + 1
        <5>1. s[j] = m
          BY <2>2, <4>2
        <5>2. QED
          BY <3>2, <4>1, <5>1
      <4>3. CASE j \in 1 .. n
        <5>1. s[j] = r[j]
          BY <4>3
        <5>2. QED
          BY <3>3, <3>4, <4>1, <4>3, <5>1
      <4>4. QED
        BY <2>2, <4>2, <4>3
    <3>5. DOMAIN s = 1 .. n + 1
      OBVIOUS
    <3> HIDE DEF s
    <3>6. QED
      BY <3>4, <3>5 DEF Ordered
  <2> HIDE DEF s
  <2>11. QED
    BY <2>9, <2>10
<1>3. T = Nat
  <2>1. T \in SUBSET Nat
    OBVIOUS
  <2> HIDE DEF T
  <2>2. QED
    BY <1>1, <1>2, <2>1, NatInd
<1>4. Cardinality(S) \in T
  BY <1>3, FS_CardinalityType
<1>5. QED
  BY <1>4

LEMMA InOrderOf ==
  ASSUME NEW S \in SUBSET ObservationType, IsFiniteSet(S), Apart2(S)
  PROVE  /\ InOrder(S) \in Seq(ObservationType) /\ Ordered(InOrder(S))
         /\ \A o \in S : \E i \in DOMAIN InOrder(S) : InOrder(S)[i] = o
         /\ \A i \in DOMAIN InOrder(S) : InOrder(S)[i] \in S
<1>1. InOrder(S) = CHOOSE s \in SetToSeqs(S) : Ordered(s)
  BY DEF InOrder, Ordered
<1>2. InOrder(S) \in SetToSeqs(S) /\ Ordered(InOrder(S))
  BY <1>1, OrderExists
<1> DEFINE s == InOrder(S)
<1> HIDE DEF s
<1>3. s \in Seq(S) /\ (\A x \in S : \E i \in DOMAIN s : s[i] = x) /\ Ordered(s)
  BY <1>2, Enumeration DEF s
<1>4. s \in Seq(ObservationType) /\ \A i \in DOMAIN s : s[i] \in S
  BY <1>3
<1>5. QED
  BY <1>3, <1>4 DEF s

LEMMA FiniteRange ==
  ASSUME NEW n \in Nat, NEW f, DOMAIN f = 1 .. n
  PROVE  IsFiniteSet({f[i] : i \in 1 .. n})
<1> DEFINE T == {f[i] : i \in 1 .. n}
           h == [i \in 1 .. n |-> f[i]]
<1>1. h \in Surjection(1 .. n, T)
  <2>1. h \in [1 .. n -> T] /\ \A x \in T : \E i \in 1 .. n : h[i] = x
    OBVIOUS
  <2> HIDE DEF h, T
  <2>2. QED
    BY <2>1 DEF Surjection
<1>2. IsFiniteSet(1 .. n)
  BY FS_Interval
<1> HIDE DEF h, T
<1>3. IsFiniteSet(T)
  BY <1>1, <1>2, FS_Surjection
<1>4. QED
  BY <1>3 DEF T

(* What is left after the last gap is the end of the sequence.             *)
LEMMA AfterGap ==
  ASSUME NEW t \in Seq(ObservationType), t # <<>>
  PROVE  \E m \in 1 .. Len(t) :
           /\ AfterLastGap(t) \in Seq(ObservationType)
           /\ Len(AfterLastGap(t)) = Len(t) - m + 1
           /\ \A i \in 1 .. Len(AfterLastGap(t)) : AfterLastGap(t)[i] = t[m + i - 1]
           /\ \A i \in m + 1 .. Len(t) : t[i].stamp - t[i - 1].stamp <= ConfirmationMaxGap
<1> DEFINE gaps == {i \in 2 .. Len(t) : t[i].stamp - t[i - 1].stamp > ConfirmationMaxGap}
<1>1. Len(t) \in Nat \ {0}
  OBVIOUS
<1>2. \A i \in 2 .. Len(t) : i \notin gaps => t[i].stamp - t[i - 1].stamp <= ConfirmationMaxGap
  <2>1. \A i \in 1 .. Len(t) : t[i] \in ObservationType
    OBVIOUS
  <2>2. \A o \in ObservationType : o.stamp \in Int
    BY DEF ObservationType
  <2>3. \A i \in 2 .. Len(t) : i \in 1 .. Len(t) /\ i - 1 \in 1 .. Len(t)
    BY <1>1
  <2>4. ConfirmationMaxGap \in Int
    BY ConfirmationAssumption
  <2>5. QED
    BY <2>1, <2>2, <2>3, <2>4
<1>3. CASE gaps = {}
  <2>1. AfterLastGap(t) = t
    BY <1>3 DEF AfterLastGap
  <2>2. 1 \in 1 .. Len(t) /\ Len(t) = Len(t) - 1 + 1 /\ \A i \in 1 .. Len(t) : i = 1 + i - 1
    BY <1>1
  <2> HIDE DEF gaps
  <2>3. \A i \in 1 + 1 .. Len(t) : t[i].stamp - t[i - 1].stamp <= ConfirmationMaxGap
    BY <1>2, <1>3
  <2>4. QED
    BY <2>1, <2>2, <2>3
<1>4. CASE gaps # {}
  <2> DEFINE m == Max(gaps)
  <2>1. IsFiniteSet(gaps) /\ gaps \in SUBSET Int
    <3>1. IsFiniteSet(2 .. Len(t)) /\ 2 .. Len(t) \subseteq Int
      BY <1>1, FS_Interval
    <3>2. QED
      BY <3>1, FS_Subset
  <2>2. m \in gaps /\ \A d \in gaps : d <= m
    <3> HIDE DEF gaps
    <3>1. QED
      BY <1>4, <2>1, MaxMember
  <2>3. m \in 1 .. Len(t)
    BY <2>2
  <2>4. AfterLastGap(t) = SubSeq(t, m, Len(t))
    BY <1>4 DEF AfterLastGap
  <2> HIDE DEF m
  <2>5. \A i \in m + 1 .. Len(t) : i \in 2 .. Len(t) /\ ~(i <= m)
    BY <1>1, <2>3
  <2> HIDE DEF gaps
  <2>6. \A i \in m + 1 .. Len(t) : t[i].stamp - t[i - 1].stamp <= ConfirmationMaxGap
    BY <1>2, <2>2, <2>5
  <2>7. /\ SubSeq(t, m, Len(t)) \in Seq(ObservationType)
        /\ Len(SubSeq(t, m, Len(t))) = Len(t) - m + 1
        /\ \A i \in 1 .. Len(t) - m + 1 : SubSeq(t, m, Len(t))[i] = t[m + i - 1]
    BY <1>1, <2>3, SubSeqProperties
  <2>8. QED
    BY <2>3, <2>4, <2>6, <2>7
<1>5. QED
  BY <1>3, <1>4

LEMMA RecentOf ==
  ASSUME NEW S \in SUBSET ObservationType, IsFiniteSet(S), S # {}
  PROVE  Recent(S) # {} /\ Recent(S) \subseteq S /\ IsFiniteSet(Recent(S))
<1> DEFINE B == {p \in S \X S : p[1].stamp >= p[2].stamp}
<1>1. \A a \in S : a.stamp \in Nat
  BY DEF ObservationType
<1>2. /\ \A a, b \in S : <<a, b>> \in B \/ <<b, a>> \in B
      /\ \A a, b, c \in S : <<a, b>> \in B /\ <<b, c>> \in B => <<a, c>> \in B
  BY <1>1
<1>3. PICK m \in S : \A d \in S : <<m, d>> \in B
  <2> HIDE DEF B
  <2>1. QED
    BY <1>2, LeastMember
<1>4. m \in Recent(S)
  <2>1. \A p \in S : p.stamp - m.stamp <= ConfirmationWindow
    <3>1. \A p \in S : m.stamp >= p.stamp
      BY <1>3
    <3>2. QED
      BY <1>1, <3>1, ConfirmationAssumption
  <2>2. QED
    BY <2>1 DEF Recent
<1>5. Recent(S) \subseteq S
  BY DEF Recent
<1>6. QED
  BY <1>4, <1>5, FS_Subset

(* Normalize: a run in order, without an excessive gap and inside the      *)
(* window, that has every observation from its first on.                   *)
LEMMA NormalizeRun ==
  ASSUME NEW s \in Seq(ObservationType), s # <<>>, Apart2(ToSet(s)),
         NEW run, run = Normalize(s)
  PROVE  /\ run \in Seq(ObservationType) /\ run # <<>>
         /\ Ordered(run)
         /\ \A i \in 2 .. Len(run) : run[i].stamp - run[i - 1].stamp <= ConfirmationMaxGap
         /\ run[Len(run)].stamp - run[1].stamp <= ConfirmationWindow
         /\ \A i \in DOMAIN s : s[i].stamp >= run[1].stamp =>
               \E j \in DOMAIN run : run[j].stamp = s[i].stamp
<1> DEFINE S == ToSet(s)
           t == InOrder(Recent(S))
<1>1. S \in SUBSET ObservationType /\ S # {} /\ IsFiniteSet(S)
      /\ (\A i \in DOMAIN s : s[i] \in S) /\ (\A o \in S : o.stamp \in Int)
  <2>1. S = {s[i] : i \in 1 .. Len(s)} /\ Len(s) \in Nat \ {0} /\ DOMAIN s = 1 .. Len(s)
    BY DEF ToSet
  <2>2. IsFiniteSet(S)
    <3>1. Len(s) \in Nat
      OBVIOUS
    <3>2. QED
      BY <2>1, <3>1, FiniteRange
  <2>3. \A i \in 1 .. Len(s) : s[i] \in ObservationType
    OBVIOUS
  <2>4. \A o \in ObservationType : o.stamp \in Int
    BY DEF ObservationType
  <2>5. 1 \in 1 .. Len(s)
    BY <2>1
  <2> HIDE DEF S
  <2>6. QED
    BY <2>1, <2>2, <2>3, <2>4, <2>5
<1> HIDE DEF S
<1>2. Recent(S) # {} /\ Recent(S) \subseteq S /\ IsFiniteSet(Recent(S))
  BY <1>1, RecentOf
<1>3. Apart2(Recent(S)) /\ Recent(S) \in SUBSET ObservationType
  BY <1>1, <1>2 DEF S, Apart2
<1>4. /\ t \in Seq(ObservationType) /\ Ordered(t)
      /\ \A o \in Recent(S) : \E i \in DOMAIN t : t[i] = o
      /\ \A i \in DOMAIN t : t[i] \in Recent(S)
  BY <1>2, <1>3, InOrderOf
<1>5. run = AfterLastGap(t)
  BY DEF Normalize, S
<1> HIDE DEF t
<1>6. t # <<>> /\ DOMAIN t = 1 .. Len(t) /\ Len(t) \in Nat
  BY <1>2, <1>4
<1>7. PICK m \in 1 .. Len(t) :
        /\ run \in Seq(ObservationType)
        /\ Len(run) = Len(t) - m + 1
        /\ \A i \in 1 .. Len(run) : run[i] = t[m + i - 1]
        /\ \A i \in m + 1 .. Len(t) : t[i].stamp - t[i - 1].stamp <= ConfirmationMaxGap
  BY <1>4, <1>5, <1>6, AfterGap
<1>8. Len(run) \in Nat \ {0} /\ run # <<>> /\ DOMAIN run = 1 .. Len(run)
  BY <1>6, <1>7
<1>9. \A i \in 1 .. Len(run) : m + i - 1 \in 1 .. Len(t)
  BY <1>6, <1>7, <1>8
<1>10. \A i \in 1 .. Len(t) : t[i].stamp \in Int /\ t[i] \in Recent(S)
  BY <1>1, <1>2, <1>4, <1>6
<1>11. Ordered(run)
  <2> SUFFICES ASSUME NEW i \in 1 .. Len(run), NEW j \in 1 .. Len(run), i < j
               PROVE  run[i].stamp < run[j].stamp
    BY <1>8 DEF Ordered
  <2>1. m + i - 1 < m + j - 1
    BY <1>6, <1>7, <1>8
  <2>2. t[m + i - 1].stamp < t[m + j - 1].stamp
    BY <1>4, <1>6, <1>9, <2>1 DEF Ordered
  <2>3. QED
    BY <1>7, <2>2
<1>12. ASSUME NEW i \in 2 .. Len(run)
       PROVE  run[i].stamp - run[i - 1].stamp <= ConfirmationMaxGap
  <2>1. /\ i \in 1 .. Len(run) /\ i - 1 \in 1 .. Len(run)
        /\ m + (i - 1) - 1 = (m + i - 1) - 1 /\ m + i - 1 \in m + 1 .. Len(t)
    BY <1>6, <1>7, <1>8, <1>9
  <2>2. run[i] = t[m + i - 1] /\ run[i - 1] = t[(m + i - 1) - 1]
    BY <1>7, <2>1
  <2>3. QED
    BY <1>7, <2>1, <2>2
<1>13. run[Len(run)].stamp - run[1].stamp <= ConfirmationWindow
  <2>1. run[Len(run)] \in Recent(S) /\ run[1] \in Recent(S)
    <3>1. 1 \in 1 .. Len(run) /\ Len(run) \in 1 .. Len(run)
      BY <1>8
    <3>2. QED
      BY <1>7, <1>9, <1>10, <3>1
  <2>2. QED
    BY <2>1 DEF Recent
<1>14. ASSUME NEW i \in DOMAIN s, s[i].stamp >= run[1].stamp
       PROVE  \E j \in DOMAIN run : run[j].stamp = s[i].stamp
  <2>1. run[1] = t[m] /\ t[m] \in Recent(S) /\ t[m].stamp \in Int
    <3>1. 1 \in 1 .. Len(run) /\ m + 1 - 1 = m
      BY <1>6, <1>7, <1>8
    <3>2. QED
      BY <1>7, <1>10, <3>1
  <2>2. s[i] \in Recent(S)
    <3>1. \A p \in S : p.stamp - t[m].stamp <= ConfirmationWindow
      BY <2>1 DEF Recent
    <3>2. \A p \in S : p.stamp - s[i].stamp <= ConfirmationWindow
      BY <1>1, <1>14, <2>1, <3>1, ConfirmationAssumption
    <3>3. QED
      BY <1>1, <3>2 DEF Recent
  <2>3. PICK k \in 1 .. Len(t) : t[k] = s[i]
    BY <1>4, <1>6, <2>2
  <2>4. ~(k < m)
    <3>1. k < m => t[k].stamp < t[m].stamp
      BY <1>4, <1>6 DEF Ordered
    <3>2. s[i].stamp \in Int
      BY <1>10, <2>3
    <3>3. QED
      BY <1>14, <2>1, <2>3, <3>1, <3>2
  <2>5. k - m + 1 \in 1 .. Len(run) /\ m + (k - m + 1) - 1 = k
    BY <1>6, <1>7, <2>4
  <2>6. run[k - m + 1] = t[k]
    BY <1>7, <2>5
  <2>7. QED
    BY <1>8, <2>3, <2>5, <2>6
<1>15. QED
  BY <1>7, <1>8, <1>11, <1>12, <1>13, <1>14

(* An observation is added, or it takes the place of the one of its        *)
(* instant: every instant stays.                                           *)
LEMMA AddObservationKeeps ==
  ASSUME NEW s \in Seq(ObservationType), NEW o \in ObservationType,
         \A i, j \in DOMAIN s : s[i].stamp = s[j].stamp => i = j
  PROVE  LET t == AddObservation(s, o)
         IN  /\ t \in Seq(ObservationType) /\ t # <<>>
             /\ \A i, j \in DOMAIN t : t[i].stamp = t[j].stamp => i = j
             /\ \A i \in DOMAIN s : \E j \in DOMAIN t : t[j].stamp = s[i].stamp
<1> DEFINE t == AddObservation(s, o)
           same == {i \in DOMAIN s : s[i].stamp = o.stamp}
<1>1. Len(s) \in Nat /\ DOMAIN s = 1 .. Len(s)
  OBVIOUS
<1>2. CASE same = {}
  <2>1. t = Append(s, o)
    BY <1>2 DEF AddObservation
  <2> HIDE DEF t
  <2>2. /\ t \in Seq(ObservationType) /\ Len(t) = Len(s) + 1 /\ t # <<>>
        /\ DOMAIN t = 1 .. Len(s) + 1 /\ t[Len(s) + 1] = o
        /\ \A i \in 1 .. Len(s) : t[i] = s[i]
    BY <1>1, <2>1
  <2>3. \A i \in 1 .. Len(s) + 1 : i \in 1 .. Len(s) \/ i = Len(s) + 1
    BY <1>1
  <2>4. \A i \in 1 .. Len(s) : i \in 1 .. Len(s) + 1 /\ s[i].stamp # o.stamp
    BY <1>1, <1>2
  <2>5. \A i, j \in DOMAIN t : t[i].stamp = t[j].stamp => i = j
    BY <1>1, <2>2, <2>3, <2>4
  <2> HIDE DEF same
  <2>6. QED
    BY <1>1, <2>2, <2>4, <2>5 DEF t
<1>3. CASE same # {}
  <2> DEFINE k == CHOOSE i \in same : TRUE
  <2>1. k \in 1 .. Len(s) /\ s[k].stamp = o.stamp
    BY <1>1, <1>3
  <2>2. t = [s EXCEPT ![k] = o] \/ t = s
    BY <1>3 DEF AddObservation
  <2> HIDE DEF t, k, same
  <2>3. CASE t = s
    BY <1>1, <2>1, <2>3 DEF t
  <2>4. CASE t = [s EXCEPT ![k] = o]
    <3>1. /\ t \in Seq(ObservationType) /\ Len(t) = Len(s)
          /\ \A j \in 1 .. Len(s) : t[j] = IF j = k THEN o ELSE s[j]
      BY <2>1, <2>4, ExceptSeq
    <3>2. DOMAIN t = 1 .. Len(s) /\ t # <<>>
      BY <1>1, <2>1, <3>1
    <3>3. \A j \in 1 .. Len(s) : t[j].stamp = s[j].stamp
      BY <2>1, <3>1
    <3>4. QED
      BY <1>1, <3>1, <3>2, <3>3 DEF t
  <2>5. QED
    BY <2>2, <2>3, <2>4
<1>4. QED
  BY <1>2, <1>3

(* The crop stays one of the run's.                                        *)
LEMMA BestCropOfRun ==
  ASSUME NEW crop \in CropType, NEW run \in Seq(ObservationType), run # <<>>,
         NEW o, o.stamp \in Nat, o.conf \in Nat, NEW shows,
         crop = NoCrop \/ (crop.stamp >= run[1].stamp =>
                             \E i \in DOMAIN run : run[i].stamp = crop.stamp)
  PROVE  LET best == BestCrop(crop, run, o, shows)
         IN  /\ best \in CropType
             /\ best = NoCrop \/ \E i \in DOMAIN run : run[i].stamp = best.stamp
<1> DEFINE kept == IF crop.stamp < run[1].stamp THEN NoCrop ELSE crop
           best == BestCrop(crop, run, o, shows)
<1>1. NoCrop \in CropType
  BY DEF NoCrop, CropType
<1>2. run[1].stamp \in Int /\ crop.stamp \in Int
  <2>1. run[1] \in ObservationType
    OBVIOUS
  <2>2. QED
    BY <2>1 DEF ObservationType, CropType
<1>3. kept \in CropType /\ (kept = NoCrop \/ \E i \in DOMAIN run : run[i].stamp = kept.stamp)
  BY <1>1, <1>2
<1>4. best = kept \/ /\ best = [conf |-> o.conf, stamp |-> o.stamp]
                     /\ \E i \in DOMAIN run : run[i].stamp = o.stamp
  BY DEF BestCrop
<1>5. [conf |-> o.conf, stamp |-> o.stamp] \in CropType
  BY DEF CropType
<1> HIDE DEF kept, best
<1>6. QED
  BY <1>3, <1>4, <1>5 DEF best

(* The nearest candidate is a candidate of the label.                      *)
LEMMA CandidateFound ==
  ASSUME NEW g, g.candidates \in Candidates, \A c \in g.candidates : Tentative(c),
         NEW label, NEW place \in Int
  PROVE  LET c == FindNearestCandidate(g, label, place)
         IN  c = NoCandidate \/ (c \in g.candidates /\ c.label = label)
<1> DEFINE near == {c \in g.candidates :
                      c.label = label /\ Within(place, Centroid(c.observations))}
           num == [c \in near |-> Off(place, Centroid(c.observations))]
           den == [c \in near |-> Centroid(c.observations).count]
<1>1. near \subseteq CandidateType /\ IsFiniteSet(near)
  <2>1. g.candidates \subseteq CandidateType /\ IsFiniteSet(g.candidates)
    BY DEF Candidates
  <2>2. QED
    BY <2>1, FS_Subset
<1>2. \A c \in near : Centroid(c.observations).sum \in Int /\ Centroid(c.observations).count \in Nat \ {0}
  <2>1. \A c \in near : c.observations \in Seq(ObservationType) /\ c.observations # <<>>
    BY <1>1 DEF CandidateType, Tentative
  <2>2. QED
    BY <2>1, CentroidTyped
<1>3. \A c \in near : c \in g.candidates /\ c.label = label
  OBVIOUS
<1>4. FindNearestCandidate(g, label, place) =
        IF near = {} THEN NoCandidate
        ELSE CHOOSE c \in near : \A d \in near :
               ~Nearer(place, Centroid(d.observations), Centroid(c.observations))
  BY DEF FindNearestCandidate
<1> HIDE DEF near
<1>5. CASE near # {}
  <2>1. num \in [near -> Nat] /\ den \in [near -> Nat \ {0}]
    <3>1. \A c \in near : Off(place, Centroid(c.observations)) \in Nat
      BY <1>2, OffTyped DEF Off
    <3>2. QED
      BY <1>2, <3>1
  <2>2. PICK c \in near : \A d \in near : ~(num[d] * den[c] < num[c] * den[d])
    <3> HIDE DEF num, den
    <3>1. QED
      BY <1>1, <1>5, <2>1, LeastRatio
  <2>3. \E c1 \in near : \A d \in near :
          ~Nearer(place, Centroid(d.observations), Centroid(c1.observations))
    BY <2>2 DEF Nearer
  <2>4. FindNearestCandidate(g, label, place) \in near
    BY <1>4, <1>5, <2>3
  <2>5. QED
    BY <1>3, <2>4
<1>6. QED
  BY <1>4, <1>5

-----------------------------------------------------------------------------
(* Confirmed objects.                                                      *)

(* There is a number that no object of the label has, and so a first one.  *)
LEMMA FreshName ==
  ASSUME NEW records \in Seq(ObjectType), NEW label \in Labels
  PROVE  /\ AllocateName(records, label) \in Names
         /\ \A i \in DOMAIN records : records[i].name # AllocateName(records, label)
<1> DEFINE n == Len(records)
           used == {records[i].name : i \in DOMAIN records}
           Free == {k \in 1 .. n + 1 : <<label, k>> \notin used}
           First(k) == <<label, k>> \notin used /\ \A l \in 1 .. k - 1 : <<label, l>> \in used
<1>1. n \in Nat /\ DOMAIN records = 1 .. n
  OBVIOUS
<1>2. Free # {}
  <2> SUFFICES ASSUME Free = {} PROVE FALSE
    OBVIOUS
  <2> DEFINE h == [k \in 1 .. n + 1 |-> CHOOSE i \in 1 .. n : records[i].name = <<label, k>>]
  <2>1. \A k \in 1 .. n + 1 : \E i \in 1 .. n : records[i].name = <<label, k>>
    BY <1>1
  <2>2. \A k \in 1 .. n + 1 : h[k] \in 1 .. n /\ records[h[k]].name = <<label, k>>
    BY <2>1
  <2>3. h \in [1 .. n + 1 -> 1 .. n]
    BY <2>2
  <2> HIDE DEF h
  <2>4. \A k, l \in 1 .. n + 1 : h[k] = h[l] => k = l
    BY <2>2
  <2> HIDE DEF n
  <2>5. IsFiniteSet(1 .. n) /\ IsFiniteSet(1 .. n + 1)
        /\ Cardinality(1 .. n) = n /\ Cardinality(1 .. n + 1) = n + 1
    BY <1>1, FS_Interval
  <2>6. Cardinality(1 .. n) < Cardinality(1 .. n + 1)
    BY <1>1, <2>5
  <2>7. \E k, l \in 1 .. n + 1 : k # l /\ h[k] = h[l]
    <3> DEFINE U == 1 .. n + 1
               V == 1 .. n
    <3>1. IsFiniteSet(U) /\ IsFiniteSet(V) /\ Cardinality(V) < Cardinality(U) /\ h \in [U -> V]
      BY <2>3, <2>5, <2>6
    <3> HIDE DEF U, V
    <3>2. \E k, l \in U : k # l /\ h[k] = h[l]
      BY <3>1, FS_PigeonHole
    <3>3. QED
      BY <3>2 DEF U
  <2>8. QED
    BY <2>4, <2>7
<1> DEFINE B == {p \in Nat \X Nat : p[1] <= p[2]}
<1>3. PICK k \in Free : \A d \in Free : <<k, d>> \in B
  <2>1. IsFiniteSet(Free)
    <3>1. IsFiniteSet(1 .. n + 1)
      BY <1>1, FS_Interval
    <3>2. QED
      BY <3>1, FS_Subset
  <2>2. Free \subseteq Nat
    BY <1>1
  <2> HIDE DEF Free
  <2>3. /\ \A a, b \in Free : <<a, b>> \in B \/ <<b, a>> \in B
        /\ \A a, b, c \in Free : <<a, b>> \in B /\ <<b, c>> \in B => <<a, c>> \in B
    BY <2>2
  <2> HIDE DEF B
  <2>4. QED
    BY <1>2, <2>1, <2>3, LeastMember
<1>4. k \in 1 .. n + 1 /\ First(k)
  <2>1. k \in 1 .. n + 1 /\ <<label, k>> \notin used /\ k \in Nat \ {0}
    BY <1>1
  <2>2. ASSUME NEW l \in 1 .. k - 1 PROVE <<label, l>> \in used
    <3>1. l \in 1 .. n + 1 /\ ~(k <= l)
      BY <1>1, <2>1
    <3>2. l \notin Free
      BY <1>3, <3>1
    <3>3. QED
      BY <3>1, <3>2
  <2>3. QED
    BY <2>1, <2>2
<1>5. AllocateName(records, label) = <<label, CHOOSE j \in 1 .. n + 1 : First(j)>>
  BY DEF AllocateName
<1>6. PICK j \in 1 .. n + 1 : First(j) /\ AllocateName(records, label) = <<label, j>>
  <2> HIDE DEF First
  <2>1. QED
    BY <1>4, <1>5
<1>7. j \in Nat \ {0}
  BY <1>1
<1>8. QED
  BY <1>6, <1>7 DEF Names

LEMMA FilesAre ==
  ASSUME NEW f
  PROVE  f \in Files <=> /\ f = [p \in DOMAIN f |-> f[p]]
                         /\ DOMAIN f \in SUBSET Paths /\ \A p \in DOMAIN f : f[p] \in Int
BY DEF Files

LEMMA ImageStored ==
  ASSUME NEW f, NEW path, NEW conf
  PROVE  StoreImage(f, path, conf)[path] = conf
BY DEF StoreImage

LEMMA PathStored ==
  ASSUME NEW f, NEW path, NEW conf
  PROVE  DOMAIN StoreImage(f, path, conf) = DOMAIN f \cup {path}
BY DEF StoreImage

LEMMA OthersStay ==
  ASSUME NEW f, NEW path, NEW conf, NEW p \in DOMAIN f, p # path
  PROVE  StoreImage(f, path, conf)[p] = f[p]
BY DEF StoreImage

LEMMA StoredTyped ==
  ASSUME NEW f, f \in Files, NEW path, path \in Paths, NEW conf, conf \in Int
  PROVE  StoreImage(f, path, conf) \in Files
<1>1. DOMAIN f \in SUBSET Paths /\ \A p \in DOMAIN f : f[p] \in Int
  BY FilesAre
<1> DEFINE s == [p \in DOMAIN f \cup {path} |-> IF p = path THEN conf ELSE f[p]]
<1>2. s \in [DOMAIN f \cup {path} -> Int] /\ DOMAIN f \cup {path} \in SUBSET Paths
  BY <1>1
<1>3. QED
  BY <1>2 DEF StoreImage, Files

LEMMA NotAPath == NoPath \notin Paths
BY DEF NoPath, Paths, Names

LEMMA WorkFields ==
  ASSUME NEW g \in WorkType
  PROVE  /\ g.records \in Seq(ObjectType) /\ g.index \in SUBSET (Labels \X Int \X Nat)
         /\ g.candidates \in Candidates /\ g.files \in Files
         /\ g.dirty \in BOOLEAN /\ g.unpublished \in BOOLEAN /\ g.inserted \in BOOLEAN
BY DEF WorkType

(* The picture of r is drawn.                                              *)
Drawn(before, after, r) ==
  /\ r.image \in Paths
  /\ DOMAIN after = DOMAIN before \cup {r.image} /\ after[r.image] = r.conf
  /\ \A p \in DOMAIN before : p # r.image => after[p] = before[p]

LEMMA ImageDrawn ==
  ASSUME NEW before, before \in Files, NEW after, NEW r, r.image \in Paths, r.conf \in Int,
         after = StoreImage(before, r.image, r.conf)
  PROVE  after \in Files /\ Drawn(before, after, r)
<1> DEFINE path == r.image
           conf == r.conf
<1>1. after = StoreImage(before, path, conf)
  OBVIOUS
<1>2. path \in Paths /\ conf \in Int
  OBVIOUS
<1> HIDE DEF path, conf
<1>3. DOMAIN after = DOMAIN before \cup {path}
  BY <1>1, PathStored
<1>4. after[path] = conf
  BY <1>1, ImageStored
<1>5. \A p \in DOMAIN before : p # path => after[p] = before[p]
  BY <1>1, OthersStay
<1>6. after \in Files
  BY <1>1, <1>2, StoredTyped
<1>7. QED
  BY <1>2, <1>3, <1>4, <1>5, <1>6 DEF Drawn, path, conf

(* What a step that changes one record, or adds it, must see to.           *)
OneChange(g, h, k, r) ==
  /\ k \in DOMAIN h.records /\ r = h.records[k]
  /\ DOMAIN h.records = DOMAIN g.records \cup {k}
  /\ \A j \in DOMAIN g.records :
        j # k => h.records[j] = g.records[j] /\ g.records[j].name # r.name
  /\ k \in DOMAIN g.records =>
        /\ r.name = g.records[k].name
        /\ g.records[k].image # NoPath => /\ r.image = g.records[k].image
                                          /\ r.conf = g.records[k].conf
                                          /\ h.files = g.files
  /\ Pictured(r)
  /\ \/ /\ h.files = g.files
        /\ r.image = NoPath \/ (k \in DOMAIN g.records /\ g.records[k].image # NoPath)
     \/ Drawn(g.files, h.files, r)
  /\ h.dirty = TRUE
  /\ Exact(h)
  /\ \A c \in h.candidates : Tentative(c)

LEMMA OneRecord ==
  ASSUME NEW g, Good(g), FileInv, NEW h \in WorkType, NEW k, NEW r, OneChange(g, h, k, r)
  PROVE  Good(h)
<1> USE DEF OneChange
<1>1. /\ g \in WorkType /\ OwnNames(g)
      /\ \A j \in DOMAIN g.records :
            /\ Pictured(g.records[j])
            /\ g.records[j].image # NoPath => g.records[j].image \in DOMAIN g.files
  BY DEF Good, Sound
(* Pictures of other objects are not touched.                              *)
<1>3. ASSUME NEW p \in DOMAIN g.files, p[1] # r.name
      PROVE  p \in DOMAIN h.files /\ h.files[p] = g.files[p]
  <2>1. CASE h.files = g.files
    BY <2>1
  <2>2. CASE Drawn(g.files, h.files, r)
    <3>1. r.image[1] = r.name
      <4>1. r.image # NoPath
        BY <2>2, NotAPath DEF Drawn
      <4>2. QED
        BY <4>1 DEF Pictured
    <3>2. QED
      BY <1>3, <2>2, <3>1 DEF Drawn
  <2>3. QED
    BY <2>1, <2>2
<1>4. \A p \in DOMAIN g.files : p \in DOMAIN h.files
  <2>1. CASE h.files = g.files
    BY <2>1
  <2>2. CASE Drawn(g.files, h.files, r)
    BY <2>2 DEF Drawn
  <2>3. QED
    BY <2>1, <2>2
<1>5. \A j \in DOMAIN h.records : j = k \/ (j \in DOMAIN g.records /\ j # k)
  OBVIOUS
<1>6. OwnNames(h)
  BY <1>1, <1>5 DEF OwnNames
<1>7. r.image # NoPath => r.image \in DOMAIN h.files
  <2>1. CASE /\ h.files = g.files
             /\ r.image = NoPath \/ (k \in DOMAIN g.records /\ g.records[k].image # NoPath)
    BY <1>1, <2>1
  <2>2. CASE Drawn(g.files, h.files, r)
    BY <2>2 DEF Drawn
  <2>3. QED
    BY <2>1, <2>2
<1>8. Sound(h)
  <2>1. \A j \in DOMAIN h.records :
          /\ Pictured(h.records[j])
          /\ h.records[j].image # NoPath => h.records[j].image \in DOMAIN h.files
    BY <1>1, <1>4, <1>5, <1>7
  <2>2. QED
    BY <1>6, <2>1 DEF Sound
<1>9. Marked(h)
  BY DEF Marked
<1>10. ASSUME Faithful(g) PROVE Faithful(h)
  <2>1. ASSUME NEW j \in DOMAIN g.records, j # k PROVE Shows(h.records[j], h.files)
    <3>1. /\ h.records[j] = g.records[j] /\ g.records[j].name # r.name
          /\ g.records[j].image # NoPath => g.records[j].image[1] = g.records[j].name
      BY <1>1, <2>1 DEF Pictured
    <3>2. Shows(g.records[j], g.files)
      BY <1>10 DEF Faithful
    <3>3. QED
      BY <1>3, <3>1, <3>2 DEF Shows
  <2>2. Shows(r, h.files)
    <3>1. CASE /\ h.files = g.files
               /\ r.image = NoPath \/ (k \in DOMAIN g.records /\ g.records[k].image # NoPath)
      BY <1>10, <3>1 DEF Faithful, Shows
    <3>2. CASE Drawn(g.files, h.files, r)
      BY <3>2 DEF Shows, Drawn
    <3>3. QED
      BY <3>1, <3>2
  <2>3. QED
    BY <1>5, <2>1, <2>2 DEF Faithful
<1>11. ASSUME Kept(g) PROVE Kept(h)
  <2> SUFFICES ASSUME NEW o \in file.objects
               PROVE  /\ Shows(o, h.files)
                      /\ \E i \in DOMAIN h.records :
                           /\ h.records[i].name = o.name
                           /\ o.image # NoPath => h.records[i].image = o.image
    BY DEF Kept
  <2>1. PICK i \in DOMAIN g.records : /\ g.records[i].name = o.name
                                      /\ o.image # NoPath => g.records[i].image = o.image
    BY <1>11 DEF Kept
  <2>2. Shows(o, g.files)
    BY <1>11 DEF Kept
  <2>3. o.image # NoPath => o.image[1] = o.name
    BY DEF FileInv, Pictured
  <2>4. CASE i # k
    <3>1. h.records[i] = g.records[i] /\ o.name # r.name /\ i \in DOMAIN h.records
      BY <2>1, <2>4
    <3>2. Shows(o, h.files)
      BY <1>3, <2>2, <2>3, <3>1 DEF Shows
    <3>3. QED
      BY <2>1, <3>1, <3>2
  <2>5. CASE i = k
    <3>1. /\ r.name = o.name
          /\ o.image # NoPath => r.image = o.image /\ h.files = g.files
      BY <2>1, <2>5
    <3>2. Shows(o, h.files)
      BY <2>2, <3>1 DEF Shows
    <3>3. QED
      BY <2>1, <3>1, <3>2
  <2>6. QED
    BY <2>4, <2>5
<1>12. QED
  BY <1>8, <1>9, <1>10, <1>11 DEF Good

LEMMA CellTyped ==
  ASSUME NEW r, r.sum \in Int, r.count \in Nat \ {0}
  PROVE  CellOf(r) \in Int
<1>1. r.count * Threshold \in Nat \ {0}
  BY ConfirmationAssumption
<1>2. QED
  BY <1>1 DEF CellOf

(* Only the entry of one record changes in the index.                      *)
LEMMA ExactWith ==
  ASSUME NEW g, NEW h, Exact(g), NEW k \in DOMAIN h.records,
         DOMAIN h.records = DOMAIN g.records \cup {k},
         \A j \in DOMAIN g.records : j # k => h.records[j] = g.records[j],
         h.index = {e \in g.index : e[3] # k}
                     \cup {<<h.records[k].label, CellOf(h.records[k]), k>>}
  PROVE  Exact(h)
<1> DEFINE E(s, j) == <<s.records[j].label, CellOf(s.records[j]), j>>
<1>1. g.index = {E(g, j) : j \in DOMAIN g.records}
  BY DEF Exact
<1>2. \A j \in DOMAIN g.records : E(g, j)[3] = j
  OBVIOUS
<1>3. \A j \in DOMAIN g.records : j # k => E(h, j) = E(g, j)
  OBVIOUS
<1>4. h.index = {e \in g.index : e[3] # k} \cup {E(h, k)}
  OBVIOUS
<1> HIDE DEF E
<1>5. h.index = {E(h, j) : j \in DOMAIN h.records}
  BY <1>1, <1>2, <1>3, <1>4
<1>6. QED
  BY <1>5 DEF Exact, E

LEMMA PromoteGood ==
  ASSUME NEW g, Good(g), FileInv, NEW c \in CandidateType, c.observations # <<>>, NEW works
  PROVE  Good(Promote(g, c, works))
<1> DEFINE id == Len(g.records) + 1
           name == AllocateName(g.records, c.label)
           drawn == works /\ c.crop # NoCrop
           center == Centroid(c.observations)
           r == [name |-> name, label |-> c.label,
                 sum |-> center.sum, count |-> center.count, seen |-> Newest(c),
                 image |-> IF drawn THEN PicturePath(name, id) ELSE NoPath,
                 conf |-> IF drawn THEN c.crop.conf ELSE -1]
           h == Promote(g, c, works)
           entry == <<c.label, CellOf(r), id>>
<1>1. /\ g \in WorkType /\ Exact(g) /\ (\A d \in g.candidates : Tentative(d))
      /\ g.records \in Seq(ObjectType) /\ g.files \in Files
      /\ Len(g.records) \in Nat /\ DOMAIN g.records = 1 .. Len(g.records)
  <2>1. g \in WorkType /\ Exact(g) /\ (\A d \in g.candidates : Tentative(d))
    BY DEF Good, Sound
  <2>2. g.records \in Seq(ObjectType) /\ g.files \in Files
    BY <2>1, WorkFields
  <2>3. QED
    BY <2>1, <2>2
<1>2. /\ c.label \in Labels /\ c.observations \in Seq(ObservationType)
      /\ c.crop.conf \in Int
  BY DEF CandidateType, CropType
<1>3. name \in Names /\ \A j \in DOMAIN g.records : g.records[j].name # name
  BY <1>1, <1>2, FreshName
<1>4. center.sum \in Int /\ center.count \in Nat \ {0}
  BY <1>2, CentroidTyped
<1>5. Newest(c) \in Int
  <2>1. c.observations[Len(c.observations)] \in ObservationType
    BY <1>2
  <2>2. QED
    BY <2>1 DEF ObservationType, Newest
<1>6. h = [g EXCEPT !.records = Append(@, r),
                    !.index = @ \cup {entry},
                    !.files = IF drawn THEN StoreImage(@, r.image, r.conf) ELSE @,
                    !.dirty = TRUE, !.unpublished = TRUE, !.inserted = TRUE]
  BY DEF Promote
<1>7. PicturePath(name, id) \in Paths /\ PicturePath(name, id)[1] = name
      /\ PicturePath(name, id) # NoPath
  BY <1>1, <1>3 DEF PicturePath, Paths, NoPath
<1>8. /\ r.name = name /\ r.label = c.label /\ r.sum = center.sum /\ r.count = center.count
      /\ r.seen = Newest(c)
      /\ r.image = IF drawn THEN PicturePath(name, id) ELSE NoPath
      /\ r.conf = IF drawn THEN c.crop.conf ELSE -1
      /\ r \in ObjectType
  <2> HIDE DEF name, center, id, drawn
  <2>1. QED
    BY <1>2, <1>3, <1>4, <1>5, <1>7 DEF ObjectType
<1>9. CellOf(r) \in Int
  BY <1>4, <1>8, CellTyped
<1> HIDE DEF h, r, name, drawn, center
<1>10. /\ h.records = Append(g.records, r) /\ h.index = g.index \cup {entry}
       /\ h.files = (IF drawn THEN StoreImage(g.files, r.image, r.conf) ELSE g.files)
       /\ h.dirty = TRUE /\ h.unpublished = TRUE /\ h.inserted = TRUE
       /\ h.candidates = g.candidates
       /\ h = [records |-> h.records, index |-> h.index, candidates |-> h.candidates,
               dirty |-> h.dirty, unpublished |-> h.unpublished, files |-> h.files,
               inserted |-> h.inserted]
  BY <1>1, <1>6 DEF WorkType
<1>11. /\ h.files \in Files
       /\ \/ h.files = g.files /\ r.image = NoPath
          \/ Drawn(g.files, h.files, r)
  <2>1. CASE drawn
    <3>1. r.image \in Paths /\ r.conf \in Int /\ h.files = StoreImage(g.files, r.image, r.conf)
      BY <1>2, <1>7, <1>8, <1>10, <2>1
    <3>2. QED
      BY <1>1, <3>1, ImageDrawn
  <2>2. CASE ~drawn
    BY <1>1, <1>8, <1>10, <2>2
  <2>3. QED
    BY <2>1, <2>2
<1>12. /\ h.records \in Seq(ObjectType) /\ DOMAIN h.records = DOMAIN g.records \cup {id}
       /\ h.records[id] = r /\ id \notin DOMAIN g.records /\ id \in DOMAIN h.records
       /\ \A j \in DOMAIN g.records : h.records[j] = g.records[j]
  BY <1>1, <1>8, <1>10
<1>13. h \in WorkType
  <2>1. g.index \in SUBSET (Labels \X Int \X Nat) /\ g.candidates \in Candidates
    BY <1>1, WorkFields
  <2>2. entry \in Labels \X Int \X Nat
    BY <1>1, <1>2, <1>9
  <2> HIDE DEF entry
  <2>3. h.index \in SUBSET (Labels \X Int \X Nat) /\ h.candidates \in Candidates
        /\ h.dirty \in BOOLEAN /\ h.unpublished \in BOOLEAN /\ h.inserted \in BOOLEAN
    BY <1>10, <2>1, <2>2
  <2>4. QED
    BY <1>10, <1>11, <1>12, <2>3 DEF WorkType
<1>14. Exact(h)
  <2>1. \A e \in g.index : e[3] # id
    BY <1>1, <1>12 DEF Exact
  <2>2. h.index = {e \in g.index : e[3] # id} \cup {<<h.records[id].label, CellOf(h.records[id]), id>>}
    BY <1>8, <1>10, <1>12, <2>1
  <2> HIDE DEF id
  <2>3. QED
    BY <1>1, <1>12, <2>2, ExactWith
<1>15. Pictured(r)
  BY <1>7, <1>8 DEF Pictured
<1> HIDE DEF id
<1>17. \A j \in DOMAIN g.records : h.records[j] = g.records[j] /\ g.records[j].name # r.name
  BY <1>3, <1>8, <1>12
<1>18. OneChange(g, h, id, r)
  BY <1>1, <1>10, <1>11, <1>12, <1>14, <1>15, <1>17 DEF OneChange
<1>19. Good(h)
  BY <1>13, <1>18, OneRecord
<1>20. QED
  BY <1>19 DEF h

LEMMA UpdatedGood ==
  ASSUME NEW g, Good(g), FileInv, NEW i \in DOMAIN g.records, NEW o \in MergedType, NEW works
  PROVE  Good(Updated(g, i, o, works))
<1> DEFINE r == g.records[i]
           draws == works /\ o.crop /\ (r.image = NoPath \/ r.image \notin DOMAIN g.files)
           path == PicturePath(r.name, i)
           s == [r EXCEPT !.sum = @ + o.place, !.count = @ + 1, !.seen = o.stamp,
                          !.image = IF draws THEN path
                                    ELSE IF ~works /\ o.crop /\ @ \notin DOMAIN g.files
                                    THEN NoPath ELSE @,
                          !.conf = IF draws THEN o.conf ELSE @]
           h == Updated(g, i, o, works)
<1>1. /\ g \in WorkType /\ OwnNames(g) /\ Exact(g) /\ (\A d \in g.candidates : Tentative(d))
      /\ Pictured(r) /\ (r.image # NoPath => r.image \in DOMAIN g.files)
      /\ g.records \in Seq(ObjectType) /\ g.files \in Files
      /\ Len(g.records) \in Nat /\ DOMAIN g.records = 1 .. Len(g.records)
  <2>1. /\ g \in WorkType /\ OwnNames(g) /\ Exact(g) /\ (\A d \in g.candidates : Tentative(d))
        /\ Pictured(r) /\ (r.image # NoPath => r.image \in DOMAIN g.files)
    BY DEF Good, Sound
  <2>2. g.records \in Seq(ObjectType) /\ g.files \in Files
    BY <2>1, WorkFields
  <2>3. QED
    BY <2>1, <2>2
<1>2. /\ r \in ObjectType /\ r.name \in Names /\ r.label \in Labels /\ r.sum \in Int
      /\ r.count \in Nat \ {0} /\ r.image \in Paths \cup {NoPath} /\ r.conf \in Int
  <2>1. r \in ObjectType
    BY <1>1
  <2> HIDE DEF r
  <2>2. QED
    BY <2>1 DEF ObjectType
<1>3. o.place \in Int /\ o.stamp \in Int /\ o.conf \in Int
  BY DEF MergedType
<1>4. h = [g EXCEPT !.records[i] = s,
                    !.index = Reindex(g, i, r.label, CellOf(r), CellOf(s)),
                    !.files = IF draws THEN StoreImage(@, path, o.conf) ELSE @,
                    !.dirty = TRUE]
  BY DEF Updated
<1>5. path \in Paths /\ path[1] = r.name /\ path # NoPath
  <2>1. i \in Nat
    BY <1>1
  <2> HIDE DEF r
  <2>2. QED
    BY <1>2, <2>1 DEF PicturePath, Paths, NoPath
<1>6. draws => r.image = NoPath
  BY <1>1
<1>7. ~draws => (IF ~works /\ o.crop /\ r.image \notin DOMAIN g.files THEN NoPath ELSE r.image) = r.image
  BY <1>1
<1> HIDE DEF r, draws, path
<1>8. /\ s.name = r.name /\ s.label = r.label /\ s.sum = r.sum + o.place /\ s.count = r.count + 1
      /\ s.image = (IF draws THEN path ELSE r.image)
      /\ s.conf = (IF draws THEN o.conf ELSE r.conf)
  BY <1>2, <1>7 DEF ObjectType
<1>9. s \in ObjectType /\ s.sum \in Int /\ s.count \in Nat \ {0}
  <2>1. s = [name |-> r.name, label |-> r.label, sum |-> r.sum + o.place,
             count |-> r.count + 1, seen |-> o.stamp,
             image |-> IF draws THEN path ELSE r.image,
             conf |-> IF draws THEN o.conf ELSE r.conf]
    <3> DEFINE image == IF draws THEN path
                        ELSE IF ~works /\ o.crop /\ r.image \notin DOMAIN g.files
                        THEN NoPath ELSE r.image
               conf == IF draws THEN o.conf ELSE r.conf
    <3>1. s = [r EXCEPT !.sum = r.sum + o.place, !.count = r.count + 1, !.seen = o.stamp,
                        !.image = image, !.conf = conf]
      OBVIOUS
    <3>2. image = IF draws THEN path ELSE r.image
      BY <1>7
    <3>3. r = [name |-> r.name, label |-> r.label, sum |-> r.sum, count |-> r.count,
               seen |-> r.seen, image |-> r.image, conf |-> r.conf]
      BY <1>2 DEF ObjectType
    <3> HIDE DEF image, conf, s
    <3>4. s = [name |-> r.name, label |-> r.label, sum |-> r.sum + o.place,
               count |-> r.count + 1, seen |-> o.stamp, image |-> image, conf |-> conf]
      BY <3>1, <3>3
    <3>5. QED
      BY <3>2, <3>4 DEF conf
  <2>2. r.sum + o.place \in Int /\ r.count + 1 \in Nat \ {0}
    BY <1>2, <1>3
  <2>3. /\ (IF draws THEN path ELSE r.image) \in Paths \cup {NoPath}
        /\ (IF draws THEN o.conf ELSE r.conf) \in Int
    BY <1>2, <1>3, <1>5
  <2> HIDE DEF s
  <2>4. s \in ObjectType
    BY <1>2, <1>3, <2>1, <2>2, <2>3 DEF ObjectType
  <2>5. QED
    BY <1>8, <2>2, <2>4
<1>10. CellOf(s) \in Int
  <2> HIDE DEF s
  <2>1. QED
    BY <1>9, CellTyped
<1> HIDE DEF s, h
<1>11. /\ h.records = [g.records EXCEPT ![i] = s]
       /\ h.index = Reindex(g, i, r.label, CellOf(r), CellOf(s))
       /\ h.files = (IF draws THEN StoreImage(g.files, path, o.conf) ELSE g.files)
       /\ h.dirty = TRUE /\ h.unpublished = g.unpublished /\ h.inserted = g.inserted
       /\ h.candidates = g.candidates
       /\ h = [records |-> h.records, index |-> h.index, candidates |-> h.candidates,
               dirty |-> h.dirty, unpublished |-> h.unpublished, files |-> h.files,
               inserted |-> h.inserted]
  BY <1>1, <1>4 DEF WorkType
<1>12. /\ h.records \in Seq(ObjectType) /\ DOMAIN h.records = DOMAIN g.records
       /\ h.records[i] = s
       /\ \A j \in DOMAIN g.records : j # i => h.records[j] = g.records[j]
  <2>1. i \in 1 .. Len(g.records)
    BY <1>1
  <2>2. QED
    BY <1>1, <1>9, <1>11, <2>1
<1>13. h.files \in Files /\ (h.files = g.files \/ (draws /\ Drawn(g.files, h.files, s)))
  <2>1. CASE draws
    <3>1. s.image \in Paths /\ s.conf \in Int /\ h.files = StoreImage(g.files, s.image, s.conf)
      BY <1>3, <1>5, <1>8, <1>11, <2>1
    <3>2. QED
      BY <1>1, <2>1, <3>1, ImageDrawn
  <2>2. CASE ~draws
    BY <1>1, <1>11, <2>2
  <2>3. QED
    BY <2>1, <2>2
(* The entry that goes is the one the record has.                          *)
<1>14. h.index = {e \in g.index : e[3] # i} \cup {<<s.label, CellOf(s), i>>}
  <2>1. \A e \in g.index : e[3] = i <=> e = <<r.label, CellOf(r), i>>
    BY <1>1 DEF Exact, r
  <2> DEFINE old == <<r.label, CellOf(r), i>>
             new == <<r.label, CellOf(s), i>>
  <2>2. h.index = (g.index \ {old}) \cup {new} /\ new = <<s.label, CellOf(s), i>>
    BY <1>8, <1>11 DEF Reindex
  <2>3. \A e \in g.index : e[3] = i <=> e = old
    BY <2>1
  <2> HIDE DEF old, new
  <2>4. QED
    BY <2>2, <2>3
<1>15. h \in WorkType
  <2>1. g.index \in SUBSET (Labels \X Int \X Nat) /\ g.candidates \in Candidates
        /\ g.unpublished \in BOOLEAN /\ g.inserted \in BOOLEAN
    BY <1>1, WorkFields
  <2>2. <<s.label, CellOf(s), i>> \in Labels \X Int \X Nat
    BY <1>1, <1>2, <1>8, <1>10
  <2>3. h.index \in SUBSET (Labels \X Int \X Nat)
    BY <1>14, <2>1, <2>2
  <2>4. h.candidates \in Candidates
        /\ h.dirty \in BOOLEAN /\ h.unpublished \in BOOLEAN /\ h.inserted \in BOOLEAN
    BY <1>11, <2>1
  <2>5. QED
    BY <1>11, <1>12, <1>13, <2>3, <2>4 DEF WorkType
<1>16. Exact(h)
  BY <1>1, <1>12, <1>14, ExactWith
<1>17. Pictured(s)
  BY <1>1, <1>5, <1>8 DEF Pictured, r
<1>18. OneChange(g, h, i, s)
  <2>1. \A j \in DOMAIN g.records : j # i => g.records[j].name # s.name
    BY <1>1, <1>8 DEF OwnNames, r
  <2>2. /\ s.name = g.records[i].name
        /\ g.records[i].image # NoPath => /\ s.image = g.records[i].image
                                          /\ s.conf = g.records[i].conf
                                          /\ h.files = g.files
    BY <1>6, <1>8, <1>11 DEF r
  <2>3. \/ /\ h.files = g.files
           /\ s.image = NoPath \/ (i \in DOMAIN g.records /\ g.records[i].image # NoPath)
        \/ Drawn(g.files, h.files, s)
    <3>1. CASE draws
      BY <1>3, <1>5, <1>8, <1>11, <1>1, <3>1, ImageDrawn
    <3>2. CASE ~draws
      <4>1. h.files = g.files /\ s.image = g.records[i].image
        BY <1>8, <1>11, <3>2 DEF r
      <4>2. QED
        BY <4>1
    <3>3. QED
      BY <3>1, <3>2
  <2>4. DOMAIN h.records = DOMAIN g.records \cup {i} /\ i \in DOMAIN h.records
    BY <1>12
  <2>5. QED
    BY <1>1, <1>11, <1>12, <1>16, <1>17, <2>1, <2>2, <2>3, <2>4 DEF OneChange
<1>19. Good(h)
  BY <1>15, <1>18, OneRecord
<1>20. QED
  BY <1>19 DEF h

(* Other flags and candidates leave the records and the pictures.          *)
LEMMA SameRecords ==
  ASSUME NEW g, Good(g), NEW h \in WorkType,
         h.records = g.records, h.index = g.index, h.files = g.files, h.dirty = g.dirty,
         \A c \in h.candidates : Tentative(c)
  PROVE  Good(h)
<1>1. Sound(h)
  BY DEF Good, Sound, OwnNames, Exact
<1>2. Marked(h)
  BY DEF Good, Marked
<1>3. Faithful(g) => Faithful(h)
  BY DEF Faithful
<1>4. Kept(g) => Kept(h)
  BY DEF Kept
<1>5. QED
  BY <1>1, <1>2, <1>3, <1>4 DEF Good

LEMMA RevisedGood ==
  ASSUME NEW g, Good(g)
  PROVE  Good(Revised(g))
<1> DEFINE h == Revised(g)
<1>1. g \in WorkType /\ \A c \in g.candidates : Tentative(c)
  BY DEF Good, Sound
<1>2. /\ h \in WorkType /\ h.records = g.records /\ h.index = g.index /\ h.files = g.files
      /\ h.dirty = g.dirty /\ h.candidates = g.candidates
  BY <1>1 DEF Revised, WorkType
<1> HIDE DEF h
<1>3. Good(h)
  BY <1>1, <1>2, SameRecords
<1>4. QED
  BY <1>3 DEF h

LEMMA CandidatesGood ==
  ASSUME NEW g, Good(g), NEW C \in Candidates, \A c \in C : Tentative(c)
  PROVE  Good([g EXCEPT !.candidates = C])
<1> DEFINE h == [g EXCEPT !.candidates = C]
<1>1. g \in WorkType
  BY DEF Good, Sound
<1>2. /\ h \in WorkType /\ h.records = g.records /\ h.index = g.index /\ h.files = g.files
      /\ h.dirty = g.dirty /\ h.candidates = C
  BY <1>1 DEF WorkType
<1> HIDE DEF h
<1>3. Good(h)
  BY <1>2, SameRecords
<1>4. QED
  BY <1>3 DEF h

LEMMA StageGood ==
  ASSUME NEW g, Good(g), FileInv, NEW o \in MergedType, NEW works
  PROVE  Good(StageCandidate(g, o, works))
<1> DEFINE old == FindNearestCandidate(g, o.label, o.place)
           base == IF old = NoCandidate
                   THEN [label |-> o.label, observations |-> <<>>, crop |-> NoCrop]
                   ELSE old
           seen == [stamp |-> o.stamp, place |-> o.place, conf |-> o.conf]
           all == AddObservation(base.observations, seen)
           run == Normalize(all)
           c == [base EXCEPT !.observations = run, !.crop = BestCrop(@, run, o, o.crop)]
           others == [g EXCEPT !.candidates = @ \ {old}]
<1>1. /\ g \in WorkType /\ g.candidates \in Candidates
      /\ g.candidates \subseteq CandidateType /\ IsFiniteSet(g.candidates)
      /\ \A d \in g.candidates : Tentative(d)
  <2>1. g \in WorkType /\ \A d \in g.candidates : Tentative(d)
    BY DEF Good, Sound
  <2>2. g.candidates \in Candidates
    BY <2>1, WorkFields
  <2>3. QED
    BY <2>1, <2>2 DEF Candidates
<1>2. /\ o.label \in Labels /\ o.place \in Int /\ o.stamp \in Nat /\ o.conf \in Nat
      /\ seen \in ObservationType
  BY DEF MergedType, ObservationType
<1>3. old = NoCandidate \/ old \in g.candidates
  BY <1>1, <1>2, CandidateFound
<1> HIDE DEF old, seen
<1>4. /\ base \in CandidateType
      /\ base.observations = <<>> \/ Ordered(base.observations)
      /\ base.crop = NoCrop \/ \E i \in DOMAIN base.observations :
                                  base.observations[i].stamp = base.crop.stamp
  <2>1. CASE old = NoCandidate
    <3>1. NoCrop \in CropType
      BY DEF NoCrop, CropType
    <3>2. <<>> \in Seq(ObservationType)
      OBVIOUS
    <3>3. /\ base.label = o.label /\ base.observations = <<>> /\ base.crop = NoCrop
          /\ base = [label |-> base.label, observations |-> base.observations, crop |-> base.crop]
      BY <2>1
    <3> HIDE DEF base
    <3>4. base \in CandidateType
      BY <1>2, <3>1, <3>2, <3>3 DEF CandidateType
    <3>5. QED
      BY <3>3, <3>4
  <2>2. CASE old # NoCandidate
    <3>1. base \in g.candidates
      BY <1>3, <2>2
    <3> HIDE DEF base
    <3>2. QED
      BY <1>1, <3>1 DEF Tentative
  <2>3. QED
    BY <2>1, <2>2
<1> HIDE DEF base
<1>5. base.observations \in Seq(ObservationType) /\ base.crop \in CropType /\ base.label \in Labels
  BY <1>4 DEF CandidateType
<1>6. \A i, j \in DOMAIN base.observations :
        base.observations[i].stamp = base.observations[j].stamp => i = j
  <2>1. CASE base.observations = <<>>
    BY <2>1
  <2>2. CASE Ordered(base.observations)
    <3>1. DOMAIN base.observations \subseteq Int
      BY <1>5
    <3>2. \A i \in DOMAIN base.observations : base.observations[i].stamp \in Int
      <4>1. \A i \in DOMAIN base.observations : base.observations[i] \in ObservationType
        BY <1>5
      <4>2. QED
        BY <4>1 DEF ObservationType
    <3>3. QED
      BY <2>2, <3>1, <3>2 DEF Ordered
  <2>3. QED
    BY <1>4, <2>1, <2>2
<1>7. /\ all \in Seq(ObservationType) /\ all # <<>>
      /\ \A i, j \in DOMAIN all : all[i].stamp = all[j].stamp => i = j
      /\ \A i \in DOMAIN base.observations :
            \E j \in DOMAIN all : all[j].stamp = base.observations[i].stamp
  BY <1>2, <1>5, <1>6, AddObservationKeeps
<1> HIDE DEF all
<1>8. Apart2(ToSet(all))
  BY <1>7 DEF Apart2, ToSet
<1>9. /\ run \in Seq(ObservationType) /\ run # <<>> /\ Ordered(run)
      /\ \A i \in 2 .. Len(run) : run[i].stamp - run[i - 1].stamp <= ConfirmationMaxGap
      /\ run[Len(run)].stamp - run[1].stamp <= ConfirmationWindow
      /\ \A i \in DOMAIN all : all[i].stamp >= run[1].stamp =>
            \E j \in DOMAIN run : run[j].stamp = all[i].stamp
  BY <1>7, <1>8, NormalizeRun
<1> HIDE DEF run
<1>10. base.crop = NoCrop \/ (base.crop.stamp >= run[1].stamp =>
                               \E i \in DOMAIN run : run[i].stamp = base.crop.stamp)
  BY <1>4, <1>7, <1>9
<1> DEFINE best == BestCrop(base.crop, run, o, o.crop)
<1>11. /\ best \in CropType
       /\ best = NoCrop \/ \E i \in DOMAIN run : run[i].stamp = best.stamp
  BY <1>2, <1>5, <1>9, <1>10, BestCropOfRun
<1>12. c = [base EXCEPT !.observations = run, !.crop = best]
  OBVIOUS
<1> HIDE DEF c, best
<1>13. c \in CandidateType /\ c.observations = run /\ c.crop = best
  BY <1>4, <1>5, <1>9, <1>11, <1>12 DEF CandidateType
<1>14. ~Confirmed(run) => Tentative(c)
  BY <1>9, <1>11, <1>13 DEF Tentative, Newest, Oldest
<1>15. /\ Good(others) /\ others.candidates = g.candidates \ {old}
  <2> DEFINE C == g.candidates \ {old}
  <2>1. C \in Candidates /\ \A d \in C : Tentative(d)
    <3>1. IsFiniteSet(C)
      BY <1>1, FS_Subset
    <3>2. QED
      BY <1>1, <3>1 DEF Candidates
  <2>2. others = [g EXCEPT !.candidates = C] /\ others.candidates = C
    BY <1>1 DEF WorkType
  <2> HIDE DEF C, others
  <2>3. Good([g EXCEPT !.candidates = C])
    BY <2>1, CandidatesGood
  <2>4. QED
    BY <2>2, <2>3 DEF C
<1>16. StageCandidate(g, o, works) =
         IF Confirmed(run) THEN Promote(others, c, works)
         ELSE [others EXCEPT !.candidates = @ \cup {c}]
  BY DEF StageCandidate, old, base, seen, all, run, c, best
<1> HIDE DEF others
<1>17. CASE Confirmed(run)
  BY <1>9, <1>13, <1>15, <1>16, <1>17, PromoteGood
<1>18. CASE ~Confirmed(run)
  <2> DEFINE C == others.candidates \cup {c}
  <2>1. C \in Candidates /\ \A d \in C : Tentative(d)
    <3>1. IsFiniteSet(g.candidates \ {old})
      BY <1>1, FS_Subset
    <3>2. IsFiniteSet(C)
      BY <1>15, <3>1, FS_AddElement
    <3>3. C \subseteq CandidateType /\ \A d \in C : Tentative(d)
      BY <1>1, <1>13, <1>14, <1>15, <1>18
    <3>4. QED
      BY <3>2, <3>3 DEF Candidates
  <2>2. StageCandidate(g, o, works) = [others EXCEPT !.candidates = C]
    BY <1>16, <1>18
  <2> HIDE DEF C
  <2>3. Good([others EXCEPT !.candidates = C])
    BY <1>15, <2>1, CandidatesGood
  <2>4. QED
    BY <2>2, <2>3
<1>19. QED
  BY <1>17, <1>18

LEMMA PruneTyped ==
  ASSUME NEW C \in Candidates, NEW stamp
  PROVE  Prune(C, stamp) \in Candidates /\ Prune(C, stamp) \subseteq C
<1>1. Prune(C, stamp) \subseteq C
  BY DEF Prune
<1>2. IsFiniteSet(C) /\ C \subseteq CandidateType
  BY DEF Candidates
<1>3. IsFiniteSet(Prune(C, stamp))
  BY <1>1, <1>2, FS_Subset
<1>4. QED
  BY <1>1, <1>2, <1>3 DEF Candidates

LEMMA MergeGood ==
  ASSUME NEW g, Good(g), FileInv, NEW o \in MergedType, NEW works
  PROVE  Good(Merge(g, o, works))
<1> DEFINE pruned == [g EXCEPT !.candidates = Prune(@, o.stamp)]
           i == FindNearest(pruned, o.label, o.place)
<1>1. Good(pruned)
  <2> DEFINE C == Prune(g.candidates, o.stamp)
  <2>1. g.candidates \in Candidates /\ \A c \in g.candidates : Tentative(c)
    <3>1. g \in WorkType /\ \A c \in g.candidates : Tentative(c)
      BY DEF Good, Sound
    <3>2. QED
      BY <3>1, WorkFields
  <2>2. C \in Candidates /\ \A c \in C : Tentative(c)
    BY <2>1, PruneTyped
  <2>3. pruned = [g EXCEPT !.candidates = C]
    OBVIOUS
  <2> HIDE DEF C, pruned
  <2>4. Good([g EXCEPT !.candidates = C])
    BY <2>2, CandidatesGood
  <2>5. QED
    BY <2>3, <2>4
<1>2. Merge(g, o, works) = IF i = 0 THEN StageCandidate(pruned, o, works)
                           ELSE Revised(Updated(pruned, i, o, works))
  BY DEF Merge
<1> HIDE DEF pruned
<1>3. i = 0 \/ i \in DOMAIN pruned.records
  <2>1. pruned.records \in Seq(ObjectType) /\ o.place \in Int
    <3>1. pruned \in WorkType
      BY <1>1 DEF Good, Sound
    <3>2. QED
      BY <3>1, WorkFields DEF MergedType
  <2>2. Indexed(pruned, o.label, o.place) = {} => i = 0
    BY DEF FindNearest
  <2>3. Indexed(pruned, o.label, o.place) # {} => i \in Indexed(pruned, o.label, o.place)
    BY <2>1, NearestFound
  <2>4. Indexed(pruned, o.label, o.place) \subseteq DOMAIN pruned.records
    BY DEF Indexed
  <2> HIDE DEF i
  <2>5. QED
    BY <2>2, <2>3, <2>4
<1> HIDE DEF i
<1>4. CASE i = 0
  BY <1>1, <1>2, <1>4, StageGood
<1>5. CASE i # 0
  <2>1. Good(Updated(pruned, i, o, works))
    BY <1>1, <1>3, <1>5, UpdatedGood
  <2>2. Good(Revised(Updated(pruned, i, o, works)))
    BY <2>1, RevisedGood
  <2>3. QED
    BY <1>2, <1>5, <2>2
<1>6. QED
  BY <1>4, <1>5

-----------------------------------------------------------------------------
(* All sightings of a pair, and all pairs that wait.                       *)
MergeRun(f, n, start, cloud, detection, works) ==
  LET s == Sightings(cloud, detection)
  IN  /\ f[0] = start
      /\ \A i \in 1 .. n :
            f[i] = IF s[i].counts THEN Merge(f[i - 1], s[i], works) ELSE f[i - 1]
      /\ f[n] = MergeAll(start, cloud, detection, works)

RetryRun(f, n, works) ==
  /\ f[0] = [g |-> Working, again |-> <<>>]
  /\ \A i \in 1 .. n : f[i] = Retried(f[i - 1], retries[i], works)
  /\ f[n] = RetryAll(works)

LEMMA MergeSteps ==
  ASSUME NEW start, NEW cloud, NEW detection, NEW works, NEW n \in Nat,
         DOMAIN Sightings(cloud, detection) = 1 .. n
  PROVE  \E f : MergeRun(f, n, start, cloud, detection, works)
<1> DEFINE Op(h, e) == (IF e.counts THEN Merge(h, e, works) ELSE h)
           Body(f, u) == IF u = {} THEN start ELSE Op(f[u \ {Max(u)}], Sightings(cloud, detection)[Max(u)])
           Steps(f, m) == f = [u \in SUBSET (1 .. m) |-> Body(f, u)]
           T == {m \in Nat : \E f : Steps(f, m)}
           iter == CHOOSE f : Steps(f, n)
<1>1. MergeAll(start, cloud, detection, works) = iter[1 .. n]
  BY DEF MergeAll, FoldLeft, MapThenFoldSet
<1> HIDE DEF Op
<1>2. \A m \in Nat : \A u \in SUBSET (1 .. m) :
        u # {} => Max(u) \in u /\ \A d \in u : d <= Max(u)
  <2> SUFFICES ASSUME NEW m \in Nat, NEW u \in SUBSET (1 .. m), u # {}
               PROVE  Max(u) \in u /\ \A d \in u : d <= Max(u)
    OBVIOUS
  <2>1. IsFiniteSet(u) /\ u \in SUBSET Int
    <3>1. IsFiniteSet(1 .. m) /\ 1 .. m \subseteq Int
      BY FS_Interval
    <3>2. QED
      BY <3>1, FS_Subset
  <2>2. QED
    BY <2>1, MaxMember
<1>3. 0 \in T
  <2> DEFINE f == [u \in SUBSET (1 .. 0) |-> start]
  <2>1. \A u \in SUBSET (1 .. 0) : u = {}
    OBVIOUS
  <2>2. Steps(f, 0)
    BY <2>1
  <2> HIDE DEF Steps, f
  <2>3. QED
    BY <2>2
<1>4. ASSUME NEW m \in T PROVE m + 1 \in T
  <2>1. PICK f : Steps(f, m)
    OBVIOUS
  <2> DEFINE g == [u \in SUBSET (1 .. m + 1) |-> IF u \subseteq 1 .. m THEN f[u] ELSE Body(f, u)]
  <2>2. ASSUME NEW u \in SUBSET (1 .. m + 1) PROVE g[u] = Body(g, u)
    <3>1. CASE u = {}
      <4>1. u \in SUBSET (1 .. m) /\ f[u] = Body(f, u)
        BY <2>1, <3>1
      <4>2. QED
        BY <3>1, <4>1
    <3>2. CASE u # {}
      <4> DEFINE x == Max(u)
                 v == u \ {x}
      <4>1. x \in u /\ (\A d \in u : d <= x) /\ x \in 1 .. m + 1
        <5>1. m + 1 \in Nat
          OBVIOUS
        <5>2. QED
          BY <1>2, <3>2, <5>1
      <4>2. v \in SUBSET (1 .. m) /\ v \in SUBSET (1 .. m + 1)
        <5> HIDE DEF x
        <5>1. QED
          BY <4>1
      <4>3. g[v] = f[v]
        BY <4>2
      <4>4. g[u] = Body(f, u)
        BY <2>1
      <4>5. Body(f, u) = Op(f[v], Sightings(cloud, detection)[x]) /\ Body(g, u) = Op(g[v], Sightings(cloud, detection)[x])
        BY <3>2
      <4>6. QED
        BY <4>3, <4>4, <4>5
    <3>3. QED
      BY <3>1, <3>2
  <2>3. Steps(g, m + 1)
    <3>1. g = [u \in SUBSET (1 .. m + 1) |-> g[u]]
      OBVIOUS
    <3> HIDE DEF g, Body
    <3>2. QED
      BY <2>2, <3>1
  <2> HIDE DEF Steps, g
  <2>4. QED
    BY <2>3
<1>5. n \in T
  <2>1. T \in SUBSET Nat
    OBVIOUS
  <2> HIDE DEF T
  <2>2. QED
    BY <1>3, <1>4, <2>1, NatInd
<1>6. Steps(iter, n)
  <2> HIDE DEF Steps
  <2>1. QED
    BY <1>5
<1> DEFINE f == [i \in 0 .. n |-> iter[1 .. i]]
<1> HIDE DEF iter
<1>7. f[0] = start
  <2>1. 1 .. 0 = {} /\ 1 .. 0 \in SUBSET (1 .. n)
    OBVIOUS
  <2>2. QED
    BY <1>6, <2>1
<1>8. ASSUME NEW i \in 1 .. n PROVE f[i] = Op(f[i - 1], Sightings(cloud, detection)[i])
  <2> DEFINE u == 1 .. i
  <2>1. u \in SUBSET (1 .. n) /\ u # {} /\ i \in u /\ \A d \in u : d <= i
    <3>1. \A d \in 1 .. i : d \in 1 .. n /\ d <= i
      OBVIOUS
    <3>2. i \in 1 .. i
      OBVIOUS
    <3>3. QED
      BY <3>1, <3>2
  <2>2. Max(u) = i
    <3>1. Max(u) \in u /\ i <= Max(u)
      BY <1>2, <2>1
    <3>2. QED
      BY <3>1
  <2>3. u \ {i} = 1 .. i - 1
    OBVIOUS
  <2> HIDE DEF u
  <2>4. iter[u] = Op(iter[1 .. i - 1], Sightings(cloud, detection)[i])
    BY <1>6, <2>1, <2>2, <2>3
  <2>5. QED
    BY <2>4 DEF u
<1>9. f[n] = MergeAll(start, cloud, detection, works)
  BY <1>1
<1> HIDE DEF f
<1>10. QED
  BY <1>7, <1>8, <1>9 DEF Op, MergeRun

LEMMA RetrySteps ==
  ASSUME NEW works, NEW n \in Nat, DOMAIN retries = 1 .. n
  PROVE  \E f : RetryRun(f, n, works)
<1> DEFINE Op(h, e) == Retried(h, e, works)
           Body(f, u) == IF u = {} THEN [g |-> Working, again |-> <<>>] ELSE Op(f[u \ {Max(u)}], retries[Max(u)])
           Steps(f, m) == f = [u \in SUBSET (1 .. m) |-> Body(f, u)]
           T == {m \in Nat : \E f : Steps(f, m)}
           iter == CHOOSE f : Steps(f, n)
<1>1. RetryAll(works) = iter[1 .. n]
  BY DEF RetryAll, FoldLeft, MapThenFoldSet
<1> HIDE DEF Op
<1>2. \A m \in Nat : \A u \in SUBSET (1 .. m) :
        u # {} => Max(u) \in u /\ \A d \in u : d <= Max(u)
  <2> SUFFICES ASSUME NEW m \in Nat, NEW u \in SUBSET (1 .. m), u # {}
               PROVE  Max(u) \in u /\ \A d \in u : d <= Max(u)
    OBVIOUS
  <2>1. IsFiniteSet(u) /\ u \in SUBSET Int
    <3>1. IsFiniteSet(1 .. m) /\ 1 .. m \subseteq Int
      BY FS_Interval
    <3>2. QED
      BY <3>1, FS_Subset
  <2>2. QED
    BY <2>1, MaxMember
<1>3. 0 \in T
  <2> DEFINE f == [u \in SUBSET (1 .. 0) |-> [g |-> Working, again |-> <<>>]]
  <2>1. \A u \in SUBSET (1 .. 0) : u = {}
    OBVIOUS
  <2>2. Steps(f, 0)
    BY <2>1
  <2> HIDE DEF Steps, f
  <2>3. QED
    BY <2>2
<1>4. ASSUME NEW m \in T PROVE m + 1 \in T
  <2>1. PICK f : Steps(f, m)
    OBVIOUS
  <2> DEFINE g == [u \in SUBSET (1 .. m + 1) |-> IF u \subseteq 1 .. m THEN f[u] ELSE Body(f, u)]
  <2>2. ASSUME NEW u \in SUBSET (1 .. m + 1) PROVE g[u] = Body(g, u)
    <3>1. CASE u = {}
      <4>1. u \in SUBSET (1 .. m) /\ f[u] = Body(f, u)
        BY <2>1, <3>1
      <4>2. QED
        BY <3>1, <4>1
    <3>2. CASE u # {}
      <4> DEFINE x == Max(u)
                 v == u \ {x}
      <4>1. x \in u /\ (\A d \in u : d <= x) /\ x \in 1 .. m + 1
        <5>1. m + 1 \in Nat
          OBVIOUS
        <5>2. QED
          BY <1>2, <3>2, <5>1
      <4>2. v \in SUBSET (1 .. m) /\ v \in SUBSET (1 .. m + 1)
        <5> HIDE DEF x
        <5>1. QED
          BY <4>1
      <4>3. g[v] = f[v]
        BY <4>2
      <4>4. g[u] = Body(f, u)
        BY <2>1
      <4>5. Body(f, u) = Op(f[v], retries[x]) /\ Body(g, u) = Op(g[v], retries[x])
        BY <3>2
      <4>6. QED
        BY <4>3, <4>4, <4>5
    <3>3. QED
      BY <3>1, <3>2
  <2>3. Steps(g, m + 1)
    <3>1. g = [u \in SUBSET (1 .. m + 1) |-> g[u]]
      OBVIOUS
    <3> HIDE DEF g, Body
    <3>2. QED
      BY <2>2, <3>1
  <2> HIDE DEF Steps, g
  <2>4. QED
    BY <2>3
<1>5. n \in T
  <2>1. T \in SUBSET Nat
    OBVIOUS
  <2> HIDE DEF T
  <2>2. QED
    BY <1>3, <1>4, <2>1, NatInd
<1>6. Steps(iter, n)
  <2> HIDE DEF Steps
  <2>1. QED
    BY <1>5
<1> DEFINE f == [i \in 0 .. n |-> iter[1 .. i]]
<1> HIDE DEF iter
<1>7. f[0] = [g |-> Working, again |-> <<>>]
  <2>1. 1 .. 0 = {} /\ 1 .. 0 \in SUBSET (1 .. n)
    OBVIOUS
  <2>2. QED
    BY <1>6, <2>1
<1>8. ASSUME NEW i \in 1 .. n PROVE f[i] = Op(f[i - 1], retries[i])
  <2> DEFINE u == 1 .. i
  <2>1. u \in SUBSET (1 .. n) /\ u # {} /\ i \in u /\ \A d \in u : d <= i
    OBVIOUS
  <2>2. Max(u) = i
    <3>1. Max(u) \in u /\ i <= Max(u)
      BY <1>2, <2>1
    <3>2. QED
      BY <3>1
  <2>3. u \ {i} = 1 .. i - 1
    OBVIOUS
  <2> HIDE DEF u
  <2>4. iter[u] = Op(iter[1 .. i - 1], retries[i])
    BY <1>6, <2>1, <2>2, <2>3
  <2>5. QED
    BY <2>4 DEF u
<1>9. f[n] = RetryAll(works)
  BY <1>1
<1> HIDE DEF f
<1>10. QED
  BY <1>7, <1>8, <1>9 DEF Op, RetryRun

LEMMA SightingsTyped ==
  ASSUME NEW cloud \in MessageType, NEW detection \in MessageType
  PROVE  Sightings(cloud, detection) \in Seq(MergedType)
<1>1. /\ cloud.stamp \in Nat /\ cloud.scene \in Seq(SightingType)
      /\ detection.scene \in Seq(SightingType)
  BY InputAssumption DEF MessageType
<1>2. \A s \in SightingType : /\ s.label \in Labels /\ s.place \in Int /\ s.conf \in Nat
                              /\ s.crop \in BOOLEAN
  BY DEF SightingType
<1> DEFINE n == Len(detection.scene)
           counts(k) == k \in Confident(detection) /\ k \in DOMAIN cloud.scene
           place(k) == IF k \in DOMAIN cloud.scene THEN cloud.scene[k].place ELSE 0
           item(k) == [stamp |-> cloud.stamp, label |-> detection.scene[k].label,
                       place |-> place(k), conf |-> detection.scene[k].conf,
                       crop |-> detection.scene[k].crop, counts |-> counts(k)]
<1>3. ASSUME NEW k \in 1 .. n PROVE item(k) \in MergedType
  <2>1. detection.scene[k] \in SightingType
    BY <1>1
  <2>2. place(k) \in Int
    <3>1. CASE k \in DOMAIN cloud.scene
      <4>1. cloud.scene[k] \in SightingType
        BY <1>1, <3>1
      <4>2. QED
        BY <1>2, <3>1, <4>1
    <3>2. QED
      BY <3>1
  <2>3. counts(k) \in BOOLEAN
    OBVIOUS
  <2> HIDE DEF place, counts
  <2>4. QED
    BY <1>1, <1>2, <2>1, <2>2, <2>3 DEF MergedType
<1>4. Sightings(cloud, detection) = [k \in 1 .. n |-> item(k)]
  BY DEF Sightings
<1>5. n \in Nat
  BY <1>1
<1> HIDE DEF item, n
<1>6. [k \in 1 .. n |-> item(k)] \in [1 .. n -> MergedType]
  BY <1>3
<1>7. [1 .. n -> MergedType] \subseteq Seq(MergedType)
  BY <1>5, SeqDef
<1>8. QED
  BY <1>4, <1>6, <1>7

LEMMA MergeAllGood ==
  ASSUME NEW start, Good(start), FileInv, NEW cloud \in MessageType,
         NEW detection \in MessageType, NEW works
  PROVE  Good(MergeAll(start, cloud, detection, works))
<1> DEFINE s == Sightings(cloud, detection)
<1>1. s \in Seq(MergedType)
  BY SightingsTyped
<1> HIDE DEF s
<1>2. Len(s) \in Nat /\ DOMAIN s = 1 .. Len(s) /\ \A i \in 1 .. Len(s) : s[i] \in MergedType
  BY <1>1
<1>r. PICK f : MergeRun(f, Len(s), start, cloud, detection, works)
  BY <1>2, MergeSteps DEF s
<1>3. /\ f[0] = start
      /\ \A i \in 1 .. Len(s) :
            f[i] = IF s[i].counts THEN Merge(f[i - 1], s[i], works) ELSE f[i - 1]
      /\ f[Len(s)] = MergeAll(start, cloud, detection, works)
  BY <1>r DEF MergeRun, s
<1> DEFINE T == {i \in 0 .. Len(s) : Good(f[i])}
<1>4. 0 \in T
  BY <1>2, <1>3
<1>5. ASSUME NEW i \in 0 .. Len(s) - 1, i \in T PROVE i + 1 \in T
  <2>1. i + 1 \in 1 .. Len(s) /\ i + 1 - 1 = i /\ i + 1 \in 0 .. Len(s)
    BY <1>2
  <2>2. s[i + 1] \in MergedType
    BY <1>2, <2>1
  <2>3. f[i + 1] = IF s[i + 1].counts THEN Merge(f[i], s[i + 1], works) ELSE f[i]
    BY <1>3, <2>1
  <2>4. Good(f[i])
    BY <1>5
  <2>5. Good(Merge(f[i], s[i + 1], works))
    BY <2>2, <2>4, MergeGood
  <2>6. QED
    BY <2>1, <2>3, <2>4, <2>5
<1> HIDE DEF T
<1>6. \A i \in 0 .. Len(s) : i \in T
  BY <1>2, <1>4, <1>5, IntervalInd
<1>7. Len(s) \in T
  BY <1>2, <1>6
<1>8. QED
  BY <1>3, <1>7 DEF T

LEMMA RetryFields ==
  ASSUME NEW r \in RetryType
  PROVE  r.cloud \in MessageType /\ r.detection \in MessageType
BY DEF RetryType

LEMMA RetriedGood ==
  ASSUME NEW h, h = [g |-> h.g, again |-> h.again], Good(h.g), h.again \in Seq(RetryType),
         FileInv, NEW r \in RetryType, NEW works, NEW k, k = Retried(h, r, works)
  PROVE  k = [g |-> k.g, again |-> k.again] /\ Good(k.g) /\ k.again \in Seq(RetryType)
<1>1. \/ k = h
      \/ k = [h EXCEPT !.g = MergeAll(@, r.cloud, r.detection, works)]
      \/ k = [h EXCEPT !.again = Append(@, r)]
  BY DEF Retried
<1>2. CASE k = h
  BY <1>2
<1>3. CASE k = [h EXCEPT !.g = MergeAll(@, r.cloud, r.detection, works)]
  <2> DEFINE m == MergeAll(h.g, r.cloud, r.detection, works)
  <2>1. Good(m)
    BY RetryFields, MergeAllGood
  <2> HIDE DEF m
  <2>2. k = [g |-> m, again |-> h.again]
    BY <1>3 DEF m
  <2>3. QED
    BY <2>1, <2>2
<1>4. CASE k = [h EXCEPT !.again = Append(@, r)]
  <2>1. k = [g |-> h.g, again |-> Append(h.again, r)]
    BY <1>4
  <2>2. Append(h.again, r) \in Seq(RetryType)
    OBVIOUS
  <2>3. QED
    BY <2>1, <2>2
<1>5. QED
  BY <1>1, <1>2, <1>3, <1>4

LEMMA RetryAllGood ==
  ASSUME Good(Working), FileInv, retries \in Seq(RetryType), NEW works
  PROVE  Good(RetryAll(works).g) /\ RetryAll(works).again \in Seq(RetryType)
<1> DEFINE Fine(h) == h = [g |-> h.g, again |-> h.again] /\ Good(h.g) /\ h.again \in Seq(RetryType)
<1>1. Len(retries) \in Nat /\ DOMAIN retries = 1 .. Len(retries) /\ \A i \in 1 .. Len(retries) : retries[i] \in RetryType
  OBVIOUS
<1>r. PICK f : RetryRun(f, Len(retries), works)
  BY <1>1, RetrySteps
<1>2. /\ f[0] = [g |-> Working, again |-> <<>>]
      /\ \A i \in 1 .. Len(retries) : f[i] = Retried(f[i - 1], retries[i], works)
      /\ f[Len(retries)] = RetryAll(works)
  BY <1>r DEF RetryRun
<1> DEFINE T == {i \in 0 .. Len(retries) : Fine(f[i])}
<1>3. 0 \in T
  <2>1. Fine([g |-> Working, again |-> <<>>])
    OBVIOUS
  <2> HIDE DEF Fine
  <2>2. QED
    BY <1>1, <1>2, <2>1
<1>4. ASSUME NEW i \in 0 .. Len(retries) - 1, i \in T PROVE i + 1 \in T
  <2>1. i + 1 \in 1 .. Len(retries) /\ i + 1 - 1 = i /\ i + 1 \in 0 .. Len(retries)
    BY <1>1
  <2>2. retries[i + 1] \in RetryType
    BY <1>1, <2>1
  <2>3. f[i + 1] = Retried(f[i], retries[i + 1], works)
    BY <1>2, <2>1
  <2>4. Fine(f[i])
    BY <1>4
  <2>5. Fine(f[i + 1])
    BY <2>2, <2>3, <2>4, RetriedGood
  <2> HIDE DEF Fine
  <2>6. QED
    BY <2>1, <2>5
<1> HIDE DEF T, Fine
<1>5. \A i \in 0 .. Len(retries) : i \in T
  BY <1>1, <1>3, <1>4, IntervalInd
<1>6. Len(retries) \in T
  BY <1>1, <1>5
<1>7. QED
  BY <1>2, <1>6 DEF T, Fine

-----------------------------------------------------------------------------
(* The queues.                                                             *)
(* No cloud and no detections of these match.                              *)
Unmatched(c, d) ==
  \A i \in 1 .. Len(c), j \in 1 .. Len(d) : Apart(c[i], d[j]) > SyncTolerance

LEMMA PairFound ==
  ASSUME NEW c \in Seq(MessageType), NEW d \in Seq(MessageType), NEW pair, pair = BestPair(c, d)
  PROVE  \/ pair = <<>> /\ Unmatched(c, d)
         \/ /\ pair # <<>> /\ pair[1] \in 1 .. Len(c) /\ pair[2] \in 1 .. Len(d)
            /\ Apart(c[pair[1]], d[pair[2]]) <= SyncTolerance
<1> DEFINE off(p) == Apart(c[p[1]], d[p[2]])
           pairs == {p \in (DOMAIN c) \X (DOMAIN d) : off(p) <= SyncTolerance}
           Before(p, q) == \/ off(p) < off(q)
                           \/ /\ off(p) = off(q)
                              /\ p[1] < q[1] \/ (p[1] = q[1] /\ p[2] <= q[2])
           B == {x \in pairs \X pairs : Before(x[1], x[2])}
<1>1. Len(c) \in Nat /\ Len(d) \in Nat /\ DOMAIN c = 1 .. Len(c) /\ DOMAIN d = 1 .. Len(d)
  OBVIOUS
<1>2. \A p \in (1 .. Len(c)) \X (1 .. Len(d)) : off(p) \in Int
  <2>1. \A m, n \in MessageType : Apart(m, n) \in Int
    BY DEF Apart, MessageType
  <2>2. \A i \in 1 .. Len(c) : c[i] \in MessageType
    OBVIOUS
  <2>3. \A i \in 1 .. Len(d) : d[i] \in MessageType
    OBVIOUS
  <2>4. QED
    BY <2>1, <2>2, <2>3
<1>3. BestPair(c, d) = IF pairs = {} THEN <<>>
                       ELSE CHOOSE p \in pairs : \A q \in pairs : Before(p, q)
  BY DEF BestPair
<1>4. IsFiniteSet(pairs) /\ pairs \subseteq (1 .. Len(c)) \X (1 .. Len(d))
  <2>1. IsFiniteSet(1 .. Len(c)) /\ IsFiniteSet(1 .. Len(d))
    BY <1>1, FS_Interval
  <2>2. IsFiniteSet((1 .. Len(c)) \X (1 .. Len(d)))
    BY <2>1, FS_Product
  <2>3. QED
    BY <2>2, FS_Subset
<1>41. /\ \A p \in pairs : Apart(c[p[1]], d[p[2]]) <= SyncTolerance
       /\ pairs = {} => Unmatched(c, d)
  <2>1. ASSUME NEW i \in 1 .. Len(c), NEW j \in 1 .. Len(d),
               ~(Apart(c[i], d[j]) > SyncTolerance)
        PROVE  pairs # {}
    <3>1. <<i, j>> \in (1 .. Len(c)) \X (1 .. Len(d))
      OBVIOUS
    <3>2. off(<<i, j>>) = Apart(c[i], d[j]) /\ off(<<i, j>>) \in Int
      BY <1>2, <3>1
    <3>3. off(<<i, j>>) <= SyncTolerance
      BY <2>1, <3>2, PairingAssumption
    <3>4. <<i, j>> \in pairs
      BY <1>1, <3>1, <3>3
    <3>5. QED
      BY <3>4
  <2>2. QED
    BY <2>1 DEF Unmatched
<1> HIDE DEF off
<1>5. \A p \in pairs : off(p) \in Int /\ p[1] \in Int /\ p[2] \in Int
  BY <1>1, <1>2, <1>4
<1>6. \A a, b \in pairs : <<a, b>> \in B <=> Before(a, b)
  OBVIOUS
<1> HIDE DEF B, pairs
<1>7. /\ \A a, b \in pairs : Before(a, b) \/ Before(b, a)
      /\ \A a, b, e \in pairs : Before(a, b) /\ Before(b, e) => Before(a, e)
  <2>1. ASSUME NEW a \in pairs, NEW b \in pairs, NEW e \in pairs
        PROVE  /\ Before(a, b) \/ Before(b, a)
               /\ Before(a, b) /\ Before(b, e) => Before(a, e)
    <3> DEFINE xa == off(a)
               ya == a[1]
               za == a[2]
               xb == off(b)
               yb == b[1]
               zb == b[2]
               xe == off(e)
               ye == e[1]
               ze == e[2]
               Lex(x, y, z, u, v, w) == x < u \/ (x = u /\ (y < v \/ (y = v /\ z <= w)))
    <3>1. /\ xa \in Int /\ ya \in Int /\ za \in Int
          /\ xb \in Int /\ yb \in Int /\ zb \in Int
          /\ xe \in Int /\ ye \in Int /\ ze \in Int
      BY <1>5, <2>1
    <3>2. /\ Before(a, b) <=> Lex(xa, ya, za, xb, yb, zb)
          /\ Before(b, a) <=> Lex(xb, yb, zb, xa, ya, za)
          /\ Before(b, e) <=> Lex(xb, yb, zb, xe, ye, ze)
          /\ Before(a, e) <=> Lex(xa, ya, za, xe, ye, ze)
      OBVIOUS
    <3> HIDE DEF Before, xa, ya, za, xb, yb, zb, xe, ye, ze
    <3>3. QED
      BY <3>1, <3>2
  <2> HIDE DEF Before
  <2>2. QED
    BY <2>1
<1> HIDE DEF Before
<1>8. CASE pairs # {}
  <2>1. \A a, b \in pairs : <<a, b>> \in B \/ <<b, a>> \in B
    BY <1>6, <1>7
  <2>2. \A a, b, e \in pairs : <<a, b>> \in B /\ <<b, e>> \in B => <<a, e>> \in B
    BY <1>6, <1>7
  <2>3. \E p \in pairs : \A q \in pairs : <<p, q>> \in B
    BY <1>4, <1>8, <2>1, <2>2, LeastMember
  <2>4. \E p \in pairs : \A q \in pairs : Before(p, q)
    BY <1>6, <2>3
  <2>5. pair \in pairs
    BY <1>3, <1>8, <2>4
  <2>6. pair # <<>>
    <3>1. pair \in (1 .. Len(c)) \X (1 .. Len(d))
      BY <1>4, <2>5
    <3>2. PICK i \in 1 .. Len(c), j \in 1 .. Len(d) : pair = <<i, j>>
      BY <3>1
    <3>3. Len(<<i, j>>) = 2 /\ Len(<<>>) = 0
      OBVIOUS
    <3>4. QED
      BY <3>2, <3>3
  <2>7. QED
    BY <1>4, <1>41, <2>5, <2>6
<1>9. QED
  BY <1>3, <1>41, <1>8

LEMMA Trimmed ==
  ASSUME NEW T, NEW q \in Seq(T)
  PROVE  Trim(q) \in Seq(T)
<1>1. CASE q = <<>>
  BY <1>1, PairingAssumption DEF Trim
<1>2. CASE q # <<>>
  <2>1. Tail(q) \in Seq(T)
    BY <1>2
  <2>2. QED
    BY <2>1 DEF Trim
<1>3. QED
  BY <1>1, <1>2

LEMMA Removed ==
  ASSUME NEW T, NEW q \in Seq(T), NEW i \in 1 .. Len(q)
  PROVE  RemoveAt(q, i) \in Seq(T)
<1>1. Len(q) \in Nat /\ \A k \in 1 .. Len(q) : q[k] \in T
  OBVIOUS
<1>2. SubSeq(q, 1, i - 1) \in Seq(T)
  <2>1. \A k \in 1 .. i - 1 : q[k] \in T
    BY <1>1
  <2>2. i - 1 \in Int
    OBVIOUS
  <2>3. QED
    BY <2>1, <2>2, SubSeqProperties
<1>3. SubSeq(q, i + 1, Len(q)) \in Seq(T)
  <2>1. \A k \in i + 1 .. Len(q) : q[k] \in T
    BY <1>1
  <2>2. i + 1 \in Int /\ Len(q) \in Int
    BY <1>1
  <2>3. QED
    BY <2>1, <2>2, SubSeqProperties
<1>4. QED
  BY <1>2, <1>3, ConcatProperties DEF RemoveAt

LEMMA RetryQueued ==
  ASSUME QueueInv, NEW cloud \in MessageType, NEW detection \in MessageType,
         EnqueueRetry(cloud, detection)
  PROVE  retries' \in Seq(RetryType)
<1> DEFINE r == [cloud |-> cloud, detection |-> detection, deadline |-> clock + RetryWindow]
<1>1. r \in RetryType /\ retries \in Seq(RetryType)
  BY InputAssumption DEF QueueInv, RetryType
<1>2. retries' = retries \/ retries' = Trim(Append(retries, r))
  BY DEF EnqueueRetry
<1> HIDE DEF r
<1>3. Append(retries, r) \in Seq(RetryType)
  BY <1>1
<1>4. QED
  BY <1>1, <1>2, <1>3, Trimmed

-----------------------------------------------------------------------------
(* The registry between two steps.                                         *)
DataInv == FileInv /\ RegInv /\ CleanMeansSaved

LEMMA WorkingIs ==
  /\ Working.records = reg.records /\ Working.index = reg.index
  /\ Working.candidates = reg.candidates /\ Working.dirty = reg.dirty
  /\ Working.unpublished = reg.unpublished /\ Working.files = pictures
  /\ Working.inserted = FALSE
BY DEF Working

LEMMA WorkingGood ==
  ASSUME RegInv, up
  PROVE  Good(Working)
<1>1. Marked(Working)
  BY WorkingIs DEF Marked
<1>2. QED
  BY <1>1 DEF RegInv, Good

LEMMA SoundLike ==
  ASSUME NEW g, Sound(g), NEW h \in WorkType,
         h.records = g.records, h.index = g.index, h.files = g.files,
         \A c \in h.candidates : Tentative(c)
  PROVE  Sound(h)
BY DEF Sound, OwnNames, Exact

LEMMA WorkTyped ==
  ASSUME NEW records, NEW index, NEW candidates, NEW dirty, NEW unpublished, NEW files,
         NEW inserted,
         records \in Seq(ObjectType), index \in SUBSET (Labels \X Int \X Nat),
         candidates \in Candidates, dirty \in BOOLEAN, unpublished \in BOOLEAN,
         files \in Files, inserted \in BOOLEAN
  PROVE  [records |-> records, index |-> index, candidates |-> candidates, dirty |-> dirty,
          unpublished |-> unpublished, files |-> files, inserted |-> inserted] \in WorkType
BY DEF WorkType

LEMMA Idle ==
  ASSUME DataInv, UNCHANGED <<up, reg, persistence, revived, disk>>
  PROVE  DataInv'
<1>1. FileInv'
  BY DEF DataInv, FileInv, disk
<1>2. CleanMeansSaved'
  BY DEF DataInv, CleanMeansSaved, disk
<1>3. Working' = Working
  BY DEF Working, disk
<1>4. RegInv'
  BY <1>3 DEF DataInv, RegInv, Kept, disk
<1>5. QED
  BY <1>1, <1>2, <1>4 DEF DataInv

(* A callback that worked on g leaves the registry as g has it.            *)
LEMMA SettleKeeps ==
  ASSUME DataInv, up, NEW g, Good(g), Settle(g), UNCHANGED <<up, mode, file, stale>>
  PROVE  DataInv'
<1>1. /\ reg' = [records |-> g.records, index |-> g.index, candidates |-> g.candidates,
                 dirty |-> g.dirty, unpublished |-> g.unpublished /\ ~g.inserted]
      /\ pictures' = g.files
  BY DEF Settle
<1>2. /\ reg'.records = g.records /\ reg'.index = g.index /\ reg'.candidates = g.candidates
      /\ reg'.dirty = g.dirty /\ reg'.unpublished \in BOOLEAN
      /\ reg' = [records |-> reg'.records, index |-> reg'.index,
                 candidates |-> reg'.candidates, dirty |-> reg'.dirty,
                 unpublished |-> reg'.unpublished]
  BY <1>1
<1>3. Sound(g) /\ g \in WorkType /\ Marked(g)
  BY DEF Good, Sound
<1>4. Working' \in WorkType
  <2>1. Working' = [records |-> g.records, index |-> g.index, candidates |-> g.candidates,
                    dirty |-> g.dirty, unpublished |-> reg'.unpublished, files |-> g.files,
                    inserted |-> FALSE]
    BY <1>1, <1>2 DEF Working
  <2>2. QED
    BY <1>2, <1>3, <2>1, WorkFields, WorkTyped
<1>5. /\ Working'.records = g.records /\ Working'.index = g.index
      /\ Working'.candidates = g.candidates /\ Working'.files = g.files
  BY <1>1, <1>2 DEF Working
<1>6. Sound(Working')
  BY <1>3, <1>4, <1>5, SoundLike DEF Sound
<1>7. ~revived => Faithful(Working')
  BY <1>5 DEF Good, Faithful
<1>8. ~stale => Kept(Working')
  BY <1>5 DEF Good, Kept
<1>9. RegInv'
  <2>1. Sound(Working)'
    BY <1>6
  <2>2. (up /\ ~revived => Faithful(Working))'
    BY <1>7 DEF mode
  <2>3. (up /\ ~stale => Kept(Working))'
    BY <1>8 DEF Kept
  <2>4. (~up => reg = EmptyRegistry /\ ~revived)' /\ (revived => stale)'
    BY DEF DataInv, RegInv, mode
  <2>5. QED
    BY <1>2, <2>1, <2>2, <2>3, <2>4 DEF RegInv
<1>10. FileInv'
  <2>1. ~stale => \A o \in file.objects : Shows(o, pictures')
    BY <1>1 DEF Good, Kept
  <2>2. QED
    BY <2>1 DEF DataInv, FileInv
<1>11. CleanMeansSaved'
  <2>1. ~reg'.dirty => reg'.records = reg.records /\ ~reg.dirty
    BY <1>2, <1>3 DEF Marked
  <2>2. QED
    BY <2>1 DEF DataInv, CleanMeansSaved, Objects, mode
<1>12. QED
  BY <1>9, <1>10, <1>11 DEF DataInv

LEMMA PicturesTyped ==
  ASSUME RegInv
  PROVE  pictures \in Files
<1>1. Working \in WorkType
  BY DEF RegInv, Sound
<1>2. QED
  BY <1>1, WorkFields, WorkingIs

LEMMA WithoutTyped ==
  ASSUME RegInv, NEW objects
  PROVE  WithoutPictures(objects) \in Files
<1>1. DOMAIN pictures \in SUBSET Paths /\ \A p \in DOMAIN pictures : pictures[p] \in Int
  BY PicturesTyped, FilesAre
<1> DEFINE D == (DOMAIN pictures) \ {o.image : o \in objects}
<1>2. D \in SUBSET Paths /\ \A p \in D : pictures[p] \in Int
  BY <1>1
<1>3. WithoutPictures(objects) = [p \in D |-> pictures[p]]
  BY DEF WithoutPictures
<1> HIDE DEF D
<1>4. [p \in D |-> pictures[p]] \in [D -> Int]
  BY <1>2
<1>5. QED
  BY <1>2, <1>3, <1>4 DEF Files

(* A registry without objects is right, whatever there is to be saved.     *)
LEMMA EmptyKeeps ==
  ASSUME RegInv, reg'.dirty \in BOOLEAN, reg' = [EmptyRegistry EXCEPT !.dirty = reg'.dirty],
         pictures' \in Files, FileInv', ~revived',
         up' => (~stale' => file'.objects = {}),
         up' => (~reg'.dirty => file'.objects = {}),
         ~up' => reg' = EmptyRegistry
  PROVE  DataInv'
<1>1. /\ reg'.records = <<>> /\ reg'.index = {} /\ reg'.candidates = {}
      /\ reg'.unpublished = FALSE
      /\ reg' = [records |-> reg'.records, index |-> reg'.index,
                 candidates |-> reg'.candidates, dirty |-> reg'.dirty,
                 unpublished |-> reg'.unpublished]
  BY DEF EmptyRegistry
<1>2. Working' \in WorkType
  <2>1. Working' = [records |-> <<>>, index |-> {}, candidates |-> {}, dirty |-> reg'.dirty,
                    unpublished |-> FALSE, files |-> pictures', inserted |-> FALSE]
    BY <1>1 DEF Working
  <2>2. {} \in Candidates
    BY FS_EmptySet DEF Candidates
  <2>3. <<>> \in Seq(ObjectType)
    OBVIOUS
  <2>4. QED
    BY <2>1, <2>2, <2>3, WorkTyped
<1>3. Working'.records = <<>> /\ Working'.index = {} /\ Working'.candidates = {}
  BY <1>1 DEF Working
<1>4. Sound(Working')
  <2>1. DOMAIN Working'.records = {}
    BY <1>3
  <2>2. QED
    BY <1>2, <1>3, <2>1 DEF Sound, OwnNames, Exact
<1>5. Faithful(Working')
  BY <1>3 DEF Faithful
<1>6. (up /\ ~stale => Kept(Working))'
  BY DEF Kept
<1>7. RegInv'
  <2>1. Sound(Working)' /\ Faithful(Working)'
    BY <1>4, <1>5
  <2>2. QED
    BY <1>1, <1>6, <2>1 DEF RegInv
<1>8. CleanMeansSaved'
  <2>1. Objects(reg') = {}
    BY <1>1 DEF Objects
  <2>2. QED
    BY <2>1 DEF CleanMeansSaved
<1>9. QED
  BY <1>7, <1>8 DEF DataInv

(* What there is to be loaded.                                             *)
LEMMA LoadPathSound ==
  ASSUME FileInv
  PROVE  /\ LoadPath.objects \subseteq ObjectType /\ IsFiniteSet(LoadPath.objects)
         /\ \A o, p \in LoadPath.objects : o.name = p.name => o = p
         /\ \A o \in LoadPath.objects : Pictured(o)
         /\ file.kind # "absent" => LoadPath.objects = file.objects
         /\ file.kind = "absent" => \A o \in LoadPath.objects : o.image = NoPath
         /\ file.kind = "absent" => LoadPath.objects = LegacyObjects
<1>1. CASE file.kind = "absent"
  <2>1. LoadPath.objects = LegacyObjects
    BY <1>1 DEF LoadPath, Database
  <2>2. QED
    BY <1>1, <2>1, LegacyAssumption DEF Pictured
<1>2. CASE file.kind # "absent"
  <2>1. LoadPath.objects = file.objects
    BY <1>2 DEF LoadPath
  <2>2. QED
    BY <1>2, <2>1 DEF FileInv
<1>3. QED
  BY <1>1, <1>2

(* The pictures go, and with them the file, or the file is out of date.    *)
LEMMA LostPictures ==
  ASSUME FileInv, file' = file, stale' = (stale \/ LoadPath.objects # {})
  PROVE  FileInv' /\ (~stale' => file'.objects = {})
<1>1. ~stale' => file'.objects = {}
  BY LoadPathSound DEF FileInv
<1>2. FileInv'
  BY <1>1 DEF FileInv
<1>3. QED
  BY <1>1, <1>2

LEMMA ClearKeeps ==
  ASSUME DataInv, NEW objects, NEW works, Clear(objects, works), up'
  PROVE  DataInv'
<1>1. /\ pictures' = WithoutPictures(objects) /\ persistence' = TRUE /\ revived' = FALSE
  BY DEF Clear
<1>2. pictures' \in Files
  BY <1>1, WithoutTyped DEF DataInv
<1>3. CASE works
  <2>1. file' = Database({}) /\ reg' = EmptyRegistry
    BY <1>3 DEF Clear
  <2>2. file'.objects = {} /\ file'.kind = "objects"
    BY <2>1 DEF Database
  <2>3. FileInv'
    BY <2>2, FS_EmptySet DEF FileInv
  <2>4. reg'.dirty = FALSE /\ reg' = [EmptyRegistry EXCEPT !.dirty = reg'.dirty]
    BY <2>1 DEF EmptyRegistry
  <2>5. QED
    BY <1>1, <1>2, <2>2, <2>3, <2>4, EmptyKeeps DEF DataInv
<1>4. CASE ~works
  <2>1. /\ file' = file /\ stale' = (stale \/ LoadPath.objects # {})
        /\ reg' = [EmptyRegistry EXCEPT !.dirty = TRUE]
    BY <1>4 DEF Clear
  <2>2. FileInv' /\ (~stale' => file'.objects = {})
    BY <2>1, LostPictures DEF DataInv
  <2>3. reg'.dirty = TRUE /\ reg' = [EmptyRegistry EXCEPT !.dirty = reg'.dirty]
    BY <2>1 DEF EmptyRegistry
  <2>4. QED
    BY <1>1, <1>2, <2>2, <2>3, EmptyKeeps DEF DataInv
<1>5. QED
  BY <1>3, <1>4

LEMMA RegRecords ==
  ASSUME RegInv
  PROVE  /\ reg.records \in Seq(ObjectType) /\ Len(reg.records) \in Nat
         /\ DOMAIN reg.records = 1 .. Len(reg.records)
         /\ \A i, j \in DOMAIN reg.records : reg.records[i].name = reg.records[j].name => i = j
         /\ \A i \in DOMAIN reg.records :
               /\ Pictured(reg.records[i])
               /\ reg.records[i].image # NoPath => reg.records[i].image \in DOMAIN pictures
         /\ Exact(reg)
<1>1. Working \in WorkType /\ OwnNames(Working) /\ Exact(Working)
      /\ \A i \in DOMAIN Working.records :
            /\ Pictured(Working.records[i])
            /\ Working.records[i].image # NoPath => Working.records[i].image \in DOMAIN Working.files
  BY DEF RegInv, Sound
<1>2. reg.records \in Seq(ObjectType)
  BY <1>1, WorkFields, WorkingIs
<1>3. Len(reg.records) \in Nat /\ DOMAIN reg.records = 1 .. Len(reg.records)
  BY <1>2
<1>4. Exact(reg)
  BY <1>1, WorkingIs DEF Exact
<1>5. QED
  BY <1>1, <1>2, <1>3, <1>4, WorkingIs DEF OwnNames

(* A file that is written has what the node has.                           *)
LEMMA FileWritten ==
  ASSUME DataInv, up, file' = Database(Objects(reg)), stale' = revived, pictures' = pictures
  PROVE  FileInv' /\ file'.objects = Objects(reg)
<1>1. file'.kind = "objects" /\ file'.objects = Objects(reg)
  BY DEF Database
<1>2. /\ reg.records \in Seq(ObjectType) /\ Len(reg.records) \in Nat
      /\ DOMAIN reg.records = 1 .. Len(reg.records)
      /\ \A i, j \in DOMAIN reg.records : reg.records[i].name = reg.records[j].name => i = j
      /\ \A i \in DOMAIN reg.records : Pictured(reg.records[i])
  BY RegRecords DEF DataInv
<1>3. Objects(reg) = {reg.records[i] : i \in 1 .. Len(reg.records)}
  BY <1>2 DEF Objects
<1>4. IsFiniteSet(Objects(reg))
  BY <1>2, <1>3, FiniteRange
<1>5. Objects(reg) \subseteq ObjectType
  BY <1>2, <1>3
<1>6. \A o, p \in Objects(reg) : o.name = p.name => o = p
  BY <1>2 DEF Objects
<1>7. \A o \in Objects(reg) : Pictured(o)
  BY <1>2 DEF Objects
<1>8. ~revived => \A o \in Objects(reg) : Shows(o, pictures)
  BY WorkingIs DEF DataInv, RegInv, Faithful, Objects
<1>9. FileInv'
  BY <1>1, <1>4, <1>5, <1>6, <1>7, <1>8 DEF FileInv
<1>10. QED
  BY <1>1, <1>9

LEMMA SaveKeeps ==
  ASSUME DataInv, up, NEW works, SaveDatabase(reg, persistence, works),
         UNCHANGED <<up, mode, pictures>>
  PROVE  DataInv'
<1>1. CASE /\ file' = Database(Objects(reg)) /\ stale' = revived
           /\ reg' = [reg EXCEPT !.dirty = FALSE]
  <2>1. reg = [records |-> reg.records, index |-> reg.index, candidates |-> reg.candidates,
               dirty |-> reg.dirty, unpublished |-> reg.unpublished]
    BY DEF DataInv, RegInv
  <2>2. /\ reg'.records = reg.records /\ reg'.index = reg.index
        /\ reg'.candidates = reg.candidates /\ reg'.dirty = FALSE
        /\ reg'.unpublished = reg.unpublished
        /\ reg' = [records |-> reg'.records, index |-> reg'.index,
                   candidates |-> reg'.candidates, dirty |-> reg'.dirty,
                   unpublished |-> reg'.unpublished]
    BY <1>1, <2>1
  <2>3. FileInv' /\ file'.objects = Objects(reg)
    BY <1>1, FileWritten
  <2>4. Objects(reg') = Objects(reg)
    BY <2>2 DEF Objects
  <2>5. CleanMeansSaved'
    BY <2>3, <2>4 DEF CleanMeansSaved
  <2>6. /\ Working'.records = Working.records /\ Working'.index = Working.index
        /\ Working'.candidates = Working.candidates /\ Working'.files = Working.files
    BY <2>2 DEF Working
  <2>7. Sound(Working)
    BY DEF DataInv, RegInv
  <2>8. Working' \in WorkType
    <3>1. Working' = [records |-> reg.records, index |-> reg.index,
                      candidates |-> reg.candidates, dirty |-> FALSE,
                      unpublished |-> reg.unpublished, files |-> pictures, inserted |-> FALSE]
      BY <2>2 DEF Working
    <3>2. /\ reg.records \in Seq(ObjectType) /\ reg.index \in SUBSET (Labels \X Int \X Nat)
          /\ reg.candidates \in Candidates /\ reg.unpublished \in BOOLEAN /\ pictures \in Files
      BY <2>7, WorkFields, WorkingIs DEF Sound
    <3>3. QED
      BY <3>1, <3>2, WorkTyped
  <2>9. Sound(Working')
    BY <2>6, <2>7, <2>8, SoundLike DEF Sound
  <2>10. ~revived => Faithful(Working')
    BY <2>6 DEF DataInv, RegInv, Faithful
  <2>11. ~revived => Kept(Working)'
    <3> SUFFICES ASSUME ~revived, NEW o \in Objects(reg)
                 PROVE  /\ Shows(o, Working'.files)
                        /\ \E i \in DOMAIN Working'.records :
                             /\ Working'.records[i].name = o.name
                             /\ o.image # NoPath => Working'.records[i].image = o.image
      BY <2>3 DEF Kept
    <3>1. PICK i \in DOMAIN reg.records : o = reg.records[i]
      BY DEF Objects
    <3>2. Shows(o, Working'.files)
      BY <2>6, <2>10, <3>1, WorkingIs DEF Faithful
    <3>3. QED
      BY <2>6, <3>1, <3>2, WorkingIs
  <2>12. RegInv'
    <3>1. Sound(Working)' /\ (up /\ ~revived => Faithful(Working))'
      BY <2>9, <2>10 DEF mode
    <3>2. (up /\ ~stale => Kept(Working))'
      BY <1>1, <2>11
    <3>3. (~up => reg = EmptyRegistry /\ ~revived)' /\ (revived => stale)'
      BY <1>1 DEF mode
    <3>4. QED
      BY <2>2, <3>1, <3>2, <3>3 DEF RegInv
  <2>13. QED
    BY <2>3, <2>5, <2>12 DEF DataInv
<1>2. CASE reg' = reg /\ UNCHANGED <<file, stale>>
  BY <1>2, Idle DEF mode, disk
<1>3. QED
  BY <1>1, <1>2 DEF SaveDatabase

(* A node that is down has nothing.                                        *)
LEMMA DownKeeps ==
  ASSUME RegInv, Down, FileInv', pictures' \in Files
  PROVE  DataInv'
<1>1. ~up' /\ reg' = EmptyRegistry /\ ~revived'
  BY DEF Down
<1>2. reg'.dirty = FALSE /\ reg' = [EmptyRegistry EXCEPT !.dirty = reg'.dirty]
  BY <1>1 DEF EmptyRegistry
<1>3. QED
  BY <1>1, <1>2, EmptyKeeps

(* An object as it is loaded.                                              *)
LEMMA LoadedIs ==
  ASSUME FileInv, pictures \in Files, NEW o \in LoadPath.objects
  PROVE  /\ Loaded(o) \in ObjectType /\ Loaded(o).name = o.name /\ Loaded(o).label = o.label
         /\ Pictured(Loaded(o))
         /\ Loaded(o).image # NoPath => Loaded(o).image \in DOMAIN pictures
         /\ o.image # NoPath /\ o.image \in DOMAIN pictures => Loaded(o) = o
         /\ o.image = NoPath => Loaded(o) = o
<1>1. o \in ObjectType /\ Pictured(o)
  BY LoadPathSound
<1>2. o = [name |-> o.name, label |-> o.label, sum |-> o.sum, count |-> o.count,
           seen |-> o.seen, image |-> o.image, conf |-> o.conf]
      /\ o.name \in Names /\ o.label \in Labels /\ o.sum \in Int /\ o.count \in Nat \ {0}
      /\ o.seen \in Int
  BY <1>1 DEF ObjectType
<1>3. NoPath \notin DOMAIN pictures
  BY FilesAre, NotAPath
<1>4. CASE o.image \in DOMAIN pictures
  BY <1>1, <1>3, <1>4 DEF Loaded
<1>5. CASE o.image \notin DOMAIN pictures
  <2>1. Loaded(o) = [o EXCEPT !.image = NoPath, !.conf = -1]
    BY <1>5 DEF Loaded
  <2> DEFINE l == Loaded(o)
  <2> HIDE DEF l
  <2>2. l = [name |-> o.name, label |-> o.label, sum |-> o.sum, count |-> o.count,
             seen |-> o.seen, image |-> NoPath, conf |-> -1]
    BY <1>2, <2>1 DEF l
  <2>3. l \in ObjectType
    BY <1>2, <2>2 DEF ObjectType
  <2>4. l.name = o.name /\ l.label = o.label /\ l.image = NoPath /\ l.conf = -1
    BY <2>2
  <2>5. Pictured(l)
    BY <2>4 DEF Pictured
  <2>6. o.image = NoPath => l = o
    <3> SUFFICES ASSUME o.image = NoPath PROVE l = o
      OBVIOUS
    <3>1. o.conf = -1
      BY <1>1 DEF Pictured
    <3>2. QED
      BY <1>2, <2>2, <3>1
  <2>7. QED
    BY <1>5, <2>3, <2>4, <2>5, <2>6 DEF l
<1>6. QED
  BY <1>4, <1>5

LEMMA LoadedFinite ==
  ASSUME FileInv
  PROVE  IsFiniteSet(LoadedObjects)
<1> DEFINE S == LoadPath.objects
           h == [o \in S |-> Loaded(o)]
           T == {Loaded(o) : o \in S}
<1>1. IsFiniteSet(S)
  BY LoadPathSound
<1>2. h \in Surjection(S, T)
  <2>1. h \in [S -> T] /\ \A x \in T : \E o \in S : h[o] = x
    OBVIOUS
  <2> HIDE DEF h, T
  <2>2. QED
    BY <2>1 DEF Surjection
<1> HIDE DEF S, h, T
<1>3. IsFiniteSet(T)
  BY <1>1, <1>2, FS_Surjection
<1>4. QED
  BY <1>3 DEF T, S, LoadedObjects

LEMMA LoadKeeps ==
  ASSUME DataInv, ~up, up' = TRUE, UNCHANGED disk,
         NEW records \in SetToSeqs(LoadedObjects), reg' = LoadedRegistry(records, NeedsRewrite),
         persistence' = (file.kind # "foreign"), revived' = stale
  PROVE  DataInv'
<1>1. FileInv /\ RegInv /\ pictures \in Files /\ file' = file /\ pictures' = pictures
      /\ stale' = stale
  BY PicturesTyped DEF DataInv, disk
<1>2. /\ records \in Seq(LoadedObjects) /\ DOMAIN records = 1 .. Len(records)
      /\ \A x \in LoadedObjects : \E i \in DOMAIN records : records[i] = x
      /\ \A i, j \in DOMAIN records : records[i] = records[j] => i = j
  BY <1>1, LoadedFinite, Enumeration
<1>3. Len(records) \in Nat /\ \A i \in DOMAIN records : records[i] \in LoadedObjects
  BY <1>2
<1>4. \A i \in DOMAIN records : \E o \in LoadPath.objects : records[i] = Loaded(o)
  BY <1>3 DEF LoadedObjects
<1>5. \A o \in LoadPath.objects : \E i \in DOMAIN records : records[i] = Loaded(o)
  BY <1>2 DEF LoadedObjects
<1>6. \A i \in DOMAIN records :
        /\ records[i] \in ObjectType /\ Pictured(records[i])
        /\ records[i].image # NoPath => records[i].image \in DOMAIN pictures
  BY <1>1, <1>4, LoadedIs
<1>7. records \in Seq(ObjectType)
  <2>1. records = [i \in 1 .. Len(records) |-> records[i]]
    BY <1>2
  <2>2. records \in [1 .. Len(records) -> ObjectType]
    BY <1>2, <1>6, <2>1
  <2>3. QED
    BY <1>3, <2>2, SeqDef
<1>8. \A i, j \in DOMAIN records : records[i].name = records[j].name => i = j
  <2> SUFFICES ASSUME NEW i \in DOMAIN records, NEW j \in DOMAIN records,
                      records[i].name = records[j].name
               PROVE  i = j
    OBVIOUS
  <2>1. PICK o \in LoadPath.objects : records[i] = Loaded(o)
    BY <1>4
  <2>2. PICK p \in LoadPath.objects : records[j] = Loaded(p)
    BY <1>4
  <2>3. o.name = p.name
    BY <1>1, <2>1, <2>2, LoadedIs
  <2>4. o = p
    BY <1>1, <2>3, LoadPathSound
  <2>5. QED
    BY <1>2, <2>1, <2>2, <2>4
<1> DEFINE index == {<<records[i].label, CellOf(records[i]), i>> : i \in DOMAIN records}
<1>9. /\ reg'.records = records /\ reg'.index = index /\ reg'.candidates = {}
      /\ reg'.dirty = NeedsRewrite /\ reg'.unpublished = FALSE
      /\ reg' = [records |-> reg'.records, index |-> reg'.index,
                 candidates |-> reg'.candidates, dirty |-> reg'.dirty,
                 unpublished |-> reg'.unpublished]
  BY DEF LoadedRegistry, EmptyRegistry
<1>10. index \in SUBSET (Labels \X Int \X Nat)
  <2> SUFFICES ASSUME NEW i \in DOMAIN records
               PROVE  <<records[i].label, CellOf(records[i]), i>> \in Labels \X Int \X Nat
    OBVIOUS
  <2>1. /\ records[i].label \in Labels /\ records[i].sum \in Int
        /\ records[i].count \in Nat \ {0} /\ i \in Nat
    BY <1>2, <1>3, <1>7, Records
  <2>2. CellOf(records[i]) \in Int
    BY <2>1, CellTyped
  <2>3. QED
    BY <2>1, <2>2
<1> HIDE DEF index
<1>11. Working' \in WorkType
  <2>1. Working' = [records |-> records, index |-> index, candidates |-> {},
                    dirty |-> reg'.dirty, unpublished |-> FALSE, files |-> pictures,
                    inserted |-> FALSE]
    BY <1>1, <1>9 DEF Working
  <2>2. {} \in Candidates
    BY FS_EmptySet DEF Candidates
  <2>3. reg'.dirty \in BOOLEAN
    BY <1>9 DEF NeedsRewrite
  <2>4. QED
    BY <1>1, <1>7, <1>10, <2>1, <2>2, <2>3, WorkTyped
<1>12. /\ Working'.records = records /\ Working'.index = index /\ Working'.candidates = {}
       /\ Working'.files = pictures
  BY <1>1, <1>9 DEF Working
<1>13. Sound(Working')
  BY <1>6, <1>8, <1>11, <1>12 DEF Sound, OwnNames, Exact, index
<1>14. ASSUME ~stale, NEW o \in LoadPath.objects
       PROVE  o.image # NoPath => o.image \in DOMAIN pictures /\ pictures[o.image] = o.conf
                                   /\ Loaded(o) = o
  BY <1>1, <1>14, LoadPathSound, LoadedIs DEF FileInv, Shows
<1>15. ~stale => Faithful(Working')
  <2> SUFFICES ASSUME ~stale, NEW i \in DOMAIN records
               PROVE  Shows(records[i], pictures)
    BY <1>12 DEF Faithful
  <2>1. PICK o \in LoadPath.objects : records[i] = Loaded(o)
    BY <1>4
  <2>2. CASE o.image = NoPath
    <3>1. Loaded(o) = o
      BY <1>1, <2>2, LoadedIs
    <3>2. QED
      BY <2>1, <2>2, <3>1 DEF Shows
  <2>3. CASE o.image # NoPath
    BY <1>14, <2>1, <2>3 DEF Shows
  <2>4. QED
    BY <2>2, <2>3
<1>16. ~stale => Kept(Working)'
  <2> SUFFICES ASSUME ~stale, NEW o \in file.objects
               PROVE  /\ Shows(o, pictures)
                      /\ \E i \in DOMAIN records : /\ records[i].name = o.name
                                                   /\ o.image # NoPath => records[i].image = o.image
    BY <1>1, <1>12 DEF Kept
  <2>1. o \in LoadPath.objects
    BY <1>1, LoadPathSound DEF FileInv
  <2>2. PICK i \in DOMAIN records : records[i] = Loaded(o)
    BY <1>5, <2>1
  <2>3. records[i].name = o.name /\ (o.image # NoPath => records[i].image = o.image)
    BY <1>1, <1>14, <2>1, <2>2, LoadedIs
  <2>4. Shows(o, pictures)
    BY <1>14, <2>1 DEF Shows
  <2>5. QED
    BY <2>3, <2>4
<1>17. RegInv'
  <2>1. Sound(Working)'
    BY <1>13
  <2>2. (up /\ ~revived => Faithful(Working))'
    BY <1>15
  <2>3. (up /\ ~stale => Kept(Working))'
    BY <1>1, <1>16
  <2>4. (~up => reg = EmptyRegistry /\ ~revived)' /\ (revived => stale)'
    BY <1>1
  <2>5. QED
    BY <1>9, <2>1, <2>2, <2>3, <2>4 DEF RegInv
<1>18. FileInv'
  BY <1>1 DEF FileInv
(* Nothing to save: what is loaded is what the file has.                   *)
<1>19. CleanMeansSaved'
  <2> SUFFICES ASSUME ~NeedsRewrite PROVE file.objects = LoadedObjects
    <3>1. Objects(reg') = {records[i] : i \in DOMAIN records}
      BY <1>9 DEF Objects
    <3>2. Objects(reg') = LoadedObjects
      BY <1>2, <1>3, <3>1
    <3>3. QED
      BY <1>1, <1>9, <3>2 DEF CleanMeansSaved
  <2>1. LoadPath.objects = file.objects
    BY <1>1, LoadPathSound DEF NeedsRewrite, FileInv
  <2>2. \A o \in LoadPath.objects : Loaded(o) = o
    <3> SUFFICES ASSUME NEW o \in LoadPath.objects PROVE Loaded(o) = o
      OBVIOUS
    <3>1. o.image # NoPath => Loaded(o).image # NoPath
      BY DEF NeedsRewrite
    <3>2. CASE o.image = NoPath
      BY <1>1, <3>2, LoadedIs
    <3>3. CASE o.image # NoPath
      <4>1. CASE o.image \in DOMAIN pictures
        BY <1>1, <3>3, <4>1, LoadedIs
      <4>2. CASE o.image \notin DOMAIN pictures
        <5>1. Loaded(o).image = NoPath
          <6>1. o \in ObjectType
            BY <1>1, LoadPathSound
          <6>2. QED
            BY <4>2, <6>1 DEF Loaded, ObjectType
        <5>2. QED
          BY <3>1, <3>3, <5>1
      <4>3. QED
        BY <4>1, <4>2
    <3>4. QED
      BY <3>2, <3>3
  <2>3. QED
    BY <2>1, <2>2 DEF LoadedObjects
<1>20. QED
  BY <1>17, <1>18, <1>19 DEF DataInv

-----------------------------------------------------------------------------
(* Callbacks.                                                              *)
LEMMA PairKeeps ==
  ASSUME IInv, up, NEW cloud \in MessageType, NEW detection \in MessageType, NEW works,
         ProcessPair(cloud, detection, works), UNCHANGED <<up, mode, file, stale>>
  PROVE  retries' \in Seq(RetryType) /\ DataInv'
<1>1. DataInv /\ retries \in Seq(RetryType)
  BY DEF IInv, DataInv, QueueInv
<1>2. CASE Confident(detection) # {} /\ TransformKnown(cloud)
  <2> DEFINE g == MergeAll(Working, cloud, detection, works)
  <2>1. Settle(g) /\ retries' = retries
    BY <1>2 DEF ProcessPair
  <2>2. Good(g)
    BY WorkingGood, MergeAllGood DEF IInv
  <2> HIDE DEF g
  <2>3. DataInv'
    BY <1>1, <2>1, <2>2, SettleKeeps
  <2>4. QED
    BY <1>1, <2>1, <2>3
<1>3. CASE ~(Confident(detection) # {} /\ TransformKnown(cloud))
  <2>1. /\ UNCHANGED <<reg, shown, pictures>>
        /\ UNCHANGED retries \/ EnqueueRetry(cloud, detection)
    BY <1>3 DEF ProcessPair
  <2>2. retries' \in Seq(RetryType)
    BY <1>1, <2>1, RetryQueued DEF IInv
  <2>3. DataInv'
    BY <1>1, <2>1, Idle DEF mode, disk
  <2>4. QED
    BY <2>2, <2>3
<1>4. QED
  BY <1>2, <1>3

LEMMA ObserveKeeps ==
  ASSUME IInv, up, NEW c \in Seq(MessageType), NEW d \in Seq(MessageType), NEW works,
         Observe(c, d, works), UNCHANGED <<up, mode, file, stale>>
  PROVE  /\ pendingClouds' \in Seq(MessageType) /\ pendingDetections' \in Seq(MessageType)
         /\ retries' \in Seq(RetryType) /\ DataInv'
<1> DEFINE pair == BestPair(c, d)
<1>1. pair = <<>> \/ (pair[1] \in 1 .. Len(c) /\ pair[2] \in 1 .. Len(d))
  BY PairFound, Zenon
<1>2. IF pair = <<>>
      THEN /\ pendingClouds' = c /\ pendingDetections' = d
           /\ UNCHANGED <<retries, reg, shown, pictures>>
      ELSE /\ pendingClouds' = RemoveAt(c, pair[1])
           /\ pendingDetections' = RemoveAt(d, pair[2])
           /\ ProcessPair(c[pair[1]], d[pair[2]], works)
  BY DEF Observe
<1> HIDE DEF pair
<1>3. CASE pair = <<>>
  <2>1. retries \in Seq(RetryType) /\ DataInv
    BY DEF IInv, QueueInv, DataInv
  <2>2. DataInv'
    BY <1>2, <1>3, <2>1, Idle DEF mode, disk
  <2>3. QED
    BY <1>2, <1>3, <2>1, <2>2
<1>4. CASE pair # <<>>
  <2> DEFINE i == pair[1]
             j == pair[2]
  <2>1. i \in 1 .. Len(c) /\ j \in 1 .. Len(d)
    BY <1>1, <1>4
  <2>2. /\ pendingClouds' = RemoveAt(c, i) /\ pendingDetections' = RemoveAt(d, j)
        /\ ProcessPair(c[i], d[j], works)
    BY <1>2, <1>4
  <2> HIDE DEF i, j
  <2>3. c[i] \in MessageType /\ d[j] \in MessageType
    BY <2>1
  <2>4. retries' \in Seq(RetryType) /\ DataInv'
    BY <2>2, <2>3, PairKeeps
  <2>5. RemoveAt(c, i) \in Seq(MessageType) /\ RemoveAt(d, j) \in Seq(MessageType)
    BY <2>1, Removed
  <2>6. QED
    BY <2>2, <2>4, <2>5
<1>5. QED
  BY <1>3, <1>4

LEMMA Together ==
  ASSUME QueueInv', DataInv'
  PROVE  IInv'
BY DEF IInv, DataInv

LEMMA CallbacksKeep ==
  ASSUME IInv, PointcloudCallback \/ DetectionsCallback
  PROVE  IInv'
<1>1. /\ clock \in Nat /\ clouds \in Seq(MessageType) /\ detections \in Seq(MessageType)
      /\ pendingClouds \in Seq(MessageType) /\ pendingDetections \in Seq(MessageType)
  BY DEF IInv, QueueInv
<1>2. CASE PointcloudCallback
  <2>1. /\ up /\ clouds # <<>> /\ clouds' = Tail(clouds)
        /\ UNCHANGED <<clock, transforms, detections, up, mode, file, stale>>
    BY <1>2 DEF PointcloudCallback
  <2>2. PICK works \in BOOLEAN :
          Observe(Trim(Append(pendingClouds, Head(clouds))), pendingDetections, works)
    BY <1>2 DEF PointcloudCallback
  <2>3. Append(pendingClouds, Head(clouds)) \in Seq(MessageType) /\ clouds' \in Seq(MessageType)
    BY <1>1, <2>1
  <2>4. Trim(Append(pendingClouds, Head(clouds))) \in Seq(MessageType)
    BY <2>3, Trimmed
  <2>5. /\ pendingClouds' \in Seq(MessageType) /\ pendingDetections' \in Seq(MessageType)
        /\ retries' \in Seq(RetryType) /\ DataInv'
    BY <1>1, <2>1, <2>2, <2>4, ObserveKeeps
  <2>6. QueueInv'
    BY <1>1, <2>1, <2>3, <2>5 DEF QueueInv
  <2>7. QED
    BY <2>5, <2>6, Together
<1>3. CASE DetectionsCallback
  <2>1. /\ up /\ detections # <<>> /\ detections' = Tail(detections)
        /\ UNCHANGED <<clock, transforms, clouds, up, mode, file, stale>>
    BY <1>3 DEF DetectionsCallback
  <2>2. PICK works \in BOOLEAN :
          Observe(pendingClouds, Trim(Append(pendingDetections, Head(detections))), works)
    BY <1>3 DEF DetectionsCallback
  <2>3. /\ Append(pendingDetections, Head(detections)) \in Seq(MessageType)
        /\ detections' \in Seq(MessageType)
    BY <1>1, <2>1
  <2>4. Trim(Append(pendingDetections, Head(detections))) \in Seq(MessageType)
    BY <2>3, Trimmed
  <2>5. /\ pendingClouds' \in Seq(MessageType) /\ pendingDetections' \in Seq(MessageType)
        /\ retries' \in Seq(RetryType) /\ DataInv'
    BY <1>1, <2>1, <2>2, <2>4, ObserveKeeps
  <2>6. QueueInv'
    BY <1>1, <2>1, <2>3, <2>5 DEF QueueInv
  <2>7. QED
    BY <2>5, <2>6, Together
<1>4. QED
  BY <1>2, <1>3

LEMMA RetryKeeps ==
  ASSUME IInv, RetryPendingTransforms
  PROVE  IInv'
<1>1. /\ up /\ UNCHANGED <<inputs, pendingClouds, pendingDetections, up, mode, file, stale>>
      /\ \E works \in BOOLEAN : Settle(RetryAll(works).g) /\ retries' = RetryAll(works).again
  BY DEF RetryPendingTransforms
<1>2. PICK works \in BOOLEAN : Settle(RetryAll(works).g) /\ retries' = RetryAll(works).again
  BY <1>1
<1>3. Good(RetryAll(works).g) /\ RetryAll(works).again \in Seq(RetryType)
  BY <1>1, WorkingGood, RetryAllGood DEF IInv, QueueInv
<1> DEFINE g == RetryAll(works).g
<1>4. Settle(g) /\ Good(g) /\ DataInv
  BY <1>2, <1>3 DEF IInv, DataInv
<1> HIDE DEF g
<1>5. DataInv'
  BY <1>1, <1>4, SettleKeeps
<1>6. QueueInv'
  BY <1>1, <1>2, <1>3 DEF IInv, QueueInv, inputs
<1>7. QED
  BY <1>5, <1>6, Together

LEMMA SnapshotKeeps ==
  ASSUME IInv, SnapshotTimer
  PROVE  IInv'
<1>1. /\ reg' = [reg EXCEPT !.candidates = Prune(@, clock), !.unpublished = FALSE]
      /\ UNCHANGED <<inputs, queues, up, mode, disk>>
  BY DEF SnapshotTimer
<1>2. /\ file' = file /\ pictures' = pictures /\ stale' = stale /\ revived' = revived
      /\ persistence' = persistence /\ up' = up
  BY <1>1 DEF mode, disk
<1>3. FileInv /\ RegInv /\ CleanMeansSaved
  BY DEF IInv
<1>4. reg = [records |-> reg.records, index |-> reg.index, candidates |-> reg.candidates,
             dirty |-> reg.dirty, unpublished |-> reg.unpublished]
  BY <1>3 DEF RegInv
<1> DEFINE C == Prune(reg.candidates, clock)
<1>5. /\ reg'.records = reg.records /\ reg'.index = reg.index /\ reg'.candidates = C
      /\ reg'.dirty = reg.dirty /\ reg'.unpublished = FALSE
      /\ reg' = [records |-> reg'.records, index |-> reg'.index,
                 candidates |-> reg'.candidates, dirty |-> reg'.dirty,
                 unpublished |-> reg'.unpublished]
  BY <1>1, <1>4
<1>6. /\ Sound(Working) /\ reg.candidates \in Candidates
      /\ reg.records \in Seq(ObjectType) /\ reg.index \in SUBSET (Labels \X Int \X Nat)
      /\ reg.dirty \in BOOLEAN /\ pictures \in Files /\ \A c \in reg.candidates : Tentative(c)
  BY <1>3, WorkFields, WorkingIs DEF RegInv, Sound
<1>7. C \in Candidates /\ C \subseteq reg.candidates
  BY <1>6, PruneTyped
<1> HIDE DEF C
<1>8. Working' \in WorkType
  <2>1. Working' = [records |-> reg.records, index |-> reg.index, candidates |-> C,
                    dirty |-> reg.dirty, unpublished |-> FALSE, files |-> pictures,
                    inserted |-> FALSE]
    BY <1>2, <1>5 DEF Working
  <2>2. QED
    BY <1>6, <1>7, <2>1, WorkTyped
<1>9. /\ Working'.records = Working.records /\ Working'.index = Working.index
      /\ Working'.files = Working.files /\ Working'.candidates = C
  BY <1>2, <1>5 DEF Working
<1>10. Sound(Working')
  BY <1>6, <1>7, <1>8, <1>9, SoundLike
<1>11. RegInv'
  <2>1. Sound(Working)'
    BY <1>10
  <2>2. (up /\ ~revived => Faithful(Working))'
    BY <1>2, <1>3, <1>9 DEF RegInv, Faithful
  <2>3. (up /\ ~stale => Kept(Working))'
    BY <1>2, <1>3, <1>9 DEF RegInv, Kept
  <2>4. up
    BY DEF SnapshotTimer
  <2>5. (~up => reg = EmptyRegistry /\ ~revived)' /\ (revived => stale)'
    BY <1>2, <1>3, <2>4 DEF RegInv
  <2>6. QED
    BY <1>5, <2>1, <2>2, <2>3, <2>5 DEF RegInv
<1>12. FileInv'
  BY <1>2, <1>3 DEF FileInv
<1>13. CleanMeansSaved'
  BY <1>2, <1>3, <1>5 DEF CleanMeansSaved, Objects
<1>14. QueueInv'
  BY <1>1 DEF IInv, QueueInv, inputs, queues
<1>15. QED
  BY <1>11, <1>12, <1>13, <1>14 DEF IInv

-----------------------------------------------------------------------------
(* The inductive invariant.                                                *)
LEMMA QueuesEmptied ==
  ASSUME clock' \in Nat, clouds' \in Seq(MessageType), detections' \in Seq(MessageType),
         pendingClouds' = <<>>, pendingDetections' = <<>>, retries' = <<>>
  PROVE  QueueInv'
BY DEF QueueInv

LEMMA DownQueues ==
  ASSUME IInv, Down
  PROVE  QueueInv'
<1>1. /\ clock' = clock /\ clouds' = <<>> /\ detections' = <<>>
      /\ pendingClouds' = <<>> /\ pendingDetections' = <<>> /\ retries' = <<>>
  BY DEF Down
<1>2. clock \in Nat
  BY DEF IInv, QueueInv
<1>3. QED
  BY <1>1, <1>2, QueuesEmptied DEF QueueInv

LEMMA InitIInv ==
  ASSUME Init
  PROVE  IInv
<1>1. /\ clock = 0 /\ clouds = <<>> /\ detections = <<>> /\ pendingClouds = <<>>
      /\ pendingDetections = <<>> /\ retries = <<>> /\ up = FALSE /\ reg = EmptyRegistry
      /\ file.objects = {} /\ pictures = <<>> /\ stale = FALSE /\ revived = FALSE
  BY DEF Init, Absent, Foreign
<1>2. QueueInv
  BY <1>1 DEF QueueInv
<1>3. FileInv
  BY <1>1, FS_EmptySet DEF FileInv
<1>4. /\ reg.records = <<>> /\ reg.index = {} /\ reg.candidates = {} /\ reg.dirty = FALSE
      /\ reg.unpublished = FALSE
      /\ reg = [records |-> reg.records, index |-> reg.index,
                candidates |-> reg.candidates, dirty |-> reg.dirty,
                unpublished |-> reg.unpublished]
  BY <1>1 DEF EmptyRegistry
<1>5. Working \in WorkType
  <2>1. Working = [records |-> <<>>, index |-> {}, candidates |-> {}, dirty |-> FALSE,
                   unpublished |-> FALSE, files |-> <<>>, inserted |-> FALSE]
    BY <1>1, <1>4 DEF Working
  <2>2. {} \in Candidates
    BY FS_EmptySet DEF Candidates
  <2>3. <<>> \in Seq(ObjectType) /\ <<>> \in Files
    <3>1. <<>> \in [{} -> Int] /\ {} \in SUBSET Paths
      OBVIOUS
    <3>2. QED
      BY <3>1 DEF Files
  <2>4. QED
    BY <2>1, <2>2, <2>3, WorkTyped
<1>6. Sound(Working)
  <2>1. DOMAIN Working.records = {} /\ Working.candidates = {} /\ Working.index = {}
    BY <1>4, WorkingIs
  <2>2. QED
    BY <1>5, <2>1 DEF Sound, OwnNames, Exact
<1>7. RegInv
  BY <1>1, <1>4, <1>6 DEF RegInv
<1>8. CleanMeansSaved
  BY <1>1 DEF CleanMeansSaved
<1>9. QED
  BY <1>2, <1>3, <1>7, <1>8 DEF IInv

LEMMA FrameKeeps ==
  ASSUME IInv, Frame
  PROVE  IInv'
<1>1. PICK scene \in Scenes, lost \in SUBSET {"cloud", "detections"} :
        /\ clouds' = Publish(clouds, "cloud" \notin lost,
                             [stamp |-> clock + 1, scene |-> scene])
        /\ detections' = Publish(detections, "detections" \notin lost,
                                 [stamp |-> clock + 1, scene |-> scene])
  BY DEF Frame
<1> DEFINE m == [stamp |-> clock + 1, scene |-> scene]
<1>2. /\ clock \in Nat /\ clouds \in Seq(MessageType) /\ detections \in Seq(MessageType)
      /\ clock' = clock + 1
  BY DEF IInv, QueueInv, Frame
<1>3. m \in MessageType
  BY <1>2 DEF MessageType
<1> HIDE DEF m
<1>4. Append(clouds, m) \in Seq(MessageType) /\ Append(detections, m) \in Seq(MessageType)
  BY <1>2, <1>3
<1>5. /\ clouds' = clouds \/ clouds' = Append(clouds, m)
      /\ detections' = detections \/ detections' = Append(detections, m)
  BY <1>1 DEF Publish, m
<1>6. UNCHANGED <<transforms, queues, up, reg, mode, shown, disk>>
  BY DEF Frame
<1>7. QueueInv'
  <2>1. clouds' \in Seq(MessageType) /\ detections' \in Seq(MessageType)
    BY <1>2, <1>4, <1>5
  <2>2. clock' \in Nat
    BY <1>2
  <2>3. /\ pendingClouds' = pendingClouds /\ pendingDetections' = pendingDetections
        /\ retries' = retries
    BY <1>6 DEF queues
  <2>4. /\ pendingClouds \in Seq(MessageType) /\ pendingDetections \in Seq(MessageType)
        /\ retries \in Seq(RetryType)
    BY DEF IInv, QueueInv
  <2>5. QED
    BY <2>1, <2>2, <2>3, <2>4 DEF QueueInv
<1>8. DataInv'
  BY <1>6, Idle DEF IInv, DataInv, mode
<1>9. QED
  BY <1>7, <1>8, Together

LEMMA NextIInv ==
  ASSUME IInv, [Next]_vars
  PROVE  IInv'
<1>1. QueueInv /\ DataInv /\ RegInv /\ FileInv
  BY DEF IInv, DataInv
<1>2. CASE Frame
  BY <1>2, FrameKeeps
<1>3. CASE TransformsArrive
  <2>1. /\ UNCHANGED <<clock, clouds, detections, queues>>
        /\ UNCHANGED <<up, reg, mode, disk>>
    BY <1>3 DEF TransformsArrive
  <2>2. QueueInv'
    BY <1>1, <2>1 DEF QueueInv, queues
  <2>3. DataInv'
    BY <1>1, <2>1, Idle DEF mode
  <2>4. QED
    BY <2>2, <2>3, Together
<1>4. CASE PointcloudCallback \/ DetectionsCallback
  BY <1>4, CallbacksKeep
<1>5. CASE RetryPendingTransforms
  BY <1>5, RetryKeeps
<1>6. CASE SnapshotTimer
  BY <1>6, SnapshotKeeps
<1>7. CASE SaveCallback
  <2>1. PICK works \in BOOLEAN : SaveDatabase(reg, persistence, works)
    BY <1>7 DEF SaveCallback
  <2>2. up /\ UNCHANGED <<inputs, queues, up, mode, pictures>>
    BY <1>7 DEF SaveCallback
  <2>3. DataInv'
    BY <1>1, <2>1, <2>2, SaveKeeps
  <2>4. QueueInv'
    BY <1>1, <2>2 DEF QueueInv, inputs, queues
  <2>5. QED
    BY <2>3, <2>4, Together
<1>8. CASE ClearCallback
  <2>1. PICK works \in BOOLEAN : Clear(Objects(reg), works)
    BY <1>8 DEF ClearCallback
  <2>2. up /\ UNCHANGED <<inputs, up>>
    BY <1>8 DEF ClearCallback
  <2>3. DataInv'
    BY <1>1, <2>1, <2>2, ClearKeeps
  <2>4. QueueInv'
    BY <1>1, <2>1, <2>2, QueuesEmptied DEF QueueInv, inputs, Clear
  <2>5. QED
    BY <2>3, <2>4, Together
<1>9. CASE StartLoading
  <2>1. PICK records \in SetToSeqs(LoadedObjects) : reg' = LoadedRegistry(records, NeedsRewrite)
    BY <1>9 DEF StartLoading
  <2>2. /\ ~up /\ up' = TRUE /\ UNCHANGED <<inputs, queues, disk>>
        /\ persistence' = (file.kind # "foreign") /\ revived' = stale
    BY <1>9 DEF StartLoading
  <2>3. DataInv'
    BY <1>1, <2>1, <2>2, LoadKeeps
  <2>4. QueueInv'
    BY <1>1, <2>2 DEF QueueInv, inputs, queues
  <2>5. QED
    BY <2>3, <2>4, Together
<1>10. CASE StartFresh
  <2>1. up' = TRUE /\ Clear(LoadedObjects, TRUE) /\ UNCHANGED inputs
    BY <1>10 DEF StartFresh
  <2>2. DataInv'
    BY <1>1, <2>1, ClearKeeps
  <2>3. QueueInv'
    BY <1>1, <2>1, QueuesEmptied DEF QueueInv, inputs, Clear
  <2>4. QED
    BY <2>2, <2>3, Together
<1>11. CASE StartFreshFails
  <2>1. /\ pictures' = WithoutPictures(LoadedObjects) /\ Down /\ file' = file
        /\ stale' = (stale \/ LoadPath.objects # {})
    BY <1>11 DEF StartFreshFails
  <2>2. pictures' \in Files /\ FileInv'
    BY <1>1, <2>1, WithoutTyped, LostPictures
  <2>3. DataInv' /\ QueueInv'
    BY <1>1, <2>1, <2>2, DownKeeps, DownQueues
  <2>4. QED
    BY <2>3, Together
<1>12. CASE Shutdown
  <2>1. /\ up /\ Down /\ pictures' = pictures
        /\ \/ file' = Database(Objects(reg)) /\ stale' = revived
           \/ UNCHANGED <<file, stale>>
    BY <1>12 DEF Shutdown
  <2>2. pictures' \in Files
    BY <1>1, <2>1, PicturesTyped
  <2>3. FileInv'
    <3>1. CASE file' = Database(Objects(reg)) /\ stale' = revived
      BY <1>1, <2>1, <3>1, FileWritten
    <3>2. CASE UNCHANGED <<file, stale>>
      BY <1>1, <2>1, <3>2 DEF FileInv
    <3>3. QED
      BY <2>1, <3>1, <3>2
  <2>4. DataInv' /\ QueueInv'
    BY <1>1, <2>1, <2>2, <2>3, DownKeeps, DownQueues
  <2>5. QED
    BY <2>4, Together
<1>13. CASE Kill
  <2>1. Down /\ UNCHANGED disk
    BY <1>13 DEF Kill
  <2>2. pictures' \in Files
    BY <1>1, <2>1, PicturesTyped DEF disk
  <2>3. FileInv'
    BY <1>1, <2>1 DEF FileInv, disk
  <2>4. DataInv' /\ QueueInv'
    BY <1>1, <2>1, <2>2, <2>3, DownKeeps, DownQueues
  <2>5. QED
    BY <2>4, Together
<1>14. CASE UNCHANGED vars
  <2>1. UNCHANGED <<inputs, queues>> /\ UNCHANGED <<up, reg, mode, disk>>
    BY <1>14 DEF vars
  <2>2. QueueInv'
    BY <1>1, <2>1 DEF QueueInv, inputs, queues
  <2>3. DataInv'
    BY <1>1, <2>1, Idle DEF mode
  <2>4. QED
    BY <2>2, <2>3, Together
<1>15. QED
  BY <1>2, <1>3, <1>4, <1>5, <1>6, <1>7, <1>8, <1>9, <1>10, <1>11, <1>12, <1>13, <1>14 DEF Next

(* Whatever is seen, lost, cleared, saved or killed, the registry is what  *)
(* its index, its file and its pictures say of it.                         *)
THEOREM Invariance == Spec => []IInv
<1>1. Init => IInv
  BY InitIInv
<1>2. IInv /\ [Next]_vars => IInv'
  BY NextIInv
<1>3. QED
  BY <1>1, <1>2, PTL DEF Spec

-----------------------------------------------------------------------------
(* What the runs check.                                                    *)

(* However observations are ordered, late or of the same instant, those of *)
(* a candidate make one run in order, and do not suffice yet               *)
(* (stage_candidate_locked, normalize_candidate_locked).                   *)
THEOREM CandidatesTheorem == Spec => []CandidatesAreTentative
<1>1. ASSUME IInv PROVE CandidatesAreTentative
  <2> SUFFICES ASSUME NEW c \in reg.candidates
               PROVE  LET o == c.observations
                      IN  /\ \A i \in 2 .. Len(o) :
                               o[i].stamp - o[i - 1].stamp \in 1 .. ConfirmationMaxGap
                          /\ Newest(c) - Oldest(c) <= ConfirmationWindow
                          /\ ~Confirmed(o)
                          /\ c.crop = NoCrop \/ \E i \in DOMAIN o : o[i].stamp = c.crop.stamp
    BY DEF CandidatesAreTentative
  <2>1. Tentative(c) /\ c \in CandidateType
    BY <1>1, WorkFields, WorkingIs DEF IInv, RegInv, Sound, Candidates
  <2>2. c.observations \in Seq(ObservationType)
    BY <2>1 DEF CandidateType
  <2>3. ASSUME NEW i \in 2 .. Len(c.observations)
        PROVE  c.observations[i].stamp - c.observations[i - 1].stamp \in 1 .. ConfirmationMaxGap
    <3>1. /\ i \in 1 .. Len(c.observations) /\ i - 1 \in 1 .. Len(c.observations) /\ i - 1 < i
          /\ DOMAIN c.observations = 1 .. Len(c.observations)
      BY <2>2
    <3>2. c.observations[i] \in ObservationType /\ c.observations[i - 1] \in ObservationType
      BY <2>2, <3>1
    <3>3. c.observations[i].stamp \in Int /\ c.observations[i - 1].stamp \in Int
      BY <3>2 DEF ObservationType
    <3>4. c.observations[i - 1].stamp < c.observations[i].stamp
      BY <2>1, <3>1 DEF Tentative, Ordered
    <3>5. c.observations[i].stamp - c.observations[i - 1].stamp <= ConfirmationMaxGap
      BY <2>1 DEF Tentative
    <3> DEFINE late == c.observations[i].stamp
               early == c.observations[i - 1].stamp
    <3>6. late \in Int /\ early \in Int /\ early < late /\ late - early <= ConfirmationMaxGap
      BY <3>3, <3>4, <3>5
    <3> HIDE DEF late, early
    <3>7. ConfirmationMaxGap \in Int
      BY ConfirmationAssumption
    <3>8. late - early \in 1 .. ConfirmationMaxGap
      BY <3>6, <3>7
    <3>9. QED
      BY <3>8 DEF late, early
  <2>4. QED
    BY <2>1, <2>3 DEF Tentative
<1>2. QED
  BY <1>1, Invariance, PTL

(* However centroids have moved, the neighbouring cells hold the nearest   *)
(* object in reach (find_nearest_locked).                                  *)
THEOREM IndexTheorem == Spec => []IndexFindsNearest
<1>1. ASSUME IInv PROVE IndexFindsNearest
  <2> SUFFICES ASSUME NEW label \in {r.label : r \in Objects(reg)}, NEW place \in Places
               PROVE  LET near == {i \in DOMAIN reg.records :
                                     /\ reg.records[i].label = label
                                     /\ Within(place, reg.records[i])}
                          found == FindNearest(reg, label, place)
                      IN  IF near = {} THEN found = 0
                          ELSE /\ found \in near
                               /\ \A i \in near :
                                     ~Nearer(place, reg.records[i], reg.records[found])
    BY DEF IndexFindsNearest
  <2>1. reg.records \in Seq(ObjectType) /\ Exact(reg) /\ place \in Int
    BY <1>1, RegRecords, InputAssumption DEF IInv
  <2>2. Indexed(reg, label, place) =
          {i \in DOMAIN reg.records : reg.records[i].label = label /\ Within(place, reg.records[i])}
    BY <2>1, IndexIsEnough
  <2>3. CASE Indexed(reg, label, place) = {}
    BY <2>2, <2>3 DEF FindNearest
  <2>4. CASE Indexed(reg, label, place) # {}
    <3>1. /\ FindNearest(reg, label, place) \in Indexed(reg, label, place)
          /\ \A j \in Indexed(reg, label, place) :
                ~Nearer(place, reg.records[j], reg.records[FindNearest(reg, label, place)])
      BY <2>1, <2>4, NearestFound
    <3>2. QED
      BY <2>2, <2>4, <3>1
  <2>5. QED
    BY <2>3, <2>4
<1>2. QED
  BY <1>1, Invariance, PTL

(* A clean registry is the one in the file, across loads, failed saves,    *)
(* clears and kills (dirty_).                                              *)
THEOREM CleanTheorem == Spec => []CleanMeansSaved
<1>1. IInv => CleanMeansSaved
  BY DEF IInv
<1>2. QED
  BY <1>1, Invariance, PTL

(* The picture of an object is its own, although ids are given anew at     *)
(* each start (store_object_image).                                        *)
THEOREM PicturesTheorem == Spec => []PictureIsItsOwn
<1>1. ASSUME IInv PROVE PictureIsItsOwn
  <2> SUFFICES ASSUME ~revived, NEW r \in Objects(reg), r.image \in DOMAIN pictures
               PROVE  pictures[r.image] = r.conf
    BY DEF PictureIsItsOwn
  <2>1. PICK i \in DOMAIN reg.records : r = reg.records[i]
    BY DEF Objects
  <2>2. pictures \in Files
    BY <1>1, PicturesTyped DEF IInv
  <2>3. r.image # NoPath
    BY <2>2, FilesAre, NotAPath
  <2>4. CASE up
    <3>1. Shows(reg.records[i], pictures)
      BY <1>1, <2>1, <2>4, WorkingIs DEF IInv, RegInv, Faithful
    <3>2. QED
      BY <2>1, <2>3, <3>1 DEF Shows
  <2>5. CASE ~up
    <3>1. reg.records = <<>>
      BY <1>1, <2>5 DEF IInv, RegInv, EmptyRegistry
    <3>2. QED
      BY <2>1, <3>1
  <2>6. QED
    BY <2>4, <2>5
<1>2. QED
  BY <1>1, Invariance, PTL
-----------------------------------------------------------------------------
(* The messages that wait.                                                 *)

NothingMatches == Unmatched(pendingClouds, pendingDetections)

(* All of s but its last was in q.                                         *)
Extends(s, q) ==
  \A k \in 1 .. Len(s) : k = Len(s) \/ \E l \in 1 .. Len(q) : s[k] = q[l]

(* A message that has come is the last of its queue, behind what was there.*)
LEMMA NewestIsLast ==
  ASSUME NEW q \in Seq(MessageType), NEW m \in MessageType,
         NEW s, s = Trim(Append(q, m))
  PROVE  s \in Seq(MessageType) /\ Extends(s, q)
<1> DEFINE a == Append(q, m)
<1>1. /\ a \in Seq(MessageType) /\ Len(q) \in Nat /\ Len(a) = Len(q) + 1
      /\ \A l \in 1 .. Len(q) : a[l] = q[l]
  OBVIOUS
<1>2. s = IF Len(a) > SyncQueueSize THEN Tail(a) ELSE a
  BY DEF Trim
<1> HIDE DEF a
<1>3. CASE Len(a) > SyncQueueSize
  <2>1. a # <<>> /\ s = Tail(a)
    BY <1>1, <1>2, <1>3
  <2>2. s \in Seq(MessageType) /\ Len(s) = Len(a) - 1 /\ \A k \in 1 .. Len(s) : s[k] = a[k + 1]
    BY <1>1, <2>1
  <2>3. Len(s) # 0
    BY <1>1, <1>3, <2>2, PairingAssumption
  <2>4. ASSUME NEW k \in 1 .. Len(s), k # Len(s)
        PROVE  k + 1 \in 1 .. Len(q) /\ s[k] = q[k + 1]
    BY <1>1, <2>2, <2>4
  <2>5. QED
    BY <1>1, <2>2, <2>3, <2>4 DEF Extends
<1>4. CASE ~(Len(a) > SyncQueueSize)
  BY <1>1, <1>2, <1>4 DEF Extends
<1>5. QED
  BY <1>3, <1>4

(* All of s was in q, at another place than i.                             *)
Without(s, q, i) ==
  \A k \in 1 .. Len(s) : \E l \in 1 .. Len(q) : l # i /\ s[k] = q[l]

LEMMA LeftBehind ==
  ASSUME NEW q \in Seq(MessageType), NEW i \in 1 .. Len(q), NEW s, s = RemoveAt(q, i)
  PROVE  Without(s, q, i)
<1> DEFINE u == SubSeq(q, 1, i - 1)
           v == SubSeq(q, i + 1, Len(q))
<1>1. Len(q) \in Nat /\ \A k \in 1 .. Len(q) : q[k] \in MessageType
  OBVIOUS
<1>2. u \in Seq(MessageType) /\ Len(u) = i - 1 /\ \A k \in 1 .. i - 1 : u[k] = q[k]
  <2>1. \A k \in 1 .. i - 1 : q[k] \in MessageType
    BY <1>1
  <2>2. i - 1 \in Int /\ i - 1 + 1 = i
    OBVIOUS
  <2>3. QED
    BY <2>1, <2>2, SubSeqProperties
<1>3. v \in Seq(MessageType) /\ Len(v) = Len(q) - i /\ \A k \in 1 .. Len(q) - i : v[k] = q[i + k]
  <2>1. \A k \in i + 1 .. Len(q) : q[k] \in MessageType
    BY <1>1
  <2>2. i + 1 \in Int /\ Len(q) \in Int
    BY <1>1
  <2>3. QED
    BY <1>1, <2>1, <2>2, SubSeqProperties
<1>4. s = u \o v
  BY DEF RemoveAt
<1> HIDE DEF u, v
<1>5. /\ Len(s) = Len(u) + Len(v)
      /\ \A k \in 1 .. Len(s) : s[k] = IF k <= Len(u) THEN u[k] ELSE v[k - Len(u)]
  <2>1. u \in Seq(MessageType) /\ v \in Seq(MessageType)
    BY <1>2, <1>3
  <2>2. /\ Len(u \o v) = Len(u) + Len(v)
        /\ \A k \in 1 .. Len(u) + Len(v) :
              (u \o v)[k] = IF k <= Len(u) THEN u[k] ELSE v[k - Len(u)]
    BY <2>1, ConcatProperties
  <2>3. QED
    BY <1>4, <2>2
<1>6. ASSUME NEW k \in 1 .. Len(s)
      PROVE  \E l \in 1 .. Len(q) : l # i /\ s[k] = q[l]
  <2>1. CASE k <= i - 1
    <3>1. s[k] = q[k] /\ k \in 1 .. Len(q) /\ k # i
      BY <1>1, <1>2, <1>5, <2>1
    <3>2. QED
      BY <3>1
  <2>2. CASE ~(k <= i - 1)
    <3>1. /\ k - (i - 1) \in 1 .. Len(q) - i
          /\ s[k] = v[k - (i - 1)]
      BY <1>1, <1>2, <1>3, <1>5, <2>2
    <3>2. s[k] = q[i + (k - (i - 1))] /\ i + (k - (i - 1)) = k + 1
      BY <1>3, <3>1
    <3>3. k + 1 \in 1 .. Len(q) /\ k + 1 # i /\ s[k] = q[k + 1]
      BY <1>1, <3>1, <3>2, <2>2
    <3>4. QED
      BY <3>3
  <2>3. QED
    BY <2>1, <2>2
<1>7. QED
  BY <1>6 DEF Without

(* What a callback takes leaves nothing that matches: only the message it  *)
(* has put into a queue can, and that is the one it takes.                 *)
LEMMA OnePairIsAll ==
  ASSUME NEW c \in Seq(MessageType), NEW d \in Seq(MessageType), NEW works,
         Observe(c, d, works),
         \/ \A k \in 1 .. Len(c) : k = Len(c) \/
               \A j \in 1 .. Len(d) : Apart(c[k], d[j]) > SyncTolerance
         \/ \A k \in 1 .. Len(d) : k = Len(d) \/
               \A j \in 1 .. Len(c) : Apart(c[j], d[k]) > SyncTolerance
  PROVE  NothingMatches'
<1> DEFINE pair == BestPair(c, d)
<1>1. IF pair = <<>>
      THEN pendingClouds' = c /\ pendingDetections' = d
      ELSE /\ pendingClouds' = RemoveAt(c, pair[1])
           /\ pendingDetections' = RemoveAt(d, pair[2])
  BY DEF Observe
<1>2. \/ pair = <<>> /\ Unmatched(c, d)
      \/ /\ pair # <<>> /\ pair[1] \in 1 .. Len(c) /\ pair[2] \in 1 .. Len(d)
         /\ Apart(c[pair[1]], d[pair[2]]) <= SyncTolerance
  BY PairFound
<1>3. Len(c) \in Nat /\ Len(d) \in Nat
  OBVIOUS
<1>4. \A i \in 1 .. Len(c), j \in 1 .. Len(d) : Apart(c[i], d[j]) \in Int
  <2>1. \A m, n \in MessageType : Apart(m, n) \in Int
    BY DEF Apart, MessageType
  <2>2. \A i \in 1 .. Len(c) : c[i] \in MessageType
    OBVIOUS
  <2>3. \A i \in 1 .. Len(d) : d[i] \in MessageType
    OBVIOUS
  <2>4. QED
    BY <2>1, <2>2, <2>3
<1> HIDE DEF pair
<1>5. CASE pair = <<>>
  BY <1>1, <1>2, <1>5 DEF NothingMatches, Unmatched
<1>6. CASE pair # <<>>
  <2> DEFINE i == pair[1]
             j == pair[2]
  <2>1. /\ i \in 1 .. Len(c) /\ j \in 1 .. Len(d)
        /\ Apart(c[i], d[j]) <= SyncTolerance
    BY <1>2, <1>6
  <2>2. pendingClouds' = RemoveAt(c, i) /\ pendingDetections' = RemoveAt(d, j)
    BY <1>1, <1>6
  <2> HIDE DEF i, j
  <2>3. Without(pendingClouds', c, i)
    BY <2>1, <2>2, LeftBehind
  <2>4. Without(pendingDetections', d, j)
    BY <2>1, <2>2, LeftBehind
  <2>5. ~(Apart(c[i], d[j]) > SyncTolerance)
    BY <1>4, <2>1, PairingAssumption
  <2>6. \A k \in 1 .. Len(c), l \in 1 .. Len(d) :
          k # i /\ l # j => Apart(c[k], d[l]) > SyncTolerance
    BY <2>1, <2>5
  <2>7. NothingMatches' = \A k \in 1 .. Len(pendingClouds'), l \in 1 .. Len(pendingDetections') :
                            Apart(pendingClouds'[k], pendingDetections'[l]) > SyncTolerance
    BY DEF NothingMatches, Unmatched
  <2>8. QED
    BY <2>3, <2>4, <2>6, <2>7 DEF Without
<1>7. QED
  BY <1>5, <1>6

(* No cloud waits beside detections it would be paired with: after one     *)
(* pair match_pending_messages, which is called for every message and      *)
(* loops as long as it finds a pair, finds no other.                       *)
THEOREM MatchesDoNotWait == Spec => []NothingMatches
<1>1. Init => NothingMatches
  BY DEF Init, NothingMatches, Unmatched
<1>2. IInv /\ NothingMatches /\ [Next]_vars => NothingMatches'
  <2> SUFFICES ASSUME IInv, NothingMatches, [Next]_vars
               PROVE  NothingMatches'
    OBVIOUS
  <2>1. /\ clouds \in Seq(MessageType) /\ detections \in Seq(MessageType)
        /\ pendingClouds \in Seq(MessageType) /\ pendingDetections \in Seq(MessageType)
    BY DEF IInv, QueueInv
  <2>2. CASE PointcloudCallback
    <3> DEFINE m == Head(clouds)
               c == Trim(Append(pendingClouds, m))
    <3>1. PICK works \in BOOLEAN : Observe(c, pendingDetections, works)
      BY <2>2 DEF PointcloudCallback
    <3>2. m \in MessageType
      BY <2>1, <2>2 DEF PointcloudCallback
    <3> HIDE DEF m
    <3>3. c = Trim(Append(pendingClouds, m))
      OBVIOUS
    <3> HIDE DEF c
    <3>4. c \in Seq(MessageType) /\ Extends(c, pendingClouds)
      BY <2>1, <3>2, <3>3, NewestIsLast
    <3>5. \A k \in 1 .. Len(c) : k = Len(c) \/
             \A j \in 1 .. Len(pendingDetections) :
               Apart(c[k], pendingDetections[j]) > SyncTolerance
      BY <3>4 DEF NothingMatches, Unmatched, Extends
    <3>6. QED
      BY <2>1, <3>1, <3>4, <3>5, OnePairIsAll
  <2>3. CASE DetectionsCallback
    <3> DEFINE m == Head(detections)
               d == Trim(Append(pendingDetections, m))
    <3>1. PICK works \in BOOLEAN : Observe(pendingClouds, d, works)
      BY <2>3 DEF DetectionsCallback
    <3>2. m \in MessageType
      BY <2>1, <2>3 DEF DetectionsCallback
    <3> HIDE DEF m
    <3>3. d = Trim(Append(pendingDetections, m))
      OBVIOUS
    <3> HIDE DEF d
    <3>4. d \in Seq(MessageType) /\ Extends(d, pendingDetections)
      BY <2>1, <3>2, <3>3, NewestIsLast
    <3>5. \A k \in 1 .. Len(d) : k = Len(d) \/
             \A j \in 1 .. Len(pendingClouds) :
               Apart(pendingClouds[j], d[k]) > SyncTolerance
      BY <3>4 DEF NothingMatches, Unmatched, Extends
    <3>6. QED
      BY <2>1, <3>1, <3>4, <3>5, OnePairIsAll
  <2>4. CASE \/ Frame \/ TransformsArrive \/ RetryPendingTransforms \/ SnapshotTimer
             \/ SaveCallback \/ StartLoading \/ UNCHANGED vars
    <3>1. UNCHANGED <<pendingClouds, pendingDetections>>
      BY <2>4 DEF Frame, TransformsArrive, RetryPendingTransforms, SnapshotTimer,
                  SaveCallback, StartLoading, vars, queues
    <3>2. QED
      BY <3>1 DEF NothingMatches
  <2>5. CASE ClearCallback \/ StartFresh \/ StartFreshFails \/ Shutdown \/ Kill
    <3>1. pendingClouds' = <<>>
      BY <2>5 DEF ClearCallback, StartFresh, StartFreshFails, Shutdown, Kill, Clear, Down
    <3>2. QED
      BY <3>1 DEF NothingMatches, Unmatched
  <2>6. QED
    BY <2>2, <2>3, <2>4, <2>5 DEF Next
<1>3. QED
  BY <1>1, <1>2, Invariance, PTL DEF Spec

-----------------------------------------------------------------------------
(* The lists that the command layer makes of what the registry answers     *)
(* (RegistryShortlist), for any number of tokens and any answers.          *)
EmptyList == [objects |-> {}, frame |-> Map]

TokenList(tokens) == FoldLeft(Merged, EmptyList, tokens)

ListRun(f, n, tokens) ==
  /\ f[0] = EmptyList
  /\ \A i \in 1 .. n : f[i] = Merged(f[i - 1], tokens[i])
  /\ f[n] = TokenList(tokens)

LEMMA ListSteps ==
  ASSUME NEW tokens, NEW n \in Nat, DOMAIN tokens = 1 .. n
  PROVE  \E f : ListRun(f, n, tokens)
<1> DEFINE Op(h, e) == Merged(h, e)
           Body(f, u) == IF u = {} THEN EmptyList ELSE Op(f[u \ {Max(u)}], tokens[Max(u)])
           Steps(f, m) == f = [u \in SUBSET (1 .. m) |-> Body(f, u)]
           T == {m \in Nat : \E f : Steps(f, m)}
           iter == CHOOSE f : Steps(f, n)
<1>1. TokenList(tokens) = iter[1 .. n]
  BY DEF TokenList, FoldLeft, MapThenFoldSet
<1> HIDE DEF Op
<1>2. \A m \in Nat : \A u \in SUBSET (1 .. m) :
        u # {} => Max(u) \in u /\ \A d \in u : d <= Max(u)
  <2> SUFFICES ASSUME NEW m \in Nat, NEW u \in SUBSET (1 .. m), u # {}
               PROVE  Max(u) \in u /\ \A d \in u : d <= Max(u)
    OBVIOUS
  <2>1. IsFiniteSet(u) /\ u \in SUBSET Int
    <3>1. IsFiniteSet(1 .. m) /\ 1 .. m \subseteq Int
      BY FS_Interval
    <3>2. QED
      BY <3>1, FS_Subset
  <2>2. QED
    BY <2>1, MaxMember
<1>3. 0 \in T
  <2> DEFINE f == [u \in SUBSET (1 .. 0) |-> EmptyList]
  <2>1. \A u \in SUBSET (1 .. 0) : u = {}
    OBVIOUS
  <2>2. Steps(f, 0)
    BY <2>1
  <2> HIDE DEF Steps, f
  <2>3. QED
    BY <2>2
<1>4. ASSUME NEW m \in T PROVE m + 1 \in T
  <2>1. PICK f : Steps(f, m)
    OBVIOUS
  <2> DEFINE g == [u \in SUBSET (1 .. m + 1) |-> IF u \subseteq 1 .. m THEN f[u] ELSE Body(f, u)]
  <2>2. ASSUME NEW u \in SUBSET (1 .. m + 1) PROVE g[u] = Body(g, u)
    <3>1. CASE u = {}
      <4>1. u \in SUBSET (1 .. m) /\ f[u] = Body(f, u)
        BY <2>1, <3>1
      <4>2. QED
        BY <3>1, <4>1
    <3>2. CASE u # {}
      <4> DEFINE x == Max(u)
                 v == u \ {x}
      <4>1. x \in u /\ (\A d \in u : d <= x) /\ x \in 1 .. m + 1
        <5>1. m + 1 \in Nat
          OBVIOUS
        <5>2. QED
          BY <1>2, <3>2, <5>1
      <4>2. v \in SUBSET (1 .. m) /\ v \in SUBSET (1 .. m + 1)
        <5> HIDE DEF x
        <5>1. QED
          BY <4>1
      <4>3. g[v] = f[v]
        BY <4>2
      <4>4. g[u] = Body(f, u)
        BY <2>1
      <4>5. Body(f, u) = Op(f[v], tokens[x]) /\ Body(g, u) = Op(g[v], tokens[x])
        BY <3>2
      <4>6. QED
        BY <4>3, <4>4, <4>5
    <3>3. QED
      BY <3>1, <3>2
  <2>3. Steps(g, m + 1)
    <3>1. g = [u \in SUBSET (1 .. m + 1) |-> g[u]]
      OBVIOUS
    <3> HIDE DEF g, Body
    <3>2. QED
      BY <2>2, <3>1
  <2> HIDE DEF Steps, g
  <2>4. QED
    BY <2>3
<1>5. n \in T
  <2>1. T \in SUBSET Nat
    OBVIOUS
  <2> HIDE DEF T
  <2>2. QED
    BY <1>3, <1>4, <2>1, NatInd
<1>6. Steps(iter, n)
  <2> HIDE DEF Steps
  <2>1. QED
    BY <1>5
<1> DEFINE f == [i \in 0 .. n |-> iter[1 .. i]]
<1> HIDE DEF iter
<1>7. f[0] = EmptyList
  <2>1. 1 .. 0 = {} /\ 1 .. 0 \in SUBSET (1 .. n)
    OBVIOUS
  <2>2. QED
    BY <1>6, <2>1
<1>8. ASSUME NEW i \in 1 .. n PROVE f[i] = Op(f[i - 1], tokens[i])
  <2> DEFINE u == 1 .. i
  <2>1. u \in SUBSET (1 .. n) /\ u # {} /\ i \in u /\ \A d \in u : d <= i
    <3>1. \A d \in 1 .. i : d \in 1 .. n /\ d <= i
      OBVIOUS
    <3>2. i \in 1 .. i
      OBVIOUS
    <3>3. QED
      BY <3>1, <3>2
  <2>2. Max(u) = i
    <3>1. Max(u) \in u /\ i <= Max(u)
      BY <1>2, <2>1
    <3>2. QED
      BY <3>1
  <2>3. u \ {i} = 1 .. i - 1
    OBVIOUS
  <2> HIDE DEF u
  <2>4. iter[u] = Op(iter[1 .. i - 1], tokens[i])
    BY <1>6, <2>1, <2>2, <2>3
  <2>5. QED
    BY <2>4 DEF u
<1>9. f[n] = TokenList(tokens)
  BY <1>1
<1> HIDE DEF f
<1>10. QED
  BY <1>7, <1>8, <1>9 DEF Op, ListRun

(* What ListIsConsistent says, of a list made of the first i answers.      *)
ListsFirst(list, i, tokens) ==
  list.frame # Refused =>
    /\ \A k \in 1 .. i : tokens[k].objects # {} =>
                           Received(tokens[k]).frame \in {Map, list.frame}
    /\ \A o, n \in list.objects : o.name = n.name => o = n
    /\ NoName \notin {o.name : o \in list.objects}
    /\ \A k \in 1 .. i : \A o \in tokens[k].objects :
          o.name # NoName => \E n \in list.objects : n.name = o.name

(* An answer of the registry names its objects apart.                      *)
NamesApart(response) ==
  \A o, n \in response.objects : (o.name = n.name /\ o.name # NoName) => o = n

LEMMA MergedLists ==
  ASSUME NEW tokens, NEW i \in Nat, NEW list, ListsFirst(list, i, tokens),
         NamesApart(tokens[i + 1])
  PROVE  ListsFirst(Merged(list, tokens[i + 1]), i + 1, tokens)
<1> DEFINE response == tokens[i + 1]
           new == Received(response)
           frame == IF list.frame = Map THEN new.frame ELSE list.frame
           named == {o \in new.objects : o.name # NoName}
           kept == {o \in list.objects : \A n \in named : n.name # o.name}
           longer == Merged(list, response)
<1>1. 1 .. i + 1 = (1 .. i) \cup {i + 1}
  OBVIOUS
<1>2. new.objects = response.objects
  BY DEF Received
<1>3. CASE list.frame = Refused
  <2>1. longer = list
    BY <1>3 DEF Merged
  <2>2. QED
    BY <1>3, <2>1 DEF ListsFirst
<1>4. CASE list.frame # Refused /\ new.objects = {}
  <2>1. longer = list
    BY <1>4 DEF Merged
  <2>2. \A k \in 1 .. i + 1 : k \in 1 .. i \/ tokens[k].objects = {}
    BY <1>1, <1>2, <1>4
  <2>3. QED
    BY <2>1, <2>2 DEF ListsFirst
<1>5. CASE list.frame # Refused /\ new.objects # {} /\ new.frame # frame
  <2>1. longer = [objects |-> {}, frame |-> Refused]
    BY <1>5 DEF Merged
  <2>2. QED
    BY <2>1 DEF ListsFirst
<1>6. CASE list.frame # Refused /\ new.objects # {} /\ new.frame = frame
  <2>1. longer = [objects |-> kept \cup named, frame |-> frame]
    BY <1>6 DEF Merged
  <2>2. longer.objects = kept \cup named /\ longer.frame = frame
    BY <2>1
  <2>3. list.frame \in {Map, frame} /\ new.frame = frame
    BY <1>6
  <2>4. named = {o \in response.objects : o.name # NoName}
    BY <1>2
  <2> HIDE DEF longer, frame, new, named
  <2>5. \A k \in 1 .. i + 1 : tokens[k].objects # {} =>
          Received(tokens[k]).frame \in {Map, frame}
    BY <1>1, <1>6, <2>3 DEF ListsFirst, new
  <2>6. \A o, n \in kept \cup named : o.name = n.name => o = n
    BY <1>6, <2>4 DEF ListsFirst, NamesApart
  <2>7. \A o \in kept \cup named : o.name # NoName
    BY <1>6, <2>4 DEF ListsFirst
  <2>8. ASSUME NEW k \in 1 .. i + 1, NEW o \in tokens[k].objects, o.name # NoName
        PROVE  \E n \in kept \cup named : n.name = o.name
    <3>1. CASE k = i + 1
      BY <2>4, <2>8, <3>1
    <3>2. CASE k \in 1 .. i
      <4>1. PICK n \in list.objects : n.name = o.name
        BY <1>6, <2>8, <3>2 DEF ListsFirst
      <4>2. n \in kept \/ \E m \in named : m.name = n.name
        OBVIOUS
      <4>3. QED
        BY <4>1, <4>2
    <3>3. QED
      BY <1>1, <3>1, <3>2
  <2>9. QED
    BY <2>2, <2>5, <2>6, <2>7, <2>8 DEF ListsFirst, longer
<1>7. QED
  BY <1>3, <1>4, <1>5, <1>6

(* A list of the tokens of a request has one frame besides "map", one      *)
(* object of each name, and every object that was named in an answer, or   *)
(* it is refused: for any number of tokens and whatever the registry       *)
(* answers them, names of one answer being apart                           *)
(* (_name_and_label_shortlist).                                            *)
THEOREM ShortlistsAreConsistent ==
  ASSUME NEW Response, NEW tokens \in Seq(Response),
         \A r \in ToSet(tokens) : NamesApart(r)
  PROVE  ListIsConsistent(tokens)
<1> DEFINE n == Len(tokens)
           list == TokenList(tokens)
<1>1. n \in Nat /\ DOMAIN tokens = 1 .. n
  OBVIOUS
<1>2. ToSet(tokens) = {tokens[k] : k \in 1 .. n}
  BY <1>1 DEF ToSet
<1> HIDE DEF n
<1>3. PICK f : ListRun(f, n, tokens)
  BY <1>1, ListSteps
<1> DEFINE T == {i \in Nat : ListsFirst(f[i], i, tokens)}
<1>4. 0 \in T
  <2>1. f[0].objects = {}
    BY <1>3 DEF ListRun, EmptyList
  <2>2. QED
    BY <2>1 DEF ListsFirst
<1>5. ASSUME NEW i \in 0 .. (n - 1), i \in T PROVE i + 1 \in T
  <2>1. i + 1 \in 1 .. n /\ i + 1 - 1 = i
    BY <1>1
  <2>2. f[i + 1] = Merged(f[i], tokens[i + 1])
    BY <1>3, <2>1 DEF ListRun
  <2>3. NamesApart(tokens[i + 1])
    BY <1>2, <2>1
  <2>4. QED
    BY <1>5, <2>2, <2>3, MergedLists
<1>6. ListsFirst(list, n, tokens)
  <2> HIDE DEF T
  <2>1. \A i \in 0 .. n : i \in T
    BY <1>1, <1>4, <1>5, IntervalInd
  <2>2. n \in T
    BY <1>1, <2>1
  <2>3. QED
    BY <1>3, <2>2 DEF ListRun, T
<1>7. list = FoldLeft(Merged, [objects |-> {}, frame |-> Map], tokens)
  BY DEF TokenList, EmptyList
<1> HIDE DEF list
<1>8. ASSUME list.frame # Refused PROVE FramesOf(tokens) \subseteq {Map, list.frame}
  BY <1>2, <1>6, <1>8 DEF ListsFirst, FramesOf
<1>9. ASSUME list.frame # Refused
      PROVE  /\ \A o, m \in list.objects : o.name = m.name => o = m
             /\ NoName \notin {o.name : o \in list.objects}
             /\ \A r \in ToSet(tokens) : \A o \in r.objects :
                  o.name # NoName => \E m \in list.objects : m.name = o.name
  BY <1>2, <1>6, <1>9 DEF ListsFirst
<1>10. ListIsConsistent(tokens) =
         (list.frame # Refused =>
            /\ FramesOf(tokens) \subseteq {Map, list.frame}
            /\ \A o, m \in list.objects : o.name = m.name => o = m
            /\ NoName \notin {o.name : o \in list.objects}
            /\ \A r \in ToSet(tokens) : \A o \in r.objects :
                 o.name # NoName => \E m \in list.objects : m.name = o.name)
  BY <1>7, Zenon DEF ListIsConsistent
<1>11. QED
  BY <1>8, <1>9, <1>10

(* A revision determines its candidates, though it leaves out what is      *)
(* volatile, and whatever is asked and answered: the command layer may     *)
(* compare revisions only (_snapshot_revision, query).                     *)
THEOREM RevisionsAreDigests ==
  ASSUME NEW here, NEW there, NEW responses, NEW others
  PROVE  RevisionDetermines(Query(here, responses), Query(there, others))
<1>1. ASSUME NEW available, NEW asked, Query(available, asked).checked
      PROVE  Query(available, asked).candidates =
               {row.name : row \in Query(available, asked).revision} \ {NoName}
  <2> DEFINE list == Shortlist(asked)
  <2>1. available /\ list.frame # Refused
    BY <1>1 DEF Query
  <2>2. Query(available, asked) =
          [revision |-> Revision(list), checked |-> TRUE,
           candidates |-> {o.name : o \in list.objects} \ {NoName}]
    BY <2>1 DEF Query
  <2> HIDE DEF list
  <2>3. {row.name : row \in Revision(list)} = {o.name : o \in list.objects}
    <3> DEFINE Row(o) == [name |-> o.name, kind |-> o.kind, place |-> Centimetres(o.place),
                          frame |-> list.frame]
    <3>1. \A o : Row(o).name = o.name
      OBVIOUS
    <3>2. Revision(list) = {Row(o) : o \in list.objects}
      BY DEF Revision
    <3> HIDE DEF Row
    <3>3. QED
      BY <3>1, <3>2
  <2>4. QED
    BY <2>2, <2>3
<1>2. QED
  BY <1>1 DEF RevisionDetermines
==============================================================================
