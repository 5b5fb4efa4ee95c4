---------------------------- MODULE LibraryProofs ----------------------------
(***************************************************************************)
(* What holds of every stencil library: families of any shape, registers   *)
(* and holes of any number, words and places of any width, object files in *)
(* any order.  The macro yields every placement once, extraction gives     *)
(* each stencil its code and its relocations and each call its function,   *)
(* and what an emission then finds in the tables computes what the         *)
(* emission is for.  The invariant is Inv: LibraryInv (the families),      *)
(* ExpandInv (the placements yielded so far) and ExtractInv (the tables,   *)
(* the pools and the code of what was extracted so far).                   *)
(***************************************************************************)
EXTENDS StencilLibrary, FiniteSetTheorems, SequenceTheorems, TLAPS

Nothing(ctx, v, e) == v

Trivial(ctx, seq, n, v) == TRUE

(* For the least element of a set of natural numbers.                      *)
First == INSTANCE FoldTheorems WITH Op <- Nothing, Inv <- Trivial

(* The families of the library that is built.                              *)
LibraryInv ==
    /\ lib \in Libraries
    /\ running \subseteq DOMAIN lib.families
    /\ phase \in {"expand", "extract", "library", "failed"}
    /\ phase = "expand" <=> running # {}

(* What LibraryAssumption says of a family.                                *)
LEMMA Families ==
    ASSUME lib \in Libraries, NEW n \in DOMAIN lib.families
    PROVE  /\ FamilyOK(Family(n))
           /\ Family(n).ins \in Nat /\ Family(n).outs \in Nat /\ Family(n).holes \in Nat
           /\ Family(n).regs \in Nat /\ Family(n).regs > 0
           /\ PlacedOuts(Family(n)) \in Nat /\ Values(Family(n)) \in Nat
           /\ Family(n).ins <= Values(Family(n))
<1>1. FamilyOK(Family(n))
  BY LibraryAssumption DEF Family
<1> QED BY <1>1 DEF FamilyOK, PlacedOuts, Values

-----------------------------------------------------------------------------

(* The order in which placements are yielded: c before d.                  *)
FirstDiffers(c, d, k) ==
    /\ k \in DOMAIN c
    /\ c[k] < d[k]
    /\ \A j \in 1..(k - 1) : c[j] = d[j]

Before(c, d) == \E k \in DOMAIN c : FirstDiffers(c, d, k)

(* The placements of a family as the lemmas use them.                      *)
LEMMA PlacementIs ==
    ASSUME NEW fam, FamilyOK(fam), NEW c \in Placements(fam)
    PROVE  /\ Values(fam) \in Nat /\ DOMAIN c = 1..Values(fam) /\ Len(c) = Values(fam)
           /\ \A i \in 1..Values(fam) : c[i] \in Nat /\ c[i] < fam.regs
           /\ \A i, j \in (fam.ins + 1)..Values(fam) : c[i] = c[j] => i = j \/ c[i] = 0
<1>1. Values(fam) \in Nat /\ fam.regs \in Nat
  BY DEF FamilyOK, Values, PlacedOuts
<1>2. /\ c \in [1..Values(fam) -> 0..(fam.regs - 1)]
      /\ \A i, j \in (fam.ins + 1)..Values(fam) : c[i] = c[j] => i = j \/ c[i] = 0
  BY DEF Placements
<1>3. c \in Seq(0..(fam.regs - 1)) /\ Len(c) = Values(fam)
  BY <1>1, <1>2
<1> QED BY <1>1, <1>2, <1>3

(* A tuple in which no two outputs share a register is a placement.        *)
LEMMA PlacementMade ==
    ASSUME NEW fam, FamilyOK(fam), NEW c \in [1..Values(fam) -> 0..(fam.regs - 1)],
           \A i, j \in (fam.ins + 1)..Values(fam) : c[i] = c[j] => i = j \/ c[i] = 0
    PROVE  c \in Placements(fam)
<1> QED BY DEF Placements

(* Two placements are equal or have a first place where they differ; and   *)
(* what the later one has there, the earlier one could be raised to.       *)
LEMMA Compared ==
    ASSUME NEW fam, FamilyOK(fam), NEW c \in Placements(fam), NEW d \in Placements(fam)
    PROVE  \/ c = d
           \/ \E k \in 1..Values(fam) : FirstDiffers(c, d, k) /\ d[k] \in Steps(fam, c, k)
           \/ \E k \in 1..Values(fam) : FirstDiffers(d, c, k)
<1> SUFFICES ASSUME c # d
             PROVE  \/ \E k \in 1..Values(fam) : FirstDiffers(c, d, k) /\ d[k] \in Steps(fam, c, k)
                    \/ \E k \in 1..Values(fam) : FirstDiffers(d, c, k)
  OBVIOUS
<1> DEFINE N == Values(fam)
           Differ == {k \in 1..N : c[k] # d[k]}
<1>1. /\ N \in Nat /\ DOMAIN c = 1..N /\ DOMAIN d = 1..N
      /\ \A i \in 1..N : c[i] \in Nat /\ d[i] \in Nat /\ d[i] < fam.regs
      /\ \A i, j \in (fam.ins + 1)..N : d[i] = d[j] => i = j \/ d[i] = 0
      /\ fam.ins \in Nat /\ fam.regs \in Nat
  BY PlacementIs DEF FamilyOK
<1>2. Differ # {}
  <2>1. c = [k \in 1..N |-> c[k]] /\ d = [k \in 1..N |-> d[k]]
    BY <1>1 DEF Placements
  <2> HIDE DEF N
  <2> QED BY <2>1
<1>3. PICK k \in Differ : \A m \in Differ : k <= m
  <2>1. Differ \in SUBSET Nat
    BY <1>1
  <2> HIDE DEF Differ
  <2> QED BY <1>2, <2>1, First!Least
<1> HIDE DEF N
<1>4. k \in 1..N /\ c[k] # d[k] /\ \A j \in 1..(k - 1) : j \in 1..N /\ c[j] = d[j]
  BY <1>1, <1>3
<1>5. CASE c[k] < d[k]
  <2>1. FirstDiffers(c, d, k)
    BY <1>1, <1>4, <1>5 DEF FirstDiffers
  <2>2. d[k] \in (c[k] + 1)..(fam.regs - 1) /\ d[k] # 0
    BY <1>1, <1>4, <1>5
  <2>3. ASSUME NEW j \in (fam.ins + 1)..(k - 1), k > fam.ins
        PROVE  c[j] # d[k]
    <3>1. j \in 1..(k - 1) /\ j \in (fam.ins + 1)..N /\ k \in (fam.ins + 1)..N /\ j # k
      BY <1>1, <1>4, <2>3
    <3> QED BY <1>1, <1>4, <2>2, <3>1
  <2>4. d[k] \in Steps(fam, c, k)
    BY <1>1, <1>4, <2>2, <2>3 DEF Steps
  <2> QED BY <1>4, <2>1, <2>4 DEF N
<1>6. CASE d[k] < c[k]
  BY <1>1, <1>4, <1>6 DEF FirstDiffers, N
<1> QED BY <1>1, <1>4, <1>5, <1>6

(* No placement is before itself.                                          *)
LEMMA BeforeIrreflexive ==
    ASSUME NEW fam, FamilyOK(fam), NEW c \in Placements(fam)
    PROVE  ~ Before(c, c)
<1> QED BY PlacementIs DEF Before, FirstDiffers

(* RegPermutation::next takes the least register it may go on with.        *)
LEMMA LeastStep ==
    ASSUME NEW fam, FamilyOK(fam), NEW c \in Placements(fam), NEW i \in DOMAIN c,
           Steps(fam, c, i) # {}
    PROVE  /\ Min(Steps(fam, c, i)) \in Steps(fam, c, i)
           /\ \A v \in Steps(fam, c, i) : Min(Steps(fam, c, i)) <= v
<1> DEFINE S == Steps(fam, c, i)
<1>1. S \in SUBSET Nat
  <2>1. c[i] \in Nat /\ fam.regs \in Nat
    <3>1. i \in 1..Values(fam) /\ \A j \in 1..Values(fam) : c[j] \in Nat
      BY PlacementIs, Zenon
    <3>2. fam.regs \in Nat
      BY ONLY FamilyOK(fam) DEF FamilyOK
    <3> QED BY <3>1, <3>2, Zenon
  <2>2. S \subseteq (c[i] + 1)..(fam.regs - 1)
    BY Zenon DEF Steps
  <2> HIDE DEF S
  <2> QED BY <2>1, <2>2
<1>2. \E n \in S : \A m \in S : n <= m
  <2> HIDE DEF S
  <2>1. S # {}
    BY DEF S
  <2> QED BY <1>1, <2>1, First!Least
<1> QED BY <1>2 DEF Min

(* What a placement is raised to is a placement, and the next one.         *)
LEMMA RaisedIsNext ==
    ASSUME NEW fam, FamilyOK(fam), NEW c \in Placements(fam), NEW i \in DOMAIN c,
           LastRaise(fam, c, i)
    PROVE  /\ Raised(fam, c, i) \in Placements(fam)
           /\ \A d \in Placements(fam) :
                 Before(d, Raised(fam, c, i)) <=> Before(d, c) \/ d = c
<1> DEFINE N == Values(fam)
           r == Raised(fam, c, i)
           v == Min(Steps(fam, c, i))
<1>1. /\ N \in Nat /\ DOMAIN c = 1..N /\ Len(c) = N
      /\ \A j \in 1..N : c[j] \in Nat /\ c[j] < fam.regs
      /\ \A j, k \in (fam.ins + 1)..N : c[j] = c[k] => j = k \/ c[j] = 0
      /\ fam.ins \in Nat /\ fam.regs \in Nat
  BY PlacementIs DEF FamilyOK
<1>2. /\ v \in Steps(fam, c, i) /\ \A w \in Steps(fam, c, i) : v <= w
      /\ \A j \in (i + 1)..N : Steps(fam, c, j) = {}
  BY <1>1, LeastStep DEF LastRaise
<1>3. /\ i \in 1..N /\ v \in Nat /\ v > c[i] /\ v < fam.regs
      /\ i > fam.ins => \A j \in (fam.ins + 1)..(i - 1) : c[j] # v
  <2> HIDE DEF v
  <2>1. /\ v \in (c[i] + 1)..(fam.regs - 1)
        /\ i <= fam.ins \/ \A j \in (fam.ins + 1)..(i - 1) : c[j] # v
    BY <1>2 DEF Steps
  <2> QED BY <1>1, <2>1
<1>4. /\ DOMAIN r = 1..N
      /\ \A j \in 1..N : r[j] = IF j < i THEN c[j] ELSE IF j = i THEN v ELSE 0
      /\ r = [j \in 1..N |-> r[j]]
  BY <1>1 DEF Raised
<1> HIDE DEF r, v
<1>5. r \in Placements(fam)
  <2>1. \A j \in 1..N : r[j] \in 0..(fam.regs - 1)
    BY <1>1, <1>3, <1>4
  <2>2. r \in [1..N -> 0..(fam.regs - 1)]
    BY <1>4, <2>1
  <2>3. ASSUME NEW j \in (fam.ins + 1)..N, NEW k \in (fam.ins + 1)..N, r[j] = r[k], j < k
        PROVE  r[j] = 0
    <3>1. j \in 1..N /\ k \in 1..N
      BY <1>1
    <3>2. CASE k < i
      <4>1. r[j] = c[j] /\ r[k] = c[k] /\ j # k
        BY <1>3, <1>4, <2>3, <3>1, <3>2
      <4> QED BY <1>1, <2>3, <4>1
    <3>3. CASE k = i
      <4>1. r[j] = c[j] /\ r[k] = v /\ j \in (fam.ins + 1)..(i - 1) /\ i > fam.ins
        BY <1>1, <1>3, <1>4, <2>3, <3>1, <3>3
      <4> QED BY <1>3, <2>3, <4>1
    <3>4. CASE k > i
      BY <1>3, <1>4, <2>3, <3>1, <3>4
    <3> QED BY <1>3, <3>1, <3>2, <3>3, <3>4
  <2>4. \A j, k \in (fam.ins + 1)..N : r[j] = r[k] => j = k \/ r[j] = 0
    <3>1. \A j, k \in (fam.ins + 1)..N : j = k \/ j < k \/ k < j
      BY <1>1
    <3> QED BY <2>3, <3>1
  <2> QED BY <2>2, <2>4, PlacementMade DEF N
<1>6. ASSUME NEW d \in Placements(fam), Before(d, c) \/ d = c
      PROVE  Before(d, r)
  <2>1. DOMAIN d = 1..N
    BY PlacementIs
  <2> HIDE DEF N
  <2>2. CASE d = c
    <3>1. FirstDiffers(d, r, i)
      BY <1>1, <1>3, <1>4, <2>1, <2>2 DEF FirstDiffers
    <3> QED BY <1>3, <2>1, <3>1 DEF Before
  <2>3. CASE Before(d, c)
    <3>1. PICK k \in 1..N : FirstDiffers(d, c, k)
      BY <2>1, <2>3 DEF Before
    <3>2. d[k] < c[k] /\ \A j \in 1..(k - 1) : d[j] = c[j]
      BY <3>1 DEF FirstDiffers
    <3>3. \A j \in 1..N : d[j] \in Nat
      BY PlacementIs DEF N
    <3>4. CASE k <= i
      <4>1. FirstDiffers(d, r, k)
        BY <1>1, <1>3, <1>4, <2>1, <3>2, <3>3, <3>4 DEF FirstDiffers
      <4> QED BY <2>1, <4>1 DEF Before
    <3>5. CASE k > i
      <4>1. \A j \in 1..(i - 1) : j \in 1..N /\ j < i /\ d[j] = c[j]
        BY <1>1, <1>3, <3>2, <3>5
      <4>2. d[i] = c[i] /\ r[i] = v /\ c[i] \in Nat
        BY <1>1, <1>3, <1>4, <3>2, <3>5
      <4>3. FirstDiffers(d, r, i)
        BY <1>3, <1>4, <2>1, <4>1, <4>2 DEF FirstDiffers
      <4> QED BY <1>3, <2>1, <4>3 DEF Before
    <3> QED BY <1>3, <3>4, <3>5
  <2> QED BY <1>6, <2>2, <2>3
<1>7. ASSUME NEW d \in Placements(fam), Before(d, r)
      PROVE  Before(d, c) \/ d = c
  <2>1. DOMAIN d = 1..N /\ \A j \in 1..N : d[j] \in Nat
    BY PlacementIs
  <2>2. PICK k \in 1..N : FirstDiffers(d, r, k)
    BY <1>7, <2>1 DEF Before
  <2>3. d[k] < r[k] /\ \A j \in 1..(k - 1) : d[j] = r[j]
    BY <2>2 DEF FirstDiffers
  <2>4. k <= i
    BY <1>1, <1>3, <1>4, <2>1, <2>3
  <2>5. ASSUME NEW m \in 1..N, FirstDiffers(c, d, m), d[m] \in Steps(fam, c, m)
        PROVE  FALSE
    <3>1. c[m] < d[m] /\ \A j \in 1..(m - 1) : c[j] = d[j]
      BY <2>5 DEF FirstDiffers
    <3>2. m <= i
      BY <1>1, <1>2, <1>3, <2>5
    <3>3. CASE m < k
      <4>1. m \in 1..(k - 1)
        BY <1>1, <3>3
      <4>2. r[m] = c[m] /\ d[m] = r[m]
        <5>1. m < i /\ i \in 1..N
          BY <1>1, <1>3, <2>4, <3>3
        <5> QED BY <1>4, <2>3, <4>1, <5>1
      <4> QED BY <1>1, <2>1, <3>1, <4>2
    <3>4. CASE k < m
      <4>1. k \in 1..(m - 1) /\ k < i
        BY <1>1, <1>3, <3>2, <3>4
      <4>2. d[k] = c[k] /\ r[k] = c[k]
        BY <1>1, <1>4, <3>1, <4>1
      <4> QED BY <1>1, <2>1, <2>3, <4>2
    <3>5. CASE m = k /\ k < i
      BY <1>1, <1>4, <2>1, <2>3, <3>1, <3>5
    <3>6. CASE m = k /\ k = i
      <4>1. d[i] < v /\ v <= d[i]
        BY <1>2, <1>3, <1>4, <2>3, <2>5, <3>6
      <4> QED BY <1>3, <2>1, <4>1
    <3> QED BY <1>3, <2>4, <3>3, <3>4, <3>5, <3>6
  <2>6. \/ c = d \/ \E m \in 1..N : FirstDiffers(d, c, m)
    BY <2>5, Compared
  <2> QED BY <2>1, <2>6 DEF Before
<1> QED BY <1>5, <1>6, <1>7 DEF r

(* A placement that cannot be raised is the last.                          *)
LEMMA NoRaiseIsLast ==
    ASSUME NEW fam, FamilyOK(fam), NEW c \in Placements(fam),
           \A i \in DOMAIN c : Steps(fam, c, i) = {},
           NEW d \in Placements(fam)
    PROVE  Before(d, c) \/ d = c
<1>1. DOMAIN c = 1..Values(fam) /\ DOMAIN d = 1..Values(fam)
  BY PlacementIs
<1> QED BY <1>1, Compared DEF Before

(* The placements yielded so far are those before the next one, or all;    *)
(* none was yielded twice.                                                 *)
YieldedInv(n) ==
    /\ current[n] \in Placements(Family(n))
    /\ expanded[n] \in Seq(Placements(Family(n)))
    /\ \A i, j \in DOMAIN expanded[n] : expanded[n][i] = expanded[n][j] => i = j
    /\ \A d \in Placements(Family(n)) :
          d \in Range(expanded[n]) <=> (n \in running => Before(d, current[n]))

ExpandInv ==
    /\ DOMAIN expanded = DOMAIN lib.families
    /\ DOMAIN current = DOMAIN lib.families
    /\ \A n \in DOMAIN lib.families : YieldedInv(n)

(* Sequences: their length and their elements.                             *)
LEMMA ElementsOf ==
    ASSUME NEW S, NEW s \in Seq(S)
    PROVE  Len(s) \in Nat /\ DOMAIN s = 1..Len(s) /\ \A i \in 1..Len(s) : s[i] \in S
<1> QED OBVIOUS

LEMMA ValuesOf ==
    ASSUME NEW S, NEW s \in Seq(S)
    PROVE  /\ Range(s) \subseteq S
           /\ \A x : x \in Range(s) <=> \E i \in 1..Len(s) : s[i] = x
<1>1. DOMAIN s = 1..Len(s) /\ \A i \in 1..Len(s) : s[i] \in S
  BY ElementsOf
<1>2. Range(s) = {s[i] : i \in DOMAIN s}
  BY DEF Range
<1>3. \A x : x \in Range(s) <=> \E i \in 1..Len(s) : s[i] = x
  BY <1>1, <1>2, Zenon
<1> QED BY <1>1, <1>3

(* Nothing is yielded before the first placement.                          *)
LEMMA ExpandInit ==
    ASSUME Init
    PROVE  LibraryInv /\ ExpandInv
<1>1. lib \in Libraries
  BY DEF Init
<1>2. LibraryInv
  BY <1>1, LibraryAssumption DEF Init, LibraryInv
<1>3. ASSUME NEW n \in DOMAIN lib.families
      PROVE  YieldedInv(n)
  <2> DEFINE fam == Family(n)
             c == [i \in 1..Values(fam) |-> 0]
  <2>1. FamilyOK(fam) /\ fam.regs \in Nat /\ fam.regs > 0 /\ Values(fam) \in Nat
    BY <1>1, Families
  <2>2. current[n] = c /\ expanded[n] = <<>> /\ running = DOMAIN lib.families
    BY DEF Init, Family
  <2>3. c \in Placements(fam)
    <3> HIDE DEF fam
    <3>1. c \in [1..Values(fam) -> 0..(fam.regs - 1)]
      BY <2>1
    <3>2. \A i \in (fam.ins + 1)..Values(fam) : c[i] = 0
      BY <2>1 DEF FamilyOK
    <3> HIDE DEF c
    <3> QED BY <2>1, <3>1, <3>2, PlacementMade
  <2>4. ASSUME NEW d \in Placements(fam) PROVE ~ Before(d, c)
    <3>1. DOMAIN d = 1..Values(fam) /\ \A i \in 1..Values(fam) : d[i] \in Nat
      BY <2>1, PlacementIs
    <3> HIDE DEF fam
    <3>2. \A k \in 1..Values(fam) : ~ (d[k] < c[k])
      BY <3>1
    <3> QED BY <3>1, <3>2 DEF Before, FirstDiffers
  <2> HIDE DEF c, fam
  <2>5. Range(expanded[n]) = {} /\ DOMAIN expanded[n] = {}
    BY <2>2 DEF Range
  <2> QED BY <2>2, <2>3, <2>4, <2>5 DEF YieldedInv, fam
<1> QED BY <1>2, <1>3 DEF ExpandInv, Init

(* A step of the macro yields the placement it stands at and goes on to    *)
(* the next one.                                                           *)
LEMMA ExpandStep ==
    ASSUME LibraryInv, ExpandInv, Expand
    PROVE  LibraryInv' /\ ExpandInv'
<1>0. PICK n : n = CHOOSE f \in running : TRUE
  OBVIOUS
<1> DEFINE c == current[n]
           fam == Family(n)
           Raises(i) == /\ LastRaise(fam, c, i)
                        /\ current' = [current EXCEPT ![n] = Raised(fam, c, i)]
                        /\ UNCHANGED <<running, phase>>
           Ends == /\ \A i \in DOMAIN c : Steps(fam, c, i) = {}
                   /\ running' = running \ {n}
                   /\ phase' = IF running' = {} THEN "extract" ELSE "expand"
                   /\ UNCHANGED current
<1>1. /\ phase = "expand"
      /\ expanded' = [expanded EXCEPT ![n] = Append(@, c)]
      /\ (\E i \in DOMAIN c : Raises(i)) \/ Ends
      /\ lib' = lib
  BY <1>0 DEF Expand
<1>2. n \in running /\ n \in DOMAIN lib.families
  BY <1>0, <1>1 DEF LibraryInv
<1>3. LibraryInv'
  BY <1>1 DEF LibraryInv
<1>4. /\ FamilyOK(fam) /\ c \in Placements(fam)
      /\ expanded[n] \in Seq(Placements(fam))
      /\ \A i, j \in DOMAIN expanded[n] : expanded[n][i] = expanded[n][j] => i = j
      /\ \A d \in Placements(fam) : d \in Range(expanded[n]) <=> Before(d, c)
  BY <1>2, Families DEF ExpandInv, YieldedInv, LibraryInv
<1>5. ~ Before(c, c)
  BY <1>4, BeforeIrreflexive
<1>6. \A f : Family(f)' = Family(f)
  BY <1>1 DEF Family
<1> HIDE DEF c, fam
<1>7. /\ expanded'[n] = Append(expanded[n], c)
      /\ DOMAIN expanded' = DOMAIN expanded
      /\ \A f \in DOMAIN expanded : f # n => expanded'[f] = expanded[f]
  BY <1>1, <1>2 DEF ExpandInv
<1>8. /\ expanded'[n] \in Seq(Placements(fam))
      /\ \A i, j \in DOMAIN expanded'[n] : expanded'[n][i] = expanded'[n][j] => i = j
      /\ \A d \in Placements(fam) : d \in Range(expanded'[n]) <=> Before(d, c) \/ d = c
  <2> DEFINE e == expanded[n]
             a == Append(e, c)
  <2>1. /\ e \in Seq(Placements(fam)) /\ a \in Seq(Placements(fam))
        /\ DOMAIN e = 1..Len(e) /\ DOMAIN a = 1..(Len(e) + 1) /\ Len(e) \in Nat
        /\ \A i \in 1..Len(e) : a[i] = e[i]
        /\ a[Len(e) + 1] = c
    BY <1>4
  <2> HIDE DEF e, a
  <2>2. \A i \in 1..(Len(e) + 1) : i \in 1..Len(e) \/ i = Len(e) + 1
    BY <2>1
  <2>3. \A i \in 1..Len(e) : e[i] # c /\ i \in 1..(Len(e) + 1)
    <3>1. \A i \in 1..Len(e) : e[i] \in Range(e)
      BY <2>1 DEF Range
    <3> QED BY <1>4, <1>5, <2>1, <3>1 DEF e
  <2>4. \A i, j \in DOMAIN a : a[i] = a[j] => i = j
    <3>1. \A i, j \in 1..Len(e) : e[i] = e[j] => i = j
      BY <1>4, <2>1 DEF e
    <3> QED BY <2>1, <2>2, <2>3, <3>1
  <2>5. \A d : d \in Range(a) <=> d \in Range(e) \/ d = c
    <3>1. Len(e) + 1 \in 1..(Len(e) + 1)
      BY <2>1
    <3> QED BY <2>1, <2>2, <2>3, <3>1 DEF Range
  <2> QED BY <1>4, <1>7, <2>1, <2>4, <2>5 DEF e, a
<1>9. YieldedInv(n)'
  <2>1. CASE \E i \in DOMAIN c : Raises(i)
    <3>1. PICK i \in DOMAIN c : Raises(i)
      BY <2>1
    <3>2. /\ Raised(fam, c, i) \in Placements(fam)
          /\ \A d \in Placements(fam) :
                Before(d, Raised(fam, c, i)) <=> Before(d, c) \/ d = c
      BY <1>4, <3>1, RaisedIsNext
    <3>3. current'[n] = Raised(fam, c, i) /\ n \in running'
      BY <1>2, <3>1 DEF ExpandInv
    <3> QED BY <1>6, <1>8, <3>2, <3>3 DEF YieldedInv, fam
  <2>2. CASE Ends
    <3>1. \A d \in Placements(fam) : Before(d, c) \/ d = c
      BY <1>4, <2>2, NoRaiseIsLast
    <3>2. n \notin running' /\ current'[n] = c
      BY <2>2 DEF c
    <3> QED BY <1>4, <1>6, <1>8, <3>1, <3>2 DEF YieldedInv, fam
  <2> QED BY <1>1, <2>1, <2>2 DEF c, fam
<1>10. ASSUME NEW f \in DOMAIN lib.families, f # n
       PROVE  YieldedInv(f)'
  <2>1. current'[f] = current[f] /\ (f \in running' <=> f \in running)
    BY <1>1, <1>10 DEF ExpandInv
  <2>2. expanded'[f] = expanded[f]
    BY <1>7, <1>10 DEF ExpandInv
  <2>3. YieldedInv(f)
    BY <1>10 DEF ExpandInv
  <2> QED BY <1>6, <2>1, <2>2, <2>3 DEF YieldedInv
<1>11. DOMAIN expanded' = DOMAIN lib'.families /\ DOMAIN current' = DOMAIN lib'.families
  BY <1>1, <1>7 DEF ExpandInv
<1> QED BY <1>1, <1>3, <1>9, <1>10, <1>11 DEF ExpandInv

(* A symbol that is read: which one, its uses, and what is read of them.    *)
Reads(k, calls, backwards, uses, got) ==
    /\ k \in 1..Min({Window, Len(pending)})
    /\ calls \in {<<>>} \cup lib.calls
    /\ uses = Uses(Family(pending[k].name), pending[k].placement, calls)
    /\ backwards \in BOOLEAN
    /\ got = Read(pending[k], uses, backwards)
    /\ odd' = odd + (IF k = 1 THEN 0 ELSE 1) + (IF calls = <<>> THEN 0 ELSE 1)
    /\ odd' <= MaxOdd
    /\ \/ Extract(k, uses, got)
       \/ Skip(k, uses, got)
       \/ Refuse(k, uses, got)

(* One turn of the loop of extract.                                        *)
LEMMA ReadCases ==
    ASSUME ReadSymbol
    PROVE  \E k, calls, backwards, uses, got : Reads(k, calls, backwards, uses, got)
<1> QED BY Zenon DEF ReadSymbol, Reads

(* Reading object files changes nothing of what was expanded.              *)
LEMMA ReadKeeps ==
    ASSUME ReadSymbol \/ Generate \/ UNCHANGED vars, LibraryInv
    PROVE  UNCHANGED <<lib, current, running, expanded>> /\ LibraryInv'
<1> DEFINE Kept == /\ UNCHANGED <<lib, current, running, expanded>>
                   /\ \/ UNCHANGED phase
                      \/ phase = "extract" /\ phase' \in {"library", "failed"}
<1>1. CASE ReadSymbol
  <2>1. PICK k, calls, backwards, uses, got : Reads(k, calls, backwards, uses, got)
    BY <1>1, ReadCases
  <2>2. Extract(k, uses, got) \/ Skip(k, uses, got) \/ Refuse(k, uses, got)
    BY <2>1 DEF Reads
  <2>3. Extract(k, uses, got) => Kept
    BY DEF Extract, Taken
  <2>4. Skip(k, uses, got) => Kept
    BY DEF Skip, Taken
  <2>5. Refuse(k, uses, got) => Kept
    BY DEF Refuse, Fail
  <2>6. Kept
    BY <2>2, <2>3, <2>4, <2>5
  <2> QED BY <2>6 DEF LibraryInv
<1>2. CASE Generate
  <2>1. Kept
    BY <1>2 DEF Generate
  <2> QED BY <2>1 DEF LibraryInv
<1>3. CASE UNCHANGED vars
  BY <1>3 DEF vars, LibraryInv
<1> QED BY <1>1, <1>2, <1>3

(* Every step keeps what is known of the placements.                       *)
LEMMA KeepsExpanding ==
    ASSUME LibraryInv, ExpandInv, [Next]_vars
    PROVE  LibraryInv' /\ ExpandInv'
<1>1. CASE Expand
  BY <1>1, ExpandStep
<1>2. CASE ReadSymbol \/ Generate \/ UNCHANGED vars
  <2>1. UNCHANGED <<lib, current, running, expanded>> /\ LibraryInv'
    BY <1>2, ReadKeeps
  <2> QED BY <2>1 DEF ExpandInv, YieldedInv, Family
<1> QED BY <1>1, <1>2 DEF Next

-----------------------------------------------------------------------------

(* Maps that grow, and sequences that do.                                  *)
LEMMA PutDomain ==
    ASSUME NEW f, NEW x, NEW v
    PROVE  DOMAIN Put(f, x, v) = DOMAIN f \cup {x}
<1> QED BY DEF Put, Over

LEMMA PutIs ==
    ASSUME NEW f, NEW x, NEW v
    PROVE  /\ Put(f, x, v)[x] = v
           /\ \A y \in DOMAIN f : y # x => Put(f, x, v)[y] = f[y]
<1> QED BY DEF Put, Over

Extends(s, t) == Len(s) <= Len(t) /\ \A i \in 1..Len(s) : t[i] = s[i]

(* Sequences that grow at their end.                                       *)
LEMMA ExtendsTrans ==
    ASSUME NEW S, NEW s \in Seq(S), NEW t \in Seq(S), NEW u \in Seq(S),
           Extends(s, t), Extends(t, u)
    PROVE  Extends(s, u)
<1> QED BY DEF Extends

LEMMA ConcatExtends ==
    ASSUME NEW S, NEW s \in Seq(S), NEW t \in Seq(S)
    PROVE  /\ s \o t \in Seq(S) /\ Len(s \o t) = Len(s) + Len(t)
           /\ Extends(s, s \o t)
           /\ \A i \in 1..Len(t) : (s \o t)[Len(s) + i] = t[i]
<1> QED BY DEF Extends

LEMMA AppendExtends ==
    ASSUME NEW S, NEW s \in Seq(S), NEW x \in S
    PROVE  /\ Append(s, x) \in Seq(S) /\ Len(Append(s, x)) = Len(s) + 1
           /\ Extends(s, Append(s, x)) /\ Append(s, x)[Len(s) + 1] = x
<1> QED BY DEF Extends

(* A set of numbers up to a bound has a greatest, and Min finds the least. *)
LEMMA MinIs ==
    ASSUME NEW S \in SUBSET Nat, S # {}
    PROVE  Min(S) \in S /\ \A m \in S : Min(S) <= m
<1>1. \E n \in S : \A m \in S : n <= m
  BY First!Least
<1> QED BY <1>1 DEF Min

(* The greatest element of a set of numbers.                               *)
LEMMA MaxIs ==
    ASSUME NEW S \in SUBSET Nat, S # {}, NEW bound \in Nat, \A n \in S : n <= bound
    PROVE  Max(S) \in S /\ \A m \in S : Max(S) >= m
<1> DEFINE Gaps == {bound - n : n \in S}
<1>1. Gaps \in SUBSET Nat /\ Gaps # {}
  <2>1. \A n \in S : bound - n \in Nat
    OBVIOUS
  <2>2. PICK n \in S : TRUE
    OBVIOUS
  <2> QED BY <2>1, <2>2
<1>2. PICK g \in Gaps : \A m \in Gaps : g <= m
  <2> HIDE DEF Gaps
  <2> QED BY <1>1, First!Least
<1>3. PICK n \in S : g = bound - n
  BY <1>2
<1>4. \A m \in S : n >= m
  BY <1>2, <1>3
<1> QED BY <1>3, <1>4 DEF Max

-----------------------------------------------------------------------------

(* Relocations, and lists of them in a pool: each ends with a mark.        *)
RelocationRec ==
    [kind : {"Hole", "Stack", "Target", "Runtime"}, id : Nat, offset : Nat,
     encoding : {"Generic", "X86Signed"}, relative : BOOLEAN, size : 1..WordBits,
     addend : Int]

Pool == Seq(RelocationRec \cup {Invalid})

Stored(data, start, list) ==
    /\ list \in Seq(RelocationRec)
    /\ start \in Nat /\ start + Len(list) + 1 <= Len(data)
    /\ \A i \in 1..Len(list) : data[start + i] = list[i]
    /\ data[start + Len(list) + 1] = Invalid

(* The terminator of a list is none of its relocations.                    *)
LEMMA InvalidIsNone ==
    \A r \in RelocationRec : r # Invalid
<1> QED BY DEF RelocationRec, Invalid

(* A list that is in the pool with its terminator is the one that is read  *)
(* there.                                                                  *)
LEMMA StoredIsRead ==
    ASSUME NEW b, b.relocation_data \in Pool, NEW start, NEW list,
           Stored(b.relocation_data, start, list)
    PROVE  ListAt(b, start) = list
<1> DEFINE data == b.relocation_data
           n == Len(list)
           ends == {i \in (start + 1)..Len(data) : data[i] = Invalid}
<1>1. /\ list \in Seq(RelocationRec) /\ n \in Nat /\ start \in Nat
      /\ start + n + 1 <= Len(data) /\ Len(data) \in Nat
      /\ \A i \in 1..n : data[start + i] = list[i] /\ list[i] \in RelocationRec
      /\ data[start + n + 1] = Invalid
      /\ list = [i \in 1..n |-> list[i]]
  BY DEF Stored, Pool
<1> HIDE DEF data, n
<1>2. ends \in SUBSET Nat /\ start + n + 1 \in ends
  BY <1>1
<1>3. \A i \in ends : i >= start + n + 1
  <2> SUFFICES ASSUME NEW i \in ends, i < start + n + 1 PROVE FALSE
    BY <1>1, <1>2
  <2>1. i - start \in 1..n /\ start + (i - start) = i /\ data[i] = Invalid
    BY <1>1, <1>2
  <2>2. data[i] \in RelocationRec
    BY <1>1, <2>1
  <2> QED BY <2>1, <2>2, InvalidIsNone
<1>4. Min(ends) = start + n + 1
  <2>1. Min(ends) \in ends /\ Min(ends) <= start + n + 1
    BY <1>2, MinIs
  <2> HIDE DEF ends
  <2> QED BY <1>1, <1>2, <1>3, <2>1
<1>5. ListAt(b, start) = SubSeq(data, start + 1, start + n)
  <2>1. ends # {} /\ Min(ends) - 1 = start + n
    BY <1>1, <1>2, <1>4
  <2>2. ListAt(b, start) = SubSeq(data, start + 1, Min(ends) - 1)
    BY <2>1 DEF ListAt, data
  <2> QED BY <2>1, <2>2
<1>6. SubSeq(data, start + 1, start + n) = [i \in 1..n |-> data[start + i]]
  <2>1. data \in Pool
    BY DEF data
  <2>2. SubSeq(data, start + 1, start + n) = [i \in 1..n |-> data[start + 1 + i - 1]]
    <3>1. PICK a \in Nat, z \in Nat : a = start + 1 /\ z = start + n /\ z - a + 1 = n
      BY <1>1
    <3>2. SubSeq(data, a, z) = [i \in 1..(z - a + 1) |-> data[a + i - 1]]
      OBVIOUS
    <3> QED BY <3>1, <3>2
  <2>3. \A i \in 1..n : start + 1 + i - 1 = start + i
    BY <1>1
  <2> QED BY <2>2, <2>3
<1> QED BY <1>1, <1>5, <1>6 DEF n

(* Pools grow at their end, and each list goes on to be where it was.      *)
PoolOK(b) ==
    /\ b.relocation_data \in Pool
    /\ \A list \in DOMAIN b.existing : Stored(b.relocation_data, b.existing[list], list)

IsBuilder(b) ==
    b = [meta |-> b.meta, stencils |-> b.stencils,
         relocation_data |-> b.relocation_data, existing |-> b.existing]

Grown(b, p, list) ==
    /\ IsBuilder(p) /\ PoolOK(p)
    /\ p.meta = b.meta /\ p.stencils = b.stencils
    /\ DOMAIN p.existing = DOMAIN b.existing \cup {list}
    /\ \A l \in DOMAIN b.existing : p.existing[l] = b.existing[l]
    /\ Len(b.relocation_data) <= Len(p.relocation_data)
    /\ Len(p.relocation_data) > 0 /\ Last(p.relocation_data) = Invalid
    /\ b.relocation_data = <<>> => p.existing[list] = 0

(* A new list is put where the pool has it already, or at the end; the     *)
(* lists that were there stay.                                             *)
LEMMA PooledGrows ==
    ASSUME NEW b, IsBuilder(b), PoolOK(b), NEW list \in Seq(RelocationRec),
           Len(b.relocation_data) > 0 => Last(b.relocation_data) = Invalid
    PROVE  Grown(b, Pooled(b, list), list)
<1> DEFINE data == b.relocation_data
           tail == Append(list, Invalid)
           longer == data \o list \o <<Invalid>>
           p == Pooled(b, list)
<1>1. CASE list \in DOMAIN b.existing
  <2>1. Pooled(b, list) = b
    BY <1>1 DEF Pooled
  <2>2. Stored(data, b.existing[list], list)
    BY <1>1 DEF PoolOK
  <2>3. Len(data) > 0
    BY <2>2 DEF Stored, PoolOK, Pool
  <2>4. data = <<>> => FALSE
    BY <2>3
  <2>5. Len(data) <= Len(data)
    BY DEF PoolOK, Pool
  <2> QED BY <1>1, <2>1, <2>3, <2>4, <2>5, Zenon DEF Grown
<1>2. CASE list \notin DOMAIN b.existing
  <2>1. /\ p.meta = b.meta /\ p.stencils = b.stencils /\ IsBuilder(p)
        /\ p.existing = Put(b.existing, list, Len(data)) /\ p.relocation_data = longer
    <3>1. p = [b EXCEPT !.existing = Put(@, list, Len(data)), !.relocation_data = longer]
      BY <1>2 DEF Pooled
    <3> HIDE DEF p, longer, data
    <3> QED BY <3>1 DEF IsBuilder, data
  <2>2. /\ data \in Pool /\ Len(data) \in Nat /\ Len(list) \in Nat
        /\ \A i \in 1..Len(list) : list[i] \in RelocationRec
    BY DEF PoolOK, Pool
  <2>3. /\ longer \in Pool /\ Len(longer) = Len(data) + Len(list) + 1
        /\ \A i \in 1..Len(data) : longer[i] = data[i]
        /\ \A i \in 1..Len(list) : longer[Len(data) + i] = list[i]
        /\ longer[Len(data) + Len(list) + 1] = Invalid
    <3>1. list \in Pool /\ <<Invalid>> \in Pool
      BY DEF Pool
    <3>2. /\ data \o list \in Pool /\ Len(data \o list) = Len(data) + Len(list)
          /\ \A i \in 1..Len(data) : (data \o list)[i] = data[i]
          /\ \A i \in 1..Len(list) : (data \o list)[Len(data) + i] = list[i]
      BY <2>2, <3>1, ConcatExtends DEF Pool, Extends
    <3> DEFINE dl == data \o list
    <3> HIDE DEF dl
    <3>3. /\ dl \o <<Invalid>> \in Pool /\ Len(dl \o <<Invalid>>) = Len(dl) + 1
          /\ \A i \in 1..Len(dl) : (dl \o <<Invalid>>)[i] = dl[i]
          /\ (dl \o <<Invalid>>)[Len(dl) + 1] = Invalid
      <4>1. dl \in Pool /\ Len(<<Invalid>>) = 1 /\ <<Invalid>>[1] = Invalid /\ 1 \in 1..1
        BY <3>2 DEF dl
      <4> QED BY <3>1, <4>1, ConcatExtends DEF Pool, Extends
    <3>4. longer = dl \o <<Invalid>>
      BY DEF dl
    <3>5. /\ dl \in Pool /\ Len(dl) = Len(data) + Len(list)
          /\ \A i \in 1..Len(data) : dl[i] = data[i]
          /\ \A i \in 1..Len(list) : dl[Len(data) + i] = list[i]
      BY <3>2 DEF dl
    <3> HIDE DEF longer
    <3>6. /\ \A i \in 1..Len(data) : i \in 1..Len(dl)
          /\ \A i \in 1..Len(list) : Len(data) + i \in 1..Len(dl)
      BY <2>2, <3>5
    <3> QED BY <2>2, <3>3, <3>4, <3>5, <3>6
  <2> HIDE DEF longer, data, p
  <2>4. /\ DOMAIN p.existing = DOMAIN b.existing \cup {list}
        /\ p.existing[list] = Len(data)
        /\ \A l \in DOMAIN b.existing : p.existing[l] = b.existing[l]
    <3>1. DOMAIN Put(b.existing, list, Len(data)) = DOMAIN b.existing \cup {list}
      BY PutDomain
    <3>2. /\ Put(b.existing, list, Len(data))[list] = Len(data)
          /\ \A l \in DOMAIN b.existing :
                l # list => Put(b.existing, list, Len(data))[l] = b.existing[l]
      BY PutIs
    <3> QED BY <1>2, <2>1, <3>1, <3>2, Zenon
  <2>5. Stored(longer, Len(data), list)
    BY <2>2, <2>3 DEF Stored
  <2>6. ASSUME NEW l \in DOMAIN b.existing
        PROVE  Stored(longer, b.existing[l], l)
    <3>1. Stored(data, b.existing[l], l)
      BY DEF PoolOK, data
    <3>0. PICK start : start = b.existing[l]
      OBVIOUS
    <3>2. /\ l \in Seq(RelocationRec) /\ start \in Nat /\ Len(l) \in Nat
          /\ start + Len(l) + 1 <= Len(data)
          /\ \A i \in 1..Len(l) : data[start + i] = l[i]
          /\ data[start + Len(l) + 1] = Invalid
      <4>1. Stored(data, start, l)
        BY <3>0, <3>1, Zenon
      <4>2. l \in Seq(RelocationRec)
        BY <4>1 DEF Stored
      <4>3. Len(l) \in Nat
        BY <4>2
      <4> QED BY <4>1, <4>2, <4>3, Zenon DEF Stored
    <3>3. \A i \in 1..Len(l) : start + i \in 1..Len(data)
      BY <2>2, <3>2
    <3>4. start + Len(l) + 1 \in 1..Len(data) /\ start + Len(l) + 1 <= Len(longer)
      BY <2>2, <2>3, <3>2
    <3>5. \A i \in 1..Len(l) : longer[start + i] = l[i]
      BY <2>3, <3>2, <3>3
    <3>6. longer[start + Len(l) + 1] = Invalid
      BY <2>3, <3>2, <3>4
    <3>7. Stored(longer, start, l)
      BY <3>2, <3>4, <3>5, <3>6 DEF Stored
    <3> QED BY <3>0, <3>7, Zenon
  <2>7. PoolOK(p)
    BY <2>1, <2>3, <2>4, <2>5, <2>6 DEF PoolOK
  <2>8. Len(longer) > 0 /\ Last(longer) = Invalid /\ Len(data) <= Len(longer)
    BY <2>2, <2>3 DEF Last
  <2>9. data = <<>> => Len(data) = 0
    OBVIOUS
  <2> QED BY <2>1, <2>4, <2>7, <2>8, <2>9, Zenon DEF Grown, data, p
<1> QED BY <1>1, <1>2

-----------------------------------------------------------------------------

(* Induction up to a bound: a set that holds 0 and with each number the    *)
(* next one.                                                               *)
LEMMA Upwards ==
    ASSUME NEW N \in Nat, NEW T, 0 \in T, \A n \in 1..N : n - 1 \in T => n \in T
    PROVE  \A n \in 0..N : n \in T
<1> DEFINE Out == {n \in 0..N : n \notin T}
<1>1. Out = {}
  <2> SUFFICES ASSUME Out # {} PROVE FALSE
    OBVIOUS
  <2>1. Out \in SUBSET Nat
    OBVIOUS
  <2>2. PICK n \in Out : \A m \in Out : n <= m
    <3> HIDE DEF Out
    <3> QED BY <2>1, First!Least
  <2>3. n # 0 /\ n \in 0..N /\ n \notin T
    BY <2>2
  <2>4. n \in 1..N /\ n - 1 \in 0..N /\ ~ (n <= n - 1)
    BY <2>3
  <2>5. n - 1 \notin Out
    BY <2>2, <2>4
  <2> QED BY <2>3, <2>4, <2>5
<1> QED BY <1>1

(* The index of a placement is a number in base regs, of Values digits.    *)
IndexOp(ctx, n, bits) == ctx.regs * n + bits

Indexing == INSTANCE FoldTheorems WITH Op <- IndexOp, Inv <- Trivial

LengthOp(ctx, n, r) == n * r

Lengthening == INSTANCE FoldTheorems WITH Op <- LengthOp, Inv <- Trivial

(* io_to_index and stencils_len are folds that FoldTheorems is about.      *)
LEMMA IndexIsFold ==
    ASSUME NEW fam, NEW c, NEW wide
    PROVE  io_to_index(fam, c, wide)
             = Indexing!Fold(fam, 0, c) + (IF wide THEN stencils_len(fam) ELSE 0)
<1> QED BY Zenon DEF io_to_index, FoldLeft, MapThenFoldSet, Max, IndexOp,
             Indexing!Fold, Indexing!Folded, Indexing!Solves, Indexing!Largest

LEMMA LengthIsFold ==
    ASSUME NEW fam
    PROVE  stencils_len(fam)
             = Lengthening!Fold(fam, 1, [i \in 1..Values(fam) |-> fam.regs])
<1> QED BY Zenon DEF stencils_len, FoldLeft, MapThenFoldSet, Max, LengthOp,
             Lengthening!Fold, Lengthening!Folded, Lengthening!Solves, Lengthening!Largest

Tuples(fam) == [1..Values(fam) -> 0..(fam.regs - 1)]

(* p counts with the digits of c, l how many numbers of n digits there are.*)
Counts(fam, c, p, l) ==
    /\ p[0] = 0 /\ l[0] = 1
    /\ \A n \in 1..Values(fam) : p[n] = fam.regs * p[n - 1] + c[n] /\ l[n] = l[n - 1] * fam.regs
    /\ \A n \in 0..Values(fam) : p[n] \in Nat /\ l[n] \in Nat /\ p[n] < l[n]
    /\ io_to_index(fam, c, FALSE) = p[Values(fam)]
    /\ Indexing!Fold(fam, 0, c) = p[Values(fam)]
    /\ stencils_len(fam) = l[Values(fam)]

(* Arithmetic of the two loops.                                            *)
LEMMA Product ==
    ASSUME NEW r \in Nat, r > 0, NEW a \in Nat, NEW b \in Nat, a < b, NEW x \in 0..(r - 1)
    PROVE  r * a + x \in Nat /\ b * r \in Nat /\ r * a + x < b * r
<1>1. r * a \in Nat /\ b * r \in Nat
  OBVIOUS
<1>2. r * a + r <= b * r
  <2>1. a + 1 <= b
    OBVIOUS
  <2>2. r * (a + 1) <= r * b
    BY <2>1
  <2>3. r * (a + 1) = r * a + r /\ r * b = b * r
    OBVIOUS
  <2> QED BY <2>2, <2>3
<1> QED BY <1>1, <1>2

(* The two loops in step: after k values, what io_to_index has counted is  *)
(* below what stencils_len has.                                            *)
LEMMA Counting ==
    ASSUME NEW fam, FamilyOK(fam), NEW c \in Tuples(fam)
    PROVE  \E p, l : Counts(fam, c, p, l)
<1> DEFINE N == Values(fam)
           all == [i \in 1..N |-> fam.regs]
           p == [n \in 0..N |-> Indexing!Prefix(fam, 0, c, n)]
           l == [n \in 0..N |-> Lengthening!Prefix(fam, 1, all, n)]
<1>1. /\ N \in Nat /\ fam.regs \in Nat /\ fam.regs > 0
      /\ DOMAIN c = 1..N /\ \A n \in 1..N : c[n] \in 0..(fam.regs - 1)
      /\ DOMAIN all = 1..N /\ \A n \in 1..N : all[n] = fam.regs
  BY DEF FamilyOK, Values, PlacedOuts, Tuples
<1> HIDE DEF N, all
<1>2. Indexing!Stepwise(fam, 0, c, N) /\ Lengthening!Stepwise(fam, 1, all, N)
  BY <1>1, Indexing!FoldSteps, Lengthening!FoldSteps
<1>3. /\ p[0] = 0 /\ l[0] = 1
      /\ \A n \in 1..N : p[n] = fam.regs * p[n - 1] + c[n] /\ l[n] = l[n - 1] * fam.regs
  <2>1. /\ Indexing!Prefix(fam, 0, c, 0) = 0 /\ Lengthening!Prefix(fam, 1, all, 0) = 1
        /\ \A n \in 1..N :
              /\ Indexing!Prefix(fam, 0, c, n) = fam.regs * Indexing!Prefix(fam, 0, c, n - 1) + c[n]
              /\ Lengthening!Prefix(fam, 1, all, n) = Lengthening!Prefix(fam, 1, all, n - 1) * all[n]
    BY <1>2 DEF Indexing!Stepwise, Lengthening!Stepwise, IndexOp, LengthOp
  <2>2. 0 \in 0..N /\ \A n \in 1..N : n \in 0..N /\ n - 1 \in 0..N
    BY <1>1
  <2> QED BY <1>1, <2>1, <2>2
<1>4. Indexing!Fold(fam, 0, c) = p[N] /\ stencils_len(fam) = l[N]
  <2>1. N \in 0..N
    BY <1>1
  <2>2. Indexing!Fold(fam, 0, c) = p[N] /\ Lengthening!Fold(fam, 1, all) = l[N]
    BY <1>2, <2>1 DEF Indexing!Stepwise, Lengthening!Stepwise
  <2>3. stencils_len(fam) = Lengthening!Fold(fam, 1, all)
    BY LengthIsFold DEF all, N
  <2> QED BY <2>2, <2>3
<1> HIDE DEF p, l
<1>5. \A n \in 0..N : p[n] \in Nat /\ l[n] \in Nat /\ p[n] < l[n]
  <2> DEFINE T == {n \in 0..N : p[n] \in Nat /\ l[n] \in Nat /\ p[n] < l[n]}
  <2>1. 0 \in T
    BY <1>1, <1>3
  <2>2. ASSUME NEW n \in 1..N, n - 1 \in T
        PROVE  n \in T
    <3>1. n \in 0..N /\ p[n - 1] \in Nat /\ l[n - 1] \in Nat /\ p[n - 1] < l[n - 1]
      BY <1>1, <2>2
    <3>2. p[n] = fam.regs * p[n - 1] + c[n] /\ l[n] = l[n - 1] * fam.regs
      BY <1>3
    <3>3. fam.regs \in Nat /\ fam.regs > 0 /\ c[n] \in 0..(fam.regs - 1)
      BY <1>1
    <3> DEFINE r == fam.regs
               a == p[n - 1]
               b == l[n - 1]
               x == c[n]
    <3>4. r * a + x \in Nat /\ b * r \in Nat /\ r * a + x < b * r
      <4>1. /\ a \in Nat /\ b \in Nat /\ a < b
            /\ r \in Nat /\ r > 0 /\ x \in 0..(r - 1)
        BY <3>1, <3>3
      <4> HIDE DEF r, a, b, x
      <4> QED BY <4>1, Product
    <3> QED BY <3>1, <3>2, <3>4, Zenon
  <2>3. \A n \in 0..N : n \in T
    <3> HIDE DEF T
    <3> QED BY <1>1, <2>1, <2>2, Upwards
  <2> QED BY <2>3
<1>6. io_to_index(fam, c, FALSE) = p[N]
  <2>1. N \in 0..N
    BY <1>1
  <2>2. p[N] \in Nat
    BY <1>5, <2>1
  <2>3. io_to_index(fam, c, FALSE) = p[N] + 0
    BY <1>4, IndexIsFold
  <2>4. p[N] + 0 = p[N]
    BY <2>2
  <2> QED BY <2>3, <2>4, Zenon
<1> QED BY <1>3, <1>4, <1>5, <1>6 DEF Counts, N

(* Different placements have different indices.                            *)
LEMMA SameDigit ==
    ASSUME NEW r \in Nat, NEW a \in Nat, NEW b \in Nat,
           NEW x \in 0..(r - 1), NEW y \in 0..(r - 1), r * a + x = r * b + y
    PROVE  a = b /\ x = y
<1>1. ASSUME NEW m \in Nat, NEW n \in Nat, NEW u \in 0..(r - 1), NEW v \in 0..(r - 1), m < n
      PROVE  r * m + u < r * n + v
  <2>1. m + 1 <= n
    BY <1>1
  <2>2. r * (m + 1) <= r * n
    BY <2>1
  <2>3. r * (m + 1) = r * m + r /\ r * m \in Nat /\ r * n \in Nat
    OBVIOUS
  <2> QED BY <2>2, <2>3
<1>2. a = b
  BY <1>1
<1>3. r * a \in Nat
  OBVIOUS
<1> QED BY <1>2, <1>3

(* Two placements of one family never share an index.                      *)
LEMMA SameIndex ==
    ASSUME NEW fam, FamilyOK(fam), NEW c \in Tuples(fam), NEW d \in Tuples(fam),
           io_to_index(fam, c, FALSE) = io_to_index(fam, d, FALSE)
    PROVE  c = d
<1> DEFINE N == Values(fam)
<1>1. PICK p, l : Counts(fam, c, p, l)
  BY Counting
<1>2. PICK q, m : Counts(fam, d, q, m)
  BY Counting
<1>3. /\ N \in Nat /\ fam.regs \in Nat
      /\ c = [n \in 1..N |-> c[n]] /\ d = [n \in 1..N |-> d[n]]
      /\ \A n \in 1..N : c[n] \in 0..(fam.regs - 1) /\ d[n] \in 0..(fam.regs - 1)
  BY DEF FamilyOK, Values, PlacedOuts, Tuples
<1> HIDE DEF N
<1>4. /\ \A n \in 1..N : p[n] = fam.regs * p[n - 1] + c[n] /\ q[n] = fam.regs * q[n - 1] + d[n]
      /\ \A n \in 0..N : p[n] \in Nat /\ q[n] \in Nat
      /\ p[N] = q[N]
  BY <1>1, <1>2 DEF Counts, N
<1> DEFINE T == {n \in 0..N : p[n] = q[n] => \A j \in 1..n : c[j] = d[j]}
<1>5. 0 \in T
  BY <1>3
<1>6. ASSUME NEW n \in 1..N, n - 1 \in T
      PROVE  n \in T
  <2>1. n \in 0..N /\ n - 1 \in 0..N /\ \A j \in 1..n : j \in 1..(n - 1) \/ j = n
    BY <1>3
  <2>2. ASSUME p[n] = q[n] PROVE p[n - 1] = q[n - 1] /\ c[n] = d[n]
    <3>1. fam.regs * p[n - 1] + c[n] = fam.regs * q[n - 1] + d[n]
      BY <1>4, <2>2
    <3>2. p[n - 1] \in Nat /\ q[n - 1] \in Nat
      BY <1>4, <2>1
    <3> DEFINE r == fam.regs
               a == p[n - 1]
               b == q[n - 1]
               x == c[n]
               y == d[n]
    <3>3. a = b /\ x = y
      <4>1. /\ a \in Nat /\ b \in Nat /\ r \in Nat
            /\ x \in 0..(r - 1) /\ y \in 0..(r - 1)
        BY <1>3, <3>2
      <4>2. r * a + x = r * b + y
        BY <3>1
      <4> HIDE DEF r, a, b, x, y
      <4> QED BY <4>1, <4>2, SameDigit
    <3> QED BY <3>3
  <2> QED BY <1>6, <2>1, <2>2
<1>7. \A n \in 0..N : n \in T
  <2> HIDE DEF T
  <2> QED BY <1>3, <1>5, <1>6, Upwards
<1>8. N \in 0..N
  BY <1>3
<1>9. \A j \in 1..N : c[j] = d[j]
  BY <1>4, <1>7, <1>8
<1> QED BY <1>3, <1>9

(* The entries of a table: the narrow half, and behind it the wide one.    *)
LEMMA IndexIs ==
    ASSUME NEW fam, FamilyOK(fam)
    PROVE  /\ stencils_len(fam) \in Nat /\ stencils_len(fam) > 0
           /\ \A c \in Tuples(fam) :
                 /\ io_to_index(fam, c, FALSE) \in 0..(stencils_len(fam) - 1)
                 /\ io_to_index(fam, c, TRUE) = io_to_index(fam, c, FALSE) + stencils_len(fam)
           /\ \A c, d \in Tuples(fam) :
                 io_to_index(fam, c, FALSE) = io_to_index(fam, d, FALSE) => c = d
<1>1. Values(fam) \in Nat
  BY DEF FamilyOK, Values, PlacedOuts
<1>2. ASSUME NEW c \in Tuples(fam)
      PROVE  /\ stencils_len(fam) \in Nat /\ stencils_len(fam) > 0
             /\ io_to_index(fam, c, FALSE) \in 0..(stencils_len(fam) - 1)
             /\ io_to_index(fam, c, TRUE) = io_to_index(fam, c, FALSE) + stencils_len(fam)
  <2>1. PICK p, l : Counts(fam, c, p, l)
    BY Counting
  <2>2. Values(fam) \in 0..Values(fam)
    BY <1>1
  <2>3. /\ io_to_index(fam, c, FALSE) = p[Values(fam)] /\ stencils_len(fam) = l[Values(fam)]
        /\ p[Values(fam)] \in Nat /\ l[Values(fam)] \in Nat /\ p[Values(fam)] < l[Values(fam)]
    BY <2>1, <2>2 DEF Counts
  <2>4. PICK f : f = Indexing!Fold(fam, 0, c)
    OBVIOUS
  <2>5. io_to_index(fam, c, FALSE) = f + 0 /\ io_to_index(fam, c, TRUE) = f + stencils_len(fam)
    BY <2>4, IndexIsFold
  <2>6. f = p[Values(fam)]
    BY <2>1, <2>4 DEF Counts
  <2>7. f + 0 = f
    BY <2>3, <2>6
  <2>8. io_to_index(fam, c, FALSE) = f /\ io_to_index(fam, c, TRUE) = f + stencils_len(fam)
    BY <2>5, <2>7, Zenon
  <2> DEFINE narrow == io_to_index(fam, c, FALSE)
             wide == io_to_index(fam, c, TRUE)
  <2>9. /\ narrow = f /\ wide = f + stencils_len(fam)
        /\ stencils_len(fam) \in Nat /\ f \in Nat /\ f < stencils_len(fam)
    BY <2>3, <2>6, <2>8
  <2> HIDE DEF narrow, wide
  <2>10. /\ stencils_len(fam) \in Nat /\ stencils_len(fam) > 0
         /\ narrow \in 0..(stencils_len(fam) - 1)
         /\ wide = narrow + stencils_len(fam)
    BY <2>9
  <2> QED BY <2>10, Zenon DEF narrow, wide
<1>3. [i \in 1..Values(fam) |-> 0] \in Tuples(fam)
  BY DEF Tuples, FamilyOK
<1> QED BY <1>2, <1>3, SameIndex

-----------------------------------------------------------------------------

(* The functions a family is turned into, and their entries.               *)
SymbolOK(sym) ==
    /\ sym.name \in DOMAIN lib.families
    /\ sym.placement \in Placements(Family(sym.name))
    /\ sym.wide \in BOOLEAN
    /\ sym.wide => Family(sym.name).holes > 0
    /\ sym = Symbol(sym.name, sym.placement, sym.wide)

IndexOf(sym) == io_to_index(Family(sym.name), sym.placement, sym.wide)

Entries(fam) == (IF fam.holes > 0 THEN 2 ELSE 1) * stencils_len(fam)

(* A symbol has its entry in the table of its family.                      *)
LEMMA EntryOfSymbol ==
    ASSUME lib \in Libraries, NEW sym, SymbolOK(sym)
    PROVE  IndexOf(sym) \in 0..(Entries(Family(sym.name)) - 1)
<1> DEFINE fam == Family(sym.name)
           c == sym.placement
           len == stencils_len(fam)
           narrow == io_to_index(fam, c, FALSE)
           wide == io_to_index(fam, c, TRUE)
<1>1. FamilyOK(fam) /\ c \in Tuples(fam) /\ fam.holes \in Nat
  BY Families DEF SymbolOK, Placements, Tuples
<1>2. len \in Nat /\ len > 0 /\ narrow \in 0..(len - 1) /\ wide = narrow + len
  <2> HIDE DEF fam, c
  <2> QED BY <1>1, IndexIs
<1>3. IndexOf(sym) = IF sym.wide THEN wide ELSE narrow
  <2>1. CASE sym.wide = TRUE
    BY <2>1 DEF IndexOf
  <2>2. CASE sym.wide = FALSE
    BY <2>2 DEF IndexOf
  <2> QED BY <2>1, <2>2 DEF SymbolOK
<1>4. Entries(fam) = IF fam.holes > 0 THEN len + len ELSE len
  BY <1>1, <1>2 DEF Entries
<1>5. sym.wide \in BOOLEAN /\ (sym.wide => fam.holes > 0)
  BY DEF SymbolOK
<1> HIDE DEF fam, c, len, narrow, wide
<1> QED BY <1>1, <1>2, <1>3, <1>4, <1>5 DEF fam

(* An entry belongs to one symbol.                                         *)
LEMMA SymbolOfEntry ==
    ASSUME lib \in Libraries, NEW sym, SymbolOK(sym), NEW other, SymbolOK(other),
           sym.name = other.name, IndexOf(sym) = IndexOf(other)
    PROVE  sym = other
<1> DEFINE fam == Family(sym.name)
           c == sym.placement
           d == other.placement
           len == stencils_len(fam)
           cn == io_to_index(fam, c, FALSE)
           cw == io_to_index(fam, c, TRUE)
           dn == io_to_index(fam, d, FALSE)
           dw == io_to_index(fam, d, TRUE)
<1>1. FamilyOK(fam) /\ c \in Tuples(fam) /\ d \in Tuples(fam)
  BY Families DEF SymbolOK, Placements, Tuples
<1>2. /\ len \in Nat /\ cn \in 0..(len - 1) /\ dn \in 0..(len - 1)
      /\ cw = cn + len /\ dw = dn + len
  <2> HIDE DEF fam, c, d
  <2> QED BY <1>1, IndexIs
<1>3. /\ IndexOf(sym) = IF sym.wide THEN cw ELSE cn
      /\ IndexOf(other) = IF other.wide THEN dw ELSE dn
  <2>1. sym.wide = TRUE \/ sym.wide = FALSE
    BY DEF SymbolOK
  <2>2. other.wide = TRUE \/ other.wide = FALSE
    BY DEF SymbolOK
  <2> QED BY <2>1, <2>2 DEF IndexOf
<1>4. sym.wide \in BOOLEAN /\ other.wide \in BOOLEAN
  BY DEF SymbolOK
<1>5. sym.wide = other.wide /\ cn = dn
  <2> HIDE DEF fam, c, d, len, cn, cw, dn, dw
  <2>1. cn # dw /\ cw # dn /\ (cw = dw => cn = dn)
    BY <1>2
  <2>2. IndexOf(sym) = IndexOf(other)
    OBVIOUS
  <2> QED BY <1>3, <1>4, <2>1, <2>2, Zenon
<1>6. c = d
  <2> HIDE DEF fam, c, d
  <2> QED BY <1>1, <1>5, SameIndex
<1> QED BY <1>5, <1>6 DEF SymbolOK, Symbol

(* Sorting relocations whose offsets are 1 to N puts each at its offset.   *)
LEMMA CountsBelow ==
    ASSUME NEW N \in Nat, NEW S, NEW at, \A n \in 1..N : at[n] \in S,
           \A p \in S : p.offset \in 1..N /\ p = at[p.offset],
           \A n \in 1..N : at[n].offset = n,
           NEW k \in 1..N
    PROVE  Cardinality({q \in S : q.offset <= k}) = k
<1> DEFINE T == {q \in S : q.offset <= k}
           f == [n \in 1..k |-> at[n]]
<1>1. \A n \in 1..k : n \in 1..N /\ at[n] \in T
  OBVIOUS
<1>2. f \in [1..k -> T]
  BY <1>1
<1>3. \A m, n \in 1..k : f[m] = f[n] => m = n
  BY <1>1
<1>4. \A q \in T : \E n \in 1..k : f[n] = q
  <2> SUFFICES ASSUME NEW q \in T PROVE \E n \in 1..k : f[n] = q
    OBVIOUS
  <2>1. q.offset \in 1..k /\ at[q.offset] = q
    OBVIOUS
  <2> QED BY <2>1
<1> HIDE DEF f, T
<1>5. f \in Bijection(1..k, T)
  BY <1>2, <1>3, <1>4 DEF Bijection, Injection, Surjection, IsInjective
<1>6. ExistsBijection(1..k, T)
  BY <1>5 DEF ExistsBijection
<1> QED BY <1>6, FS_CountingElements DEF T

AtOffsets(at, n) == [k \in 1..n |-> at[k]]

(* A list with one relocation at each offset, sorted.                      *)
LEMMA SortedIs ==
    ASSUME NEW N \in Nat, NEW list, DOMAIN list = 1..N, NEW at,
           \A n \in 1..N : at[n] \in Range(list) /\ at[n].offset = n,
           \A i \in 1..N : list[i].offset \in 1..N /\ list[i] = at[list[i].offset]
    PROVE  Sorted(list) = AtOffsets(at, N)
<1> DEFINE S == Range(list)
<1>1. \A p \in S : p.offset \in 1..N /\ p = at[p.offset]
  BY DEF Range
<1>2. \A n \in 1..N : at[n] \in S /\ at[n].offset = n
  OBVIOUS
<1> HIDE DEF S
<1>3. ASSUME NEW k \in 1..N
      PROVE  (CHOOSE p \in S : Cardinality({q \in S : q.offset <= p.offset}) = k) = at[k]
  <2>1. \A p \in S : Cardinality({q \in S : q.offset <= p.offset}) = p.offset
    <3>1. \A j \in 1..N : Cardinality({q \in S : q.offset <= j}) = j
      BY <1>1, <1>2, CountsBelow
    <3> QED BY <1>1, <3>1, Zenon
  <2>2. at[k] \in S /\ at[k].offset = k
    BY <1>2
  <2>3. \A p \in S : p.offset = k => p = at[k]
    BY <1>1
  <2>4. \A p \in S : Cardinality({q \in S : q.offset <= p.offset}) = k <=> p = at[k]
    <3>1. \A p \in S : Cardinality({q \in S : q.offset <= p.offset}) = k <=> p.offset = k
      BY <2>1, Zenon
    <3>2. \A p \in S : p.offset = k <=> p = at[k]
      BY <2>2, <2>3, Zenon
    <3> QED BY <3>1, <3>2, Zenon
  <2> QED BY <2>2, <2>4, Zenon
<1> QED BY <1>3, Zenon DEF Sorted, S, AtOffsets

-----------------------------------------------------------------------------

(* The uses of a function's places: its holes, its values on the stack,    *)
(* what it calls, and where it goes on to.                                 *)
HoleUse(fam) == [kind : {"Hole"}, id : 0..(fam.holes - 1)]
StackUse == [kind : {"Stack"}, id : Nat]
CallUse == [kind : {"Call"}, id : STRING]
TargetUse(fam) == [kind : {"Target"}, id : 0..(Metadata(fam).jumps - 1)]

AnyUse(fam) == HoleUse(fam) \cup StackUse \cup CallUse \cup TargetUse(fam)

(* The stack numbers of a placement count from 0.                          *)
LEMMA StackIdIs ==
    ASSUME NEW c, NEW i \in Int
    PROVE  StackId(c, i) \in Nat
<1> DEFINE S == {j \in 1..(i - 1) : c[j] = 0}
<1>1. IsFiniteSet(1..(i - 1))
  BY FS_Interval
<1>2. S \in SUBSET (1..(i - 1))
  OBVIOUS
<1> HIDE DEF S
<1>3. IsFiniteSet(S)
  BY <1>1, <1>2, FS_Subset
<1> QED BY <1>3, FS_CardinalityType DEF StackId, S

StackUsesOp(ctx, uses, i) ==
    IF ctx[i] = 0 THEN Append(uses, Use("Stack", StackId(ctx, i))) ELSE uses

OnStack(c, seq, n) == {Use("Stack", StackId(c, i)) : i \in {seq[k] : k \in {m \in 1..n : c[seq[m]] = 0}}}

StackUsesInv(ctx, seq, n, uses) ==
    uses \in Seq(StackUse) /\ Range(uses) = OnStack(ctx, seq, n)

Stacking == INSTANCE FoldTheorems WITH Op <- StackUsesOp, Inv <- StackUsesInv

(* The uses of the stack are a fold over the values.                       *)
LEMMA StackUsesIsFold ==
    ASSUME NEW c, NEW from, NEW to
    PROVE  StackUses(c, from, to)
             = Stacking!Fold(c, <<>>, [k \in 1..(to - from + 1) |-> from + k - 1])
<1> QED BY Zenon DEF StackUses, FoldLeft, MapThenFoldSet, Max, StackUsesOp,
             Stacking!Fold, Stacking!Folded, Stacking!Solves, Stacking!Largest

(* The elements of a sequence that grows.                                  *)
LEMMA RangeOfAppend ==
    ASSUME NEW S, NEW s \in Seq(S), NEW x \in S
    PROVE  Range(Append(s, x)) = Range(s) \cup {x}
<1> DEFINE a == Append(s, x)
<1>1. /\ DOMAIN s = 1..Len(s) /\ DOMAIN a = 1..(Len(s) + 1) /\ Len(s) \in Nat
      /\ \A i \in 1..Len(s) : a[i] = s[i]
      /\ a[Len(s) + 1] = x
  OBVIOUS
<1> HIDE DEF a
<1>2. \A i \in 1..(Len(s) + 1) : i \in 1..Len(s) \/ i = Len(s) + 1
  BY <1>1
<1>3. Len(s) + 1 \in 1..(Len(s) + 1) /\ \A i \in 1..Len(s) : i \in 1..(Len(s) + 1)
  BY <1>1
<1>4. Range(s) = {s[i] : i \in DOMAIN s} /\ Range(a) = {a[i] : i \in DOMAIN a}
  BY DEF Range
<1> QED BY <1>1, <1>2, <1>3, <1>4 DEF a

LEMMA RangeOfConcat ==
    ASSUME NEW S, NEW s \in Seq(S), NEW t \in Seq(S)
    PROVE  s \o t \in Seq(S) /\ Range(s \o t) = Range(s) \cup Range(t)
<1> DEFINE a == s \o t
<1>1. /\ DOMAIN s = 1..Len(s) /\ DOMAIN t = 1..Len(t) /\ DOMAIN a = 1..(Len(s) + Len(t))
      /\ Len(s) \in Nat /\ Len(t) \in Nat /\ a \in Seq(S)
      /\ \A i \in 1..Len(s) : a[i] = s[i]
      /\ \A i \in 1..Len(t) : a[Len(s) + i] = t[i]
  BY ConcatExtends DEF Extends
<1> HIDE DEF a
<1>2. \A i \in 1..(Len(s) + Len(t)) :
         i \in 1..Len(s) \/ \E k \in 1..Len(t) : i = Len(s) + k
  <2> SUFFICES ASSUME NEW i \in 1..(Len(s) + Len(t)), i \notin 1..Len(s)
               PROVE  \E k \in 1..Len(t) : i = Len(s) + k
    OBVIOUS
  <2>1. i - Len(s) \in 1..Len(t) /\ i = Len(s) + (i - Len(s))
    BY <1>1
  <2> QED BY <2>1
<1>3. /\ \A i \in 1..Len(s) : i \in 1..(Len(s) + Len(t))
      /\ \A k \in 1..Len(t) : Len(s) + k \in 1..(Len(s) + Len(t))
  BY <1>1
<1>4. /\ Range(s) = {s[i] : i \in DOMAIN s} /\ Range(t) = {t[i] : i \in DOMAIN t}
      /\ Range(a) = {a[i] : i \in DOMAIN a}
  BY DEF Range
<1>5. Range(a) \subseteq Range(s) \cup Range(t)
  <2> SUFFICES ASSUME NEW i \in 1..(Len(s) + Len(t))
               PROVE  a[i] \in Range(s) \cup Range(t)
    BY <1>1, <1>4
  <2>1. CASE i \in 1..Len(s)
    BY <1>1, <1>4, <2>1
  <2>2. CASE \E k \in 1..Len(t) : i = Len(s) + k
    BY <1>1, <1>4, <2>2
  <2> QED BY <1>2, <2>1, <2>2
<1>6. Range(s) \subseteq Range(a) /\ Range(t) \subseteq Range(a)
  BY <1>1, <1>3, <1>4, Zenon
<1> QED BY <1>1, <1>5, <1>6 DEF a

PartUse(c, from, to) == {Use("Stack", StackId(c, i)) : i \in {j \in from..to : c[j] = 0}}

(* A value on the stack is used under its number.                          *)
LEMMA StackUsesAre ==
    ASSUME NEW c, NEW from \in Nat, NEW to \in Nat, from <= to + 1
    PROVE  /\ StackUses(c, from, to) \in Seq(StackUse)
           /\ Range(StackUses(c, from, to)) = PartUse(c, from, to)
<1> DEFINE N == to - from + 1
           seq == [k \in 1..N |-> from + k - 1]
<1>1. N \in Nat /\ DOMAIN seq = 1..N /\ \A k \in 1..N : seq[k] = from + k - 1 /\ seq[k] \in Int
  OBVIOUS
<1> HIDE DEF N, seq
<1>2. StackUsesInv(c, seq, 0, <<>>)
  <2>1. OnStack(c, seq, 0) = {}
    BY DEF OnStack
  <2>2. Range(<<>>) = {}
    BY DEF Range
  <2>3. <<>> \in Seq(StackUse)
    OBVIOUS
  <2> QED BY <2>1, <2>2, <2>3, Zenon DEF StackUsesInv
<1>3. ASSUME NEW n \in 1..N, NEW v, StackUsesInv(c, seq, n - 1, v)
      PROVE  StackUsesInv(c, seq, n, StackUsesOp(c, v, seq[n]))
  <2> DEFINE i == seq[n]
             new == Use("Stack", StackId(c, i))
  <2>1. v \in Seq(StackUse) /\ Range(v) = OnStack(c, seq, n - 1)
    BY <1>3 DEF StackUsesInv
  <2>2. new \in StackUse
    BY <1>1, StackIdIs DEF Use, StackUse
  <2>3. \A m \in 1..n : m \in 1..(n - 1) \/ m = n
    OBVIOUS
  <2>4. n \in 1..n /\ \A m \in 1..(n - 1) : m \in 1..n
    OBVIOUS
  <2>5. CASE c[i] = 0
    <3>1. OnStack(c, seq, n) = OnStack(c, seq, n - 1) \cup {new}
      <4>1. \A m, u : u \in OnStack(c, seq, m)
                        <=> \E k \in 1..m : c[seq[k]] = 0 /\ u = Use("Stack", StackId(c, seq[k]))
        BY Zenon DEF OnStack
      <4>2. \A u : u \in OnStack(c, seq, n) <=> u \in OnStack(c, seq, n - 1) \/ u = new
        <5>1. ASSUME NEW u, u \in OnStack(c, seq, n)
              PROVE  u \in OnStack(c, seq, n - 1) \/ u = new
          <6>1. PICK k \in 1..n : c[seq[k]] = 0 /\ u = Use("Stack", StackId(c, seq[k]))
            BY <4>1, <5>1, Zenon
          <6> QED BY <2>3, <4>1, <6>1, Zenon
        <5>2. ASSUME NEW u, u \in OnStack(c, seq, n - 1)
              PROVE  u \in OnStack(c, seq, n)
          <6>1. PICK k \in 1..(n - 1) : c[seq[k]] = 0 /\ u = Use("Stack", StackId(c, seq[k]))
            BY <4>1, <5>2, Zenon
          <6>2. k \in 1..n
            BY <2>4, <6>1
          <6> QED BY <4>1, <6>1, <6>2, Zenon
        <5>3. new \in OnStack(c, seq, n)
          BY <2>4, <2>5, <4>1, Zenon
        <5> QED BY <5>1, <5>2, <5>3, Zenon
      <4> QED BY <4>2, Zenon
    <3>2. StackUsesOp(c, v, i) = Append(v, new)
      BY <2>5 DEF StackUsesOp
    <3> HIDE DEF new
    <3>3. Append(v, new) \in Seq(StackUse) /\ Range(Append(v, new)) = Range(v) \cup {new}
      BY <2>1, <2>2, RangeOfAppend, AppendExtends
    <3> QED BY <2>1, <3>1, <3>2, <3>3 DEF StackUsesInv
  <2>6. CASE c[i] # 0
    <3>1. OnStack(c, seq, n) = OnStack(c, seq, n - 1)
      BY <2>3, <2>4, <2>6, Zenon DEF OnStack
    <3>2. StackUsesOp(c, v, i) = v
      BY <2>6 DEF StackUsesOp
    <3> QED BY <2>1, <3>1, <3>2 DEF StackUsesInv
  <2> QED BY <2>5, <2>6
<1>4. StackUsesInv(c, seq, N, Stacking!Fold(c, <<>>, seq))
  BY <1>1, <1>2, <1>3, Stacking!FoldInduction
<1>5. StackUses(c, from, to) = Stacking!Fold(c, <<>>, seq)
  BY StackUsesIsFold DEF seq, N
<1>6. OnStack(c, seq, N) = PartUse(c, from, to)
  <2>1. \A m \in 1..N : seq[m] \in from..to
    BY <1>1 DEF N
  <2>2. \A j \in from..to : j - from + 1 \in 1..N /\ seq[j - from + 1] = j
    BY <1>1 DEF N
  <2>3. {seq[k] : k \in {m \in 1..N : c[seq[m]] = 0}} = {j \in from..to : c[j] = 0}
    BY <2>1, <2>2
  <2> QED BY <2>3 DEF OnStack, PartUse
<1> QED BY <1>4, <1>5, <1>6 DEF StackUsesInv

PlacedUse(fam, c) == PartUse(c, 1, Values(fam))

CalledUse(calls) == {Use("Call", calls[i]) : i \in DOMAIN calls}

UsesInv(fam, c, calls, uses) ==
    /\ uses \in Seq(AnyUse(fam))
    /\ Range(uses) = HoleUse(fam) \cup PlacedUse(fam, c) \cup CalledUse(calls) \cup TargetUse(fam)

(* Uses that are numbered one after the other.                             *)
LEMMA NumberedUses ==
    ASSUME NEW S, NEW n \in Nat, NEW kind, NEW uses, uses = [i \in 1..n |-> Use(kind, i - 1)],
           [kind : {kind}, id : 0..(n - 1)] \subseteq S
    PROVE  uses \in Seq(S) /\ Range(uses) = [kind : {kind}, id : 0..(n - 1)]
<1>1. \A i \in 1..n : i - 1 \in 0..(n - 1) /\ uses[i] \in [kind : {kind}, id : 0..(n - 1)]
  BY DEF Use
<1>2. uses \in Seq(S)
  BY <1>1
<1>3. ASSUME NEW u \in [kind : {kind}, id : 0..(n - 1)]
      PROVE  \E i \in 1..n : uses[i] = u
  <2>1. u.id + 1 \in 1..n /\ (u.id + 1) - 1 = u.id
    OBVIOUS
  <2>2. u = Use(kind, u.id)
    BY DEF Use
  <2> QED BY <2>1, <2>2
<1>4. DOMAIN uses = 1..n /\ Range(uses) = {uses[i] : i \in DOMAIN uses}
  BY DEF Range
<1>5. Range(uses) \subseteq [kind : {kind}, id : 0..(n - 1)]
  BY <1>1, <1>4, Zenon
<1>6. [kind : {kind}, id : 0..(n - 1)] \subseteq Range(uses)
  BY <1>3, <1>4, Zenon
<1> QED BY <1>2, <1>5, <1>6, Zenon

(* The metadata announces the holes and the jumps by their names, of which *)
(* the last has one less than their number; what a function goes on to has *)
(* the numbers below that of its jumps.                                    *)
Announced(fam) ==
    /\ Metadata(fam).holes = fam.holes /\ Metadata(fam).jumps \in Nat
    /\ hole_names(fam) = [h \in 1..fam.holes |-> h - 1]
    /\ DOMAIN hole_names(fam) = 1..fam.holes
    /\ NextUses(fam) = [t \in 1..Metadata(fam).jumps |-> Use("Target", t - 1)]
    /\ DOMAIN NextUses(fam) = 1..Metadata(fam).jumps

LEMMA AnnouncedIs ==
    ASSUME NEW fam, FamilyOK(fam)
    PROVE  Announced(fam)
<1>1. /\ fam.holes \in Nat /\ fam.targets \in Nat
      /\ fam.kind \in {"next", "targets", "returns", "trampoline"}
  BY DEF FamilyOK
<1>2. /\ DOMAIN hole_names(fam) = 1..fam.holes /\ Len(hole_names(fam)) = fam.holes
      /\ DOMAIN target_names(fam) = 1..fam.targets /\ Len(target_names(fam)) = fam.targets
  BY <1>1 DEF hole_names, target_names
<1>3. Metadata(fam).holes = fam.holes
  BY <1>2 DEF Metadata
<1>4. /\ NextUses(fam) = [t \in 1..Metadata(fam).jumps |-> Use("Target", t - 1)]
      /\ Metadata(fam).jumps \in Nat
  <2>1. CASE fam.kind = "targets"
    <3>1. Metadata(fam).jumps = fam.targets
      BY <1>2, <2>1 DEF Metadata
    <3>2. NextUses(fam)
            = [t \in DOMAIN target_names(fam) |-> Use("Target", target_names(fam)[t])]
      BY <2>1 DEF NextUses
    <3>3. \A t \in 1..fam.targets : target_names(fam)[t] = t - 1
      BY DEF target_names
    <3> QED BY <1>1, <1>2, <3>1, <3>2, <3>3
  <2>2. CASE fam.kind = "next"
    <3>1. Metadata(fam).jumps = 1
      BY <2>2 DEF Metadata
    <3>2. NextUses(fam) = <<Use("Target", 0)>>
      BY <2>2 DEF NextUses
    <3>3. <<Use("Target", 0)>> = [t \in 1..1 |-> Use("Target", t - 1)]
      OBVIOUS
    <3> QED BY <3>1, <3>2, <3>3
  <2>3. CASE fam.kind \in {"returns", "trampoline"}
    <3>1. Metadata(fam).jumps = 0
      BY <2>3 DEF Metadata
    <3>2. NextUses(fam) = <<>>
      BY <2>3 DEF NextUses
    <3> QED BY <3>1, <3>2
  <2> QED BY <1>1, <2>1, <2>2, <2>3
<1> QED BY <1>2, <1>3, <1>4 DEF Announced, hole_names

(* What a function generated by the macro uses: its holes, the stack of    *)
(* its values, what it calls and its targets.                              *)
LEMMA UsesAre ==
    ASSUME NEW fam, FamilyOK(fam), NEW c \in Placements(fam), NEW calls \in Seq(STRING)
    PROVE  UsesInv(fam, c, calls, Uses(fam, c, calls))
<1> DEFINE A == AnyUse(fam)
           jumps == Metadata(fam).jumps
           holes == [h \in 1..fam.holes |-> Use("Hole", h - 1)]
           ins == StackUses(c, 1, fam.ins)
           called == [i \in DOMAIN calls |-> Use("Call", calls[i])]
           outs == StackUses(c, fam.ins + 1, Len(c))
           targets == [t \in 1..jumps |-> Use("Target", t - 1)]
           part(from, to) == PartUse(c, from, to)
<1>1. /\ fam.holes \in Nat /\ fam.ins \in Nat /\ jumps \in Nat /\ Values(fam) \in Nat
      /\ Len(c) = Values(fam) /\ fam.ins <= Values(fam)
  <2>1. Len(c) = Values(fam)
    BY PlacementIs
  <2>2. fam.holes \in Nat /\ fam.ins \in Nat /\ fam.targets \in Nat
    BY DEF FamilyOK
  <2>3. Values(fam) \in Nat /\ fam.ins <= Values(fam)
    BY DEF FamilyOK, Values, PlacedOuts
  <2>4. jumps \in Nat
    BY AnnouncedIs DEF Announced
  <2> QED BY <2>1, <2>2, <2>3, <2>4
<1>2. /\ HoleUse(fam) \subseteq A /\ StackUse \subseteq A /\ CallUse \subseteq A
      /\ TargetUse(fam) \subseteq A
  BY DEF AnyUse
<1> HIDE DEF A, jumps
<1>3. holes \in Seq(A) /\ Range(holes) = HoleUse(fam)
  BY <1>1, <1>2, NumberedUses DEF HoleUse
<1>4. targets \in Seq(A) /\ Range(targets) = TargetUse(fam)
  BY <1>1, <1>2, NumberedUses DEF TargetUse, jumps
<1>5. /\ ins \in Seq(A) /\ Range(ins) = part(1, fam.ins)
      /\ outs \in Seq(A) /\ Range(outs) = part(fam.ins + 1, Len(c))
  <2>1. /\ ins \in Seq(StackUse) /\ Range(ins) = part(1, fam.ins)
        /\ outs \in Seq(StackUse) /\ Range(outs) = part(fam.ins + 1, Len(c))
    <3>1. 1 \in Nat /\ 1 <= fam.ins + 1 /\ fam.ins + 1 \in Nat /\ Len(c) \in Nat /\ fam.ins + 1 <= Len(c) + 1
      BY <1>1
    <3> HIDE DEF ins, outs, part
    <3>2. ins \in Seq(StackUse) /\ Range(ins) = part(1, fam.ins)
      BY <1>1, <3>1, StackUsesAre DEF ins, part
    <3>3. outs \in Seq(StackUse) /\ Range(outs) = part(fam.ins + 1, Len(c))
      BY <1>1, <3>1, StackUsesAre DEF outs, part
    <3> QED BY <3>2, <3>3
  <2> HIDE DEF ins, outs
  <2> QED BY <1>2, <2>1, SeqMonotonic
<1>6. called \in Seq(A) /\ Range(called) = CalledUse(calls)
  <2>1. /\ Len(calls) \in Nat /\ DOMAIN calls = 1..Len(calls)
        /\ \A i \in 1..Len(calls) : Use("Call", calls[i]) \in A
    <3>1. \A i \in 1..Len(calls) : Use("Call", calls[i]) \in CallUse
      BY DEF CallUse, Use
    <3> QED BY <1>2, <3>1
  <2> QED BY <2>1 DEF CalledUse, Range
<1>7. part(1, fam.ins) \cup part(fam.ins + 1, Len(c)) = PlacedUse(fam, c)
  <2>1. \A j : j \in 1..Values(fam) <=> j \in 1..fam.ins \/ j \in (fam.ins + 1)..Len(c)
    BY <1>1
  <2> QED BY <2>1, Zenon DEF PlacedUse, PartUse
<1>8. Uses(fam, c, calls) = holes \o ins \o called \o outs \o targets
  <2>1. Announced(fam)
    BY AnnouncedIs
  <2>2. holes = [h \in DOMAIN hole_names(fam) |-> Use("Hole", hole_names(fam)[h])]
    BY <2>1 DEF Announced
  <2>3. targets = NextUses(fam)
    BY <2>1, Zenon DEF Announced, jumps
  <2> QED BY <2>2, <2>3, Zenon DEF Uses
<1> HIDE DEF holes, ins, called, outs, targets, part
<1> DEFINE a == holes \o ins
           b == a \o called
           d == b \o outs
           e == d \o targets
<1> HIDE DEF a, b, d, e
<1>9. a \in Seq(A) /\ Range(a) = Range(holes) \cup Range(ins)
  BY <1>3, <1>5, RangeOfConcat DEF a
<1>10. b \in Seq(A) /\ Range(b) = Range(a) \cup Range(called)
  BY <1>6, <1>9, RangeOfConcat DEF b
<1>11. d \in Seq(A) /\ Range(d) = Range(b) \cup Range(outs)
  BY <1>5, <1>10, RangeOfConcat DEF d
<1>12. e \in Seq(A) /\ Range(e) = Range(d) \cup Range(targets)
  BY <1>4, <1>11, RangeOfConcat DEF e
<1>13. Uses(fam, c, calls) = e
  BY <1>8, Zenon DEF a, b, d, e
<1>14. Range(e) = HoleUse(fam) \cup part(1, fam.ins) \cup CalledUse(calls)
                    \cup part(fam.ins + 1, Len(c)) \cup TargetUse(fam)
  BY <1>3, <1>4, <1>5, <1>6, <1>9, <1>10, <1>11, <1>12, Zenon
<1>15. Range(e) = HoleUse(fam) \cup PlacedUse(fam, c) \cup CalledUse(calls) \cup TargetUse(fam)
  BY <1>7, <1>14
<1> QED BY <1>12, <1>13, <1>15 DEF UsesInv, A

-----------------------------------------------------------------------------

(* The relocation of a use, as extraction reads it.                        *)
RelocationOf(sym, use, offset, symbols, r) ==
    IF use.kind # "Call"
    THEN r = NewRelocation(sym, use, offset, use.kind, use.id)
    ELSE \E id \in 0..(Len(symbols) - 1) :
            symbols[id + 1] = use.id /\ r = NewRelocation(sym, use, offset, "Runtime", id)

(* The number of a use is below the number the metadata gives.             *)
LEMMA KindOfUse ==
    ASSUME NEW fam, NEW use \in AnyUse(fam)
    PROVE  \/ use.kind = "Hole" /\ use.id \in 0..(fam.holes - 1)
           \/ use.kind = "Stack" /\ use.id \in Nat
           \/ use.kind = "Call" /\ use.id \in STRING
           \/ use.kind = "Target" /\ use.id \in 0..(Metadata(fam).jumps - 1)
<1> QED BY DEF AnyUse, HoleUse, StackUse, CallUse, TargetUse

(* The narrow place of a hole.                                             *)
LEMMA NarrowIs ==
    ASSUME lib \in Libraries, NEW sym, SymbolOK(sym),
           NEW i \in 0..(Family(sym.name).holes - 1)
    PROVE  lib.narrow[sym.name][sym.placement][i + 1] \in PlaceShape
<1>1. /\ sym.name \in DOMAIN lib.families /\ sym.placement \in Placements(Family(sym.name))
      /\ Family(sym.name).holes \in Nat
  BY Families DEF SymbolOK, FamilyOK
<1>2. i + 1 \in 1..Family(sym.name).holes
  BY <1>1
<1>3. \A c \in Placements(Family(sym.name)), h \in 1..Family(sym.name).holes :
         lib.narrow[sym.name][c][h] \in PlaceShape
  BY <1>1, LibraryAssumption DEF Family
<1> QED BY <1>1, <1>2, <1>3

(* A relocation has the place of the hole it is for.                       *)
LEMMA NewRelocationIs ==
    ASSUME lib \in Libraries, NEW sym, SymbolOK(sym), NEW use \in AnyUse(Family(sym.name)),
           NEW offset \in Nat, NEW id \in Nat,
           NEW kind \in {"Hole", "Stack", "Target", "Runtime"}
    PROVE  /\ NewRelocation(sym, use, offset, kind, id) \in RelocationRec
           /\ NewRelocation(sym, use, offset, kind, id).offset = offset
           /\ NewRelocation(sym, use, offset, kind, id).kind = kind
           /\ NewRelocation(sym, use, offset, kind, id).id = id
<1> DEFINE place == Shape(sym, use)
           P == PlaceShape
<1>1. place \in P
  <2>1. CASE use.kind = "Hole" /\ ~ sym.wide
    <3>1. use.id \in 0..(Family(sym.name).holes - 1)
      BY <2>1, KindOfUse
    <3>2. lib.narrow[sym.name][sym.placement][use.id + 1] \in P
      BY <3>1, NarrowIs
    <3> QED BY <2>1, <3>2 DEF Shape
  <2>2. CASE use.kind = "Stack"
    BY <2>2, LibraryAssumption DEF Shape, PlaceShape
  <2>3. CASE ~ (use.kind = "Hole" /\ ~ sym.wide) /\ use.kind # "Stack"
    BY <2>3, LibraryAssumption DEF Shape, PlaceShape
  <2> QED BY <2>1, <2>2, <2>3
<1> HIDE DEF place
<1>2. NewRelocation(sym, use, offset, kind, id)
        = [kind |-> kind, id |-> id, offset |-> offset, encoding |-> place.encoding,
           relative |-> place.relative, size |-> place.size, addend |-> place.addend]
  BY DEF NewRelocation, place
<1> QED BY <1>1, <1>2 DEF RelocationRec, PlaceShape

(* The relocation of a use is of its kind and has its number.              *)
LEMMA RelocationIs ==
    ASSUME lib \in Libraries, NEW sym, SymbolOK(sym), NEW use \in AnyUse(Family(sym.name)),
           NEW o \in Nat, NEW symbols \in Seq(Allowed), NEW r,
           RelocationOf(sym, use, o, symbols, r)
    PROVE  /\ r \in RelocationRec /\ r.offset = o
           /\ use.kind # "Call" =>
                 /\ r.kind = use.kind /\ r.id = use.id
                 /\ r = NewRelocation(sym, use, o, use.kind, use.id)
           /\ use.kind = "Call" =>
                 /\ r.kind = "Runtime" /\ r.id \in 0..(Len(symbols) - 1)
                 /\ symbols[r.id + 1] = use.id
<1>1. CASE use.kind = "Call"
  <2>1. PICK id \in 0..(Len(symbols) - 1) :
           symbols[id + 1] = use.id /\ r = NewRelocation(sym, use, o, "Runtime", id)
    BY <1>1 DEF RelocationOf
  <2>2. id \in Nat
    OBVIOUS
  <2>3. r \in RelocationRec /\ r.offset = o /\ r.kind = "Runtime" /\ r.id = id
    BY <2>1, <2>2, NewRelocationIs
  <2> QED BY <1>1, <2>1, <2>3
<1>2. CASE use.kind # "Call"
  <2>1. r = NewRelocation(sym, use, o, use.kind, use.id)
    BY <1>2 DEF RelocationOf
  <2>2. use.kind \in {"Hole", "Stack", "Target"} /\ use.id \in Nat
    BY <1>2, KindOfUse
  <2>3. r \in RelocationRec /\ r.offset = o /\ r.kind = use.kind /\ r.id = use.id
    BY <2>1, <2>2, NewRelocationIs
  <2> QED BY <1>2, <2>1, <2>3
<1> QED BY <1>1, <1>2

(* The numbers of runtime symbols stay when more are given.                *)
LEMMA RelocationKept ==
    ASSUME NEW s \in Seq(Allowed), NEW t \in Seq(Allowed), Extends(s, t),
           NEW sym, NEW use, NEW offset, NEW r, RelocationOf(sym, use, offset, s, r)
    PROVE  RelocationOf(sym, use, offset, t, r)
<1>1. CASE use.kind # "Call"
  BY <1>1 DEF RelocationOf
<1>2. CASE use.kind = "Call"
  <2>1. PICK id \in 0..(Len(s) - 1) :
           s[id + 1] = use.id /\ r = NewRelocation(sym, use, offset, "Runtime", id)
    BY <1>2 DEF RelocationOf
  <2>2. id \in 0..(Len(t) - 1) /\ t[id + 1] = s[id + 1]
    <3>1. Len(s) \in Nat /\ Len(t) \in Nat /\ id + 1 \in 1..Len(s)
      OBVIOUS
    <3> QED BY <3>1 DEF Extends
  <2> QED BY <1>2, <2>1, <2>2 DEF RelocationOf
<1> QED BY <1>1, <1>2

(* A runtime symbol is given the number it has, or the next.               *)
LEMMA SymbolIdIs ==
    ASSUME NEW symbols \in Seq(Allowed), NEW name
    PROVE  IF Contains(symbols, name)
           THEN /\ SymbolId(symbols, name) \in 0..(Len(symbols) - 1)
                /\ symbols[SymbolId(symbols, name) + 1] = name
           ELSE SymbolId(symbols, name) = Len(symbols)
<1> DEFINE I == {i \in 1..Len(symbols) : symbols[i] = name}
           first == SelectInSeq(symbols, LAMBDA s : s = name)
<1>1. first = IF I # {} THEN Min(I) ELSE 0
  BY DEF SelectInSeq
<1>2. SymbolId(symbols, name) = IF first = 0 THEN Len(symbols) ELSE first - 1
  BY DEF SymbolId
<1> HIDE DEF first
<1>3. CASE Contains(symbols, name)
  <2>1. I # {} /\ I \in SUBSET Nat
    BY <1>3 DEF Contains
  <2>2. Min(I) \in I
    <3> HIDE DEF I
    <3> QED BY <2>1, MinIs
  <2>3. first \in 1..Len(symbols) /\ symbols[first] = name
    BY <1>1, <2>1, <2>2
  <2>4. SymbolId(symbols, name) = first - 1 /\ first - 1 \in 0..(Len(symbols) - 1)
        /\ (first - 1) + 1 = first
    BY <1>2, <2>3
  <2> QED BY <1>3, <2>3, <2>4
<1>4. CASE ~ Contains(symbols, name)
  <2>1. I = {}
    BY <1>4 DEF Contains
  <2> QED BY <1>1, <1>2, <1>4, <2>1
<1> QED BY <1>3, <1>4

(* What is read of a symbol, after the first n of its relocations.         *)
ReadOp(ctx, got, o) == ReadOne(ctx.sym, got, o, ctx.uses[o])

ReadInv(ctx, order, n, got) ==
    /\ got = [ok |-> got.ok, list |-> got.list, symbols |-> got.symbols]
    /\ got.ok \in BOOLEAN
    /\ got.list \in Seq(RelocationRec)
    /\ got.symbols \in Seq(Allowed) /\ Extends(ctx.symbols, got.symbols)
    /\ got.ok =>
          /\ Len(got.list) = n
          /\ \A i \in 1..n :
                RelocationOf(ctx.sym, ctx.uses[order[i]], order[i], got.symbols, got.list[i])

Reading == INSTANCE FoldTheorems WITH Op <- ReadOp, Inv <- ReadInv

(* The order in which an object file lists the relocations.                *)
OrderOf(uses, backwards) ==
    IF backwards THEN Reverse([i \in DOMAIN uses |-> i]) ELSE [i \in DOMAIN uses |-> i]

ReadNothing(symbols) == [ok |-> TRUE, list |-> <<>>, symbols |-> symbols]

(* Extraction reads relocations in a fold, in one of two orders.           *)
LEMMA ReadIsFold ==
    ASSUME NEW ctx, NEW backwards
    PROVE  Read(ctx.sym, ctx.uses, backwards)
             = Reading!Fold(ctx, ReadNothing(rt_symbols), OrderOf(ctx.uses, backwards))
<1> QED BY Zenon DEF Read, FoldLeft, MapThenFoldSet, Max, ReadOp, ReadNothing, OrderOf,
             Reading!Fold, Reading!Folded, Reading!Solves, Reading!Largest

(* One relocation is read.                                                 *)
LEMMA ReadStep ==
    ASSUME lib \in Libraries, NEW ctx, SymbolOK(ctx.sym),
           ctx.symbols \in Seq(Allowed), NEW order, NEW n \in Nat, n > 0,
           order[n] \in Nat, ctx.uses[order[n]] \in AnyUse(Family(ctx.sym.name)),
           NEW got, ReadInv(ctx, order, n - 1, got)
    PROVE  ReadInv(ctx, order, n, ReadOp(ctx, got, order[n]))
<1> DEFINE o == order[n]
           use == ctx.uses[o]
           sym == ctx.sym
           new == ReadOp(ctx, got, o)
<1>1. /\ got = [ok |-> got.ok, list |-> got.list, symbols |-> got.symbols]
      /\ got.ok \in BOOLEAN /\ got.list \in Seq(RelocationRec)
      /\ got.symbols \in Seq(Allowed) /\ Extends(ctx.symbols, got.symbols)
      /\ got.ok =>
            /\ Len(got.list) = n - 1
            /\ \A i \in 1..(n - 1) :
                  RelocationOf(sym, ctx.uses[order[i]], order[i], got.symbols, got.list[i])
  BY DEF ReadInv
<1>2. /\ SymbolOK(sym) /\ use \in AnyUse(Family(sym.name)) /\ o \in Nat
      /\ new = ReadOne(sym, got, o, use)
  BY DEF ReadOp
<1> HIDE DEF o, use, sym, new
<1>3. ASSUME new = [got EXCEPT !.ok = FALSE]
      PROVE  ReadInv(ctx, order, n, new)
  BY <1>1, <1>3 DEF ReadInv
<1>4. ASSUME ~ got.ok
      PROVE  ReadInv(ctx, order, n, new)
  <2>1. new = got
    BY <1>2, <1>4 DEF ReadOne
  <2> QED BY <1>1, <1>4, <2>1 DEF ReadInv
<1>5. ASSUME NEW symbols \in Seq(Allowed), Extends(got.symbols, symbols), got.ok,
             NEW r \in RelocationRec, RelocationOf(sym, use, o, symbols, r),
             new = [ok |-> got.ok, list |-> Append(got.list, r), symbols |-> symbols]
      PROVE  ReadInv(ctx, order, n, new)
  <2>1. Extends(ctx.symbols, symbols)
    BY <1>1, <1>5, ExtendsTrans
  <2>2. /\ Append(got.list, r) \in Seq(RelocationRec) /\ Len(Append(got.list, r)) = n
        /\ \A i \in 1..(n - 1) : Append(got.list, r)[i] = got.list[i]
        /\ Append(got.list, r)[n] = r
    BY <1>1, <1>5
  <2>3. \A i \in 1..n : i \in 1..(n - 1) \/ i = n
    OBVIOUS
  <2> DEFINE list == Append(got.list, r)
  <2> HIDE DEF list
  <2>4. \A i \in 1..n :
           RelocationOf(sym, ctx.uses[order[i]], order[i], symbols, list[i])
    <3>1. ASSUME NEW i \in 1..(n - 1)
          PROVE  RelocationOf(sym, ctx.uses[order[i]], order[i], symbols, list[i])
      <4>1. RelocationOf(sym, ctx.uses[order[i]], order[i], got.symbols, got.list[i])
        BY <1>1, <1>5
      <4>2. list[i] = got.list[i]
        BY <2>2 DEF list
      <4> QED BY <1>1, <1>5, <4>1, <4>2, RelocationKept
    <3>2. RelocationOf(sym, ctx.uses[order[n]], order[n], symbols, list[n])
      BY <1>5, <2>2 DEF list, o, use
    <3> QED BY <2>3, <3>1, <3>2
  <2>5. new.ok = got.ok /\ new.list = list /\ new.symbols = symbols
        /\ new = [ok |-> new.ok, list |-> new.list, symbols |-> new.symbols]
    BY <1>5 DEF list
  <2>6. list \in Seq(RelocationRec) /\ Len(list) = n
    BY <2>2 DEF list
  <2> QED BY <1>1, <1>5, <2>1, <2>4, <2>5, <2>6 DEF ReadInv, sym
<1>6. ASSUME got.ok, use.kind # "Call"
      PROVE  ReadInv(ctx, order, n, new)
  <2> DEFINE r == NewRelocation(sym, use, o, use.kind, use.id)
  <2>1. use.kind \in {"Hole", "Stack", "Target"} /\ use.id \in Nat
    BY <1>2, <1>6, KindOfUse
  <2>2. r \in RelocationRec
    BY <1>2, <2>1, NewRelocationIs
  <2>3. RelocationOf(sym, use, o, got.symbols, r)
    BY <1>6 DEF RelocationOf
  <2> HIDE DEF r
  <2>4. new = [got EXCEPT !.list = Append(got.list, r)]
    BY <1>2, <1>6 DEF ReadOne, r
  <2>5. new = [ok |-> got.ok, list |-> Append(got.list, r), symbols |-> got.symbols]
    BY <1>1, <2>4
  <2>6. Extends(got.symbols, got.symbols)
    BY <1>1 DEF Extends
  <2> QED BY <1>1, <1>5, <1>6, <2>2, <2>3, <2>5, <2>6
<1>7. ASSUME got.ok, use.kind = "Call", use.id \in Allowed, ~ (Len(got.symbols) >= MaxSymbols)
      PROVE  ReadInv(ctx, order, n, new)
  <2> DEFINE id == SymbolId(got.symbols, use.id)
             r == NewRelocation(sym, use, o, "Runtime", id)
             symbols == IF Contains(got.symbols, use.id) THEN got.symbols
                        ELSE Append(got.symbols, use.id)
  <2>1. new = [got EXCEPT !.list = Append(got.list, r), !.symbols = symbols]
    BY <1>2, <1>7 DEF ReadOne
  <2>2. /\ symbols \in Seq(Allowed) /\ Extends(got.symbols, symbols)
        /\ id \in 0..(Len(symbols) - 1) /\ symbols[id + 1] = use.id
    <3>1. CASE Contains(got.symbols, use.id)
      <4>1. id \in 0..(Len(got.symbols) - 1) /\ got.symbols[id + 1] = use.id
        BY <1>1, <3>1, SymbolIdIs
      <4> HIDE DEF id
      <4> QED BY <1>1, <3>1, <4>1 DEF Extends
    <3>2. CASE ~ Contains(got.symbols, use.id)
      <4>1. id = Len(got.symbols)
        BY <1>1, <3>2, SymbolIdIs
      <4>2. /\ Append(got.symbols, use.id) \in Seq(Allowed)
            /\ Len(Append(got.symbols, use.id)) = Len(got.symbols) + 1
            /\ Extends(got.symbols, Append(got.symbols, use.id))
            /\ Append(got.symbols, use.id)[Len(got.symbols) + 1] = use.id
        BY <1>1, <1>7, AppendExtends
      <4> HIDE DEF id
      <4> QED BY <1>1, <3>2, <4>1, <4>2
    <3> QED BY <3>1, <3>2
  <2> HIDE DEF id, symbols
  <2>3. id \in Nat
    BY <2>2
  <2>4. r \in RelocationRec
    BY <1>2, <2>3, NewRelocationIs
  <2>5. RelocationOf(sym, use, o, symbols, r)
    BY <1>7, <2>2 DEF RelocationOf
  <2> HIDE DEF r
  <2>6. new = [ok |-> got.ok, list |-> Append(got.list, r), symbols |-> symbols]
    BY <1>1, <2>1
  <2> QED BY <1>5, <1>7, <2>2, <2>4, <2>5, <2>6
<1>8. ASSUME got.ok, use.kind = "Call", use.id \notin Allowed \/ Len(got.symbols) >= MaxSymbols
      PROVE  new = [got EXCEPT !.ok = FALSE]
  BY <1>2, <1>8 DEF ReadOne
<1> QED BY <1>3, <1>4, <1>6, <1>7, <1>8 DEF new, o

(* The list of a function's own places, by their offsets.                  *)
ListOf(sym, uses, symbols, list) ==
    /\ list \in Seq(RelocationRec)
    /\ Len(list) = Len(uses)
    /\ \A o \in 1..Len(uses) : RelocationOf(sym, uses[o], o, symbols, list[o])

(* Forwards or backwards, every relocation is read once.                   *)
LEMMA OrderIs ==
    ASSUME NEW S, NEW uses \in Seq(S), NEW backwards \in BOOLEAN
    PROVE  /\ DOMAIN OrderOf(uses, backwards) = 1..Len(uses)
           /\ \A i \in 1..Len(uses) :
                 /\ OrderOf(uses, backwards)[i] \in 1..Len(uses)
                 /\ OrderOf(uses, backwards)[OrderOf(uses, backwards)[i]] = i
<1> DEFINE N == Len(uses)
           id == [i \in DOMAIN uses |-> i]
           back == Reverse(id)
<1>1. N \in Nat /\ DOMAIN uses = 1..N
  BY ElementsOf
<1>2. Len(id) = N /\ \A i \in 1..N : id[i] = i
  BY <1>1
<1>3. back = [i \in 1..N |-> N - i + 1]
  <2>1. back = [i \in 1..N |-> id[(N - i) + 1]]
    BY <1>2 DEF Reverse
  <2>2. \A i \in 1..N : (N - i) + 1 \in 1..N
    BY <1>1
  <2> QED BY <1>2, <2>1, <2>2
<1>4. /\ DOMAIN back = 1..N /\ \A i \in 1..N : back[i] \in 1..N /\ back[back[i]] = i
  BY <1>1, <1>3
<1>5. /\ DOMAIN id = 1..N /\ \A i \in 1..N : id[i] \in 1..N /\ id[id[i]] = i
  BY <1>1
<1>6. OrderOf(uses, backwards) = back \/ OrderOf(uses, backwards) = id
  BY DEF OrderOf
<1> HIDE DEF back, id
<1> QED BY <1>4, <1>5, <1>6

(* A symbol is read to a list that has one relocation for each use, at the *)
(* place of the use.                                                       *)
LEMMA ReadIs ==
    ASSUME lib \in Libraries, NEW sym, SymbolOK(sym),
           NEW uses \in Seq(AnyUse(Family(sym.name))), rt_symbols \in Seq(Allowed),
           NEW backwards \in BOOLEAN, NEW got, got = Read(sym, uses, backwards)
    PROVE  /\ got.ok \in BOOLEAN
           /\ got.symbols \in Seq(Allowed) /\ Extends(rt_symbols, got.symbols)
           /\ got.ok => ListOf(sym, uses, got.symbols, Sorted(got.list))
<1> DEFINE N == Len(uses)
           ctx == [sym |-> sym, uses |-> uses, symbols |-> rt_symbols]
           order == OrderOf(uses, backwards)
           base == ReadNothing(rt_symbols)
<1>1. /\ N \in Nat /\ \A o \in 1..N : uses[o] \in AnyUse(Family(sym.name))
      /\ DOMAIN order = 1..N
      /\ \A i \in 1..N : order[i] \in 1..N /\ order[order[i]] = i
  BY OrderIs, ElementsOf
<1>2. ctx.sym = sym /\ ctx.uses = uses /\ ctx.symbols = rt_symbols
  OBVIOUS
<1> HIDE DEF ctx, order, N
<1>3. ReadInv(ctx, order, 0, base)
  <2>1. base = [ok |-> TRUE, list |-> <<>>, symbols |-> rt_symbols]
    BY DEF ReadNothing
  <2>2. Extends(rt_symbols, rt_symbols)
    BY DEF Extends
  <2>3. <<>> \in Seq(RelocationRec) /\ Len(<<>>) = 0
    OBVIOUS
  <2> HIDE DEF base
  <2> QED BY <1>2, <2>1, <2>2, <2>3 DEF ReadInv
<1>4. ASSUME NEW n \in 1..N, NEW v, ReadInv(ctx, order, n - 1, v)
      PROVE  ReadInv(ctx, order, n, ReadOp(ctx, v, order[n]))
  <2>1. /\ n \in Nat /\ n > 0 /\ order[n] \in Nat
        /\ ctx.uses[order[n]] \in AnyUse(Family(ctx.sym.name))
    BY <1>1, <1>2
  <2> QED BY <1>2, <1>4, <2>1, ReadStep
<1>5. ReadInv(ctx, order, N, Reading!Fold(ctx, base, order))
  BY <1>1, <1>3, <1>4, Reading!FoldInduction
<1>6. got = Reading!Fold(ctx, base, order)
  BY <1>2, ReadIsFold, Zenon DEF order
<1>7. /\ got.ok \in BOOLEAN /\ got.list \in Seq(RelocationRec)
      /\ got.symbols \in Seq(Allowed) /\ Extends(rt_symbols, got.symbols)
      /\ got.ok =>
            /\ Len(got.list) = N
            /\ \A i \in 1..N : RelocationOf(sym, uses[order[i]], order[i], got.symbols, got.list[i])
  BY <1>2, <1>5, <1>6 DEF ReadInv
<1>8. ASSUME got.ok
      PROVE  ListOf(sym, uses, got.symbols, Sorted(got.list))
  <2> DEFINE list == got.list
             at == [n \in 1..N |-> list[order[n]]]
  <2>1. /\ list \in Seq(RelocationRec) /\ Len(list) = N /\ DOMAIN list = 1..N
        /\ \A i \in 1..N : list[i] \in RelocationRec
        /\ \A i \in 1..N : RelocationOf(sym, uses[order[i]], order[i], got.symbols, list[i])
    BY <1>7, <1>8, ElementsOf
  <2> HIDE DEF list
  <2>2. ASSUME NEW i \in 1..N
        PROVE  list[i].offset = order[i]
    <3>1. /\ RelocationOf(sym, uses[order[i]], order[i], got.symbols, list[i])
          /\ order[i] \in 1..N /\ order[i] \in Nat /\ uses[order[i]] \in AnyUse(Family(sym.name))
      BY <1>1, <2>1
    <3> DEFINE o == order[i]
               use == uses[o]
               r == list[i]
               symbols == got.symbols
    <3>2. /\ RelocationOf(sym, use, o, symbols, r) /\ symbols \in Seq(Allowed)
          /\ o \in Nat /\ use \in AnyUse(Family(sym.name))
      BY <1>7, <3>1
    <3> HIDE DEF o, use, r, symbols
    <3>3. r.offset = o
      BY <3>2, RelocationIs
    <3> QED BY <3>3 DEF r, o
  <2>3. /\ \A n \in 1..N : at[n] = list[order[n]] /\ at[n] \in Range(list) /\ at[n].offset = n
        /\ \A i \in 1..N : list[i].offset \in 1..N /\ list[i] = at[list[i].offset]
    <3>1. \A i \in 1..N : list[i] \in Range(list)
      BY <2>1 DEF Range
    <3> QED BY <1>1, <2>2, <3>1
  <2> HIDE DEF at
  <2>4. Sorted(list) = [k \in 1..N |-> at[k]]
    <3>1. N \in Nat /\ DOMAIN list = 1..N
      BY <1>1, <2>1
    <3>2. \A n \in 1..N : at[n] \in Range(list) /\ at[n].offset = n
      BY <2>3
    <3>3. \A i \in 1..N : list[i].offset \in 1..N /\ list[i] = at[list[i].offset]
      BY <2>3
    <3>4. Sorted(list) = AtOffsets(at, N)
      BY <3>1, <3>2, <3>3, SortedIs, Zenon
    <3> QED BY <3>4 DEF AtOffsets
  <2>5. Sorted(list) \in Seq(RelocationRec) /\ Len(Sorted(list)) = N
    <3>1. \A k \in 1..N : at[k] \in RelocationRec
      BY <1>1, <2>1, <2>3
    <3> QED BY <1>1, <2>4, <3>1
  <2>6. \A o \in 1..N : RelocationOf(sym, uses[o], o, got.symbols, Sorted(list)[o])
    <3> SUFFICES ASSUME NEW o \in 1..N
                 PROVE  RelocationOf(sym, uses[o], o, got.symbols, Sorted(list)[o])
      OBVIOUS
    <3>1. order[o] \in 1..N /\ order[order[o]] = o
      BY <1>1
    <3>2. RelocationOf(sym, uses[order[order[o]]], order[order[o]], got.symbols, list[order[o]])
      BY <2>1, <3>1
    <3>3. Sorted(list)[o] = list[order[o]]
      BY <2>3, <2>4
    <3> QED BY <3>1, <3>2, <3>3
  <2> QED BY <2>5, <2>6 DEF ListOf, N, list
<1> QED BY <1>7, <1>8

-----------------------------------------------------------------------------

(* What extraction has made of the object files it read.                   *)
Symbols ==
    {sym \in [name : DOMAIN lib.families,
              placement : UNION {Placements(Family(n)) : n \in DOMAIN lib.families},
              wide : BOOLEAN] : SymbolOK(sym)}

Callings == {<<>>} \cup lib.calls

Cells == Symbols \X Nat

UsesOf(sym, calls) == Uses(Family(sym.name), sym.placement, calls)

(* A list of some function of a family, one of those in S.                 *)
Listed(S, n, symbols, list) ==
    \E sym \in S, calls \in Callings :
        sym.name = n /\ ListOf(sym, UsesOf(sym, calls), symbols, list)

TableInv(n, b) ==
    /\ IsBuilder(b) /\ PoolOK(b)
    /\ b.meta = Metadata(Family(n)) /\ Family(n).regs = max_regs
    /\ DOMAIN b.stencils = 0..(Entries(Family(n)) - 1)
    /\ Len(b.relocation_data) > 0 /\ Last(b.relocation_data) = Invalid
    /\ \E list \in DOMAIN b.existing : b.existing[list] = 0
    /\ \A list \in DOMAIN b.existing : Listed(DOMAIN compiled, n, rt_symbols, list)
    /\ \A i \in DOMAIN b.stencils :
          \/ b.stencils[i] = Default
          \/ \E sym \in DOMAIN compiled : sym.name = n /\ IndexOf(sym) = i

(* The code and the list of a stencil are where its entry says.            *)
CodeAt(code, entry, sym, uses) ==
    /\ entry.code_index \in Nat /\ entry.code_len = Len(uses) + 1
    /\ entry.code_index + entry.code_len <= Len(code)
    /\ \A i \in 1..(Len(uses) + 1) : code[entry.code_index + i] = <<sym, i>>

ListIn(b, entry, sym, uses, symbols) ==
    /\ entry.relocation_index <= MaxIndex
    /\ \E list \in DOMAIN b.existing :
          b.existing[list] = entry.relocation_index /\ ListOf(sym, uses, symbols, list)

StencilInv(sym, uses) ==
    /\ SymbolOK(sym)
    /\ sym.name \in DOMAIN builders
    /\ \E calls \in Callings : uses = UsesOf(sym, calls)
    /\ CodeAt(all_code, builders[sym.name].stencils[IndexOf(sym)], sym, uses)
    /\ ListIn(builders[sym.name], builders[sym.name].stencils[IndexOf(sym)], sym, uses,
              rt_symbols)

TablesInv ==
    /\ tables.code = all_code
    /\ tables.rt_symbols = rt_symbols
    /\ tables.families = [n \in DOMAIN builders \ {"__empty"} |-> builders[n]]

ExtractInv ==
    /\ pending \in Seq(Symbols)
    /\ rt_symbols \in Seq(Allowed)
    /\ all_code \in Seq(Cells)
    /\ odd \in 0..MaxOdd
    /\ error # "mismatch"
    /\ DOMAIN builders \subseteq DOMAIN lib.families
    /\ \A n \in DOMAIN builders : TableInv(n, builders[n])
    /\ \A sym \in DOMAIN compiled : StencilInv(sym, compiled[sym])
    /\ phase = "library" => TablesInv

(* The symbols an object file can have.                                    *)
LEMMA SymbolSet ==
    \A sym : sym \in Symbols <=> SymbolOK(sym)
<1> SUFFICES ASSUME NEW sym, SymbolOK(sym) PROVE sym \in Symbols
  BY DEF Symbols
<1>1. /\ sym.name \in DOMAIN lib.families /\ sym.wide \in BOOLEAN
      /\ sym.placement \in Placements(Family(sym.name))
      /\ sym = [name |-> sym.name, placement |-> sym.placement, wide |-> sym.wide]
  BY DEF SymbolOK, Symbol
<1>2. sym.placement \in UNION {Placements(Family(n)) : n \in DOMAIN lib.families}
  BY <1>1
<1> QED BY <1>1, <1>2 DEF Symbols

(* The symbols the macro writes for a placement.                           *)
LEMMA SymbolsOfAre ==
    ASSUME NEW n \in DOMAIN lib.families, NEW c \in Placements(Family(n)),
           Family(n).holes \in Nat
    PROVE  SymbolsOf(n, Family(n), c) \in Seq(Symbols)
<1>1. Symbol(n, c, FALSE) \in Symbols
  BY SymbolSet DEF SymbolOK, Symbol
<1>2. ASSUME Family(n).holes # 0
      PROVE  Symbol(n, c, TRUE) \in Symbols
  <2> DEFINE s == Symbol(n, c, TRUE)
  <2>1. s.name = n /\ s.placement = c /\ s.wide = TRUE
    BY DEF Symbol
  <2>2. Family(n).holes > 0
    BY <1>2
  <2>3. s = Symbol(s.name, s.placement, s.wide)
    BY <2>1, Zenon
  <2> HIDE DEF s
  <2>4. SymbolOK(s)
    BY <2>1, <2>2, <2>3 DEF SymbolOK
  <2> QED BY <2>4, SymbolSet DEF s
<1> DEFINE narrow == Symbol(n, c, FALSE)
           wide == Symbol(n, c, TRUE)
<1>3. SymbolsOf(n, Family(n), c) = IF Family(n).holes = 0 THEN <<narrow>> ELSE <<narrow, wide>>
  BY DEF SymbolsOf
<1>4. narrow \in Symbols /\ (Family(n).holes # 0 => wide \in Symbols)
  BY <1>1, <1>2, Zenon
<1> HIDE DEF narrow, wide
<1> QED BY <1>3, <1>4

(* A symbol that was read is pending no more.                              *)
LEMMA WithoutOne ==
    ASSUME NEW S, NEW s \in Seq(S), NEW k \in 1..Len(s)
    PROVE  RemoveAt(s, k) \in Seq(S)
<1>1. /\ Len(s) \in Nat /\ k - 1 \in 0..Len(s) /\ k - 1 <= Len(s)
      /\ k + 1 \in 1..(Len(s) + 1)
  OBVIOUS
<1>2. SubSeq(s, 1, k - 1) \in Seq(S) /\ SubSeq(s, k + 1, Len(s)) \in Seq(S)
  BY <1>1
<1> DEFINE a == SubSeq(s, 1, k - 1)
           b == SubSeq(s, k + 1, Len(s))
<1>3. RemoveAt(s, k) = a \o b
  BY DEF RemoveAt
<1> HIDE DEF a, b
<1>4. a \in Seq(S) /\ b \in Seq(S)
  BY <1>2 DEF a, b
<1> QED BY <1>3, <1>4, ConcatExtends

(* The uses that a compiled symbol can have.                               *)
LEMMA UsesTyped ==
    ASSUME lib \in Libraries, NEW sym, SymbolOK(sym), NEW calls \in Callings
    PROVE  /\ UsesOf(sym, calls) \in Seq(AnyUse(Family(sym.name)))
           /\ Range(UsesOf(sym, calls))
                = HoleUse(Family(sym.name)) \cup PlacedUse(Family(sym.name), sym.placement)
                    \cup CalledUse(calls) \cup TargetUse(Family(sym.name))
<1>1. calls \in Seq(STRING)
  <2>1. lib.calls \subseteq Seq(STRING)
    BY LibraryAssumption
  <2>2. <<>> \in Seq(STRING)
    OBVIOUS
  <2> QED BY <2>1, <2>2 DEF Callings
<1>2. FamilyOK(Family(sym.name)) /\ sym.placement \in Placements(Family(sym.name))
  BY Families DEF SymbolOK
<1> QED BY <1>1, <1>2, UsesAre DEF UsesOf, UsesInv

(* No list of a function's places is of more than its family has.          *)
LEMMA NeedsFew ==
    ASSUME NEW list, NEW kind, NEW bound \in Nat,
           \A r \in Range(list) : r.kind = kind => r.id \in 0..(bound - 1)
    PROVE  Needs(list, kind) \in Nat /\ Needs(list, kind) <= bound
<1> DEFINE S == {0} \cup {r.id + 1 : r \in {q \in Range(list) : q.kind = kind}}
<1>1. S \in SUBSET Nat /\ S # {} /\ \A n \in S : n <= bound
  OBVIOUS
<1>2. Needs(list, kind) = Max(S)
  BY DEF Needs
<1> HIDE DEF S
<1>3. Max(S) \in S
  BY <1>1, MaxIs
<1> QED BY <1>1, <1>2, <1>3

(* What was read never contradicts the metadata.                           *)
LEMMA NoMismatch ==
    ASSUME lib \in Libraries, NEW sym, SymbolOK(sym), NEW calls \in Callings,
           NEW symbols \in Seq(Allowed), NEW list,
           ListOf(sym, UsesOf(sym, calls), symbols, list),
           \A n \in DOMAIN builders : builders[n].meta = Metadata(Family(n))
    PROVE  ~ FamilyMismatch(sym, list)
<1> DEFINE fam == Family(sym.name)
           meta == Builder(sym.name).meta
           uses == UsesOf(sym, calls)
<1>1. meta = Metadata(fam)
  BY DEF Builder, NewBuilder
<1>2. /\ fam.ins \in Nat /\ fam.holes \in Nat /\ fam.targets \in Nat
      /\ fam.kind \in {"next", "targets", "returns", "trampoline"}
      /\ Values(fam) = fam.ins + PlacedOuts(fam) /\ PlacedOuts(fam) \in Nat
  BY Families DEF SymbolOK, FamilyOK, Values
<1>3. /\ meta.inputs = fam.ins /\ meta.outputs = PlacedOuts(fam) /\ meta.holes = fam.holes
      /\ meta.jumps = Metadata(fam).jumps /\ meta.jumps \in Nat
  <2>1. FamilyOK(fam)
    BY Families DEF SymbolOK
  <2> QED BY <1>1, <1>2, <2>1, AnnouncedIs DEF Announced, Metadata, PlacedOuts
<1>4. Len(sym.placement) = Values(fam)
  BY <1>2, Families, PlacementIs DEF SymbolOK
<1>5. uses \in Seq(AnyUse(fam))
  BY UsesTyped
<1>6. ASSUME NEW r \in Range(list)
      PROVE  /\ r.kind = "Hole" => r.id \in 0..(fam.holes - 1)
             /\ r.kind = "Target" => r.id \in 0..(meta.jumps - 1)
  <2>1. PICK o \in 1..Len(uses) : r = list[o]
    BY ValuesOf DEF ListOf
  <2>2. uses[o] \in AnyUse(fam) /\ o \in Nat /\ RelocationOf(sym, uses[o], o, symbols, r)
    BY <1>5, <2>1, ElementsOf DEF ListOf
  <2>3. /\ uses[o].kind # "Call" => r.kind = uses[o].kind /\ r.id = uses[o].id
        /\ uses[o].kind = "Call" => r.kind = "Runtime"
    BY <2>2, RelocationIs
  <2> QED BY <1>3, <2>2, <2>3, KindOfUse
<1>7. Needs(list, "Hole") \in Nat /\ Needs(list, "Hole") <= fam.holes
  BY <1>2, <1>6, NeedsFew
<1>8. Needs(list, "Target") \in Nat /\ Needs(list, "Target") <= meta.jumps
  BY <1>3, <1>6, NeedsFew
<1> HIDE DEF fam, uses, meta
<1>9. meta.inputs = fam.ins /\ meta.outputs = Len(sym.placement) - fam.ins
  BY <1>2, <1>3, <1>4
<1>10. ~ (meta.holes < Needs(list, "Hole")) /\ ~ (meta.jumps < Needs(list, "Target"))
  BY <1>2, <1>3, <1>7, <1>8
<1> QED BY <1>9, <1>10 DEF FamilyMismatch, meta, fam

(* What depends on the library alone does not change.                      *)
LEMMA SameLibrary ==
    ASSUME UNCHANGED lib
    PROVE  /\ \A n : Family(n)' = Family(n)
           /\ \A s : SymbolOK(s)' <=> SymbolOK(s)
           /\ \A s : IndexOf(s)' = IndexOf(s)
           /\ \A s, calls : UsesOf(s, calls)' = UsesOf(s, calls)
           /\ Symbols' = Symbols /\ Callings' = Callings /\ Cells' = Cells
           /\ \A s, uses, symbols, list :
                 ListOf(s, uses, symbols, list)' <=> ListOf(s, uses, symbols, list)
           /\ \A S, n, symbols, list :
                 Listed(S, n, symbols, list)' <=> Listed(S, n, symbols, list)
<1>1. \A n : Family(n)' = Family(n)
  BY DEF Family
<1>2. \A s : SymbolOK(s)' <=> SymbolOK(s)
  BY <1>1 DEF SymbolOK
<1>3. \A s : IndexOf(s)' = IndexOf(s)
  BY <1>1 DEF IndexOf
<1>4. \A s, calls : UsesOf(s, calls)' = UsesOf(s, calls)
  BY <1>1 DEF UsesOf
<1>5. Symbols' = Symbols
  BY <1>1, <1>2 DEF Symbols
<1>6. Callings' = Callings /\ Cells' = Cells
  BY <1>5 DEF Callings, Cells
<1>7. \A s, use, o, kind, id :
         NewRelocation(s, use, o, kind, id)' = NewRelocation(s, use, o, kind, id)
  BY DEF NewRelocation, Shape
<1>8. \A s, use, o, symbols, r :
         RelocationOf(s, use, o, symbols, r)' <=> RelocationOf(s, use, o, symbols, r)
  BY <1>7 DEF RelocationOf
<1>9. \A s, uses, symbols, list :
         ListOf(s, uses, symbols, list)' <=> ListOf(s, uses, symbols, list)
  BY <1>8 DEF ListOf
<1>10. \A S, n, symbols, list :
          Listed(S, n, symbols, list)' <=> Listed(S, n, symbols, list)
  BY <1>4, <1>5, <1>6, <1>9 DEF Listed
<1> QED BY <1>1, <1>2, <1>3, <1>4, <1>5, <1>6, <1>9, <1>10

(* Lists are still right when there are more runtime symbols.              *)
LEMMA ListKept ==
    ASSUME NEW s \in Seq(Allowed), NEW t \in Seq(Allowed), Extends(s, t),
           NEW sym, NEW uses, NEW list, ListOf(sym, uses, s, list)
    PROVE  ListOf(sym, uses, t, list)
<1> QED BY RelocationKept DEF ListOf

LEMMA ListedKept ==
    ASSUME NEW s \in Seq(Allowed), NEW t \in Seq(Allowed), Extends(s, t),
           NEW S, NEW T, S \subseteq T, NEW n, NEW list, Listed(S, n, s, list)
    PROVE  Listed(T, n, t, list)
<1>1. PICK sym \in S, calls \in Callings :
         sym.name = n /\ ListOf(sym, UsesOf(sym, calls), s, list)
  BY DEF Listed
<1>2. sym \in T /\ ListOf(sym, UsesOf(sym, calls), t, list)
  BY <1>1, ListKept
<1> QED BY <1>1, <1>2 DEF Listed

(* A symbol that is read, and what was read of it.                         *)
ReadOK(sym, calls, uses, got) ==
    /\ sym \in Symbols /\ calls \in Callings /\ uses = UsesOf(sym, calls)
    /\ got.symbols \in Seq(Allowed) /\ Extends(rt_symbols, got.symbols)
    /\ got.ok => /\ ListOf(sym, uses, got.symbols, Sorted(got.list))
                 /\ ~ FamilyMismatch(sym, Sorted(got.list))

(* What a turn of the loop reads is a list for a symbol that is pending.   *)
LEMMA ReadsWell ==
    ASSUME lib \in Libraries, ExtractInv,
           NEW k, NEW calls, NEW backwards, NEW uses, NEW got,
           Reads(k, calls, backwards, uses, got)
    PROVE  k \in 1..Len(pending) /\ ReadOK(pending[k], calls, uses, got)
<1> DEFINE sym == pending[k]
<1>1. /\ calls \in Callings /\ backwards \in BOOLEAN
      /\ uses = UsesOf(sym, calls) /\ got = Read(sym, uses, backwards)
      /\ k \in 1..Min({Window, Len(pending)})
  BY DEF Reads, Callings, UsesOf
<1>2. pending \in Seq(Symbols) /\ rt_symbols \in Seq(Allowed)
  BY DEF ExtractInv
<1>3. k \in 1..Len(pending)
  <2> DEFINE S == {Window, Len(pending)}
  <2>1. Window \in Nat /\ Len(pending) \in Nat
    BY <1>2, LibraryAssumption
  <2>2. S \in SUBSET Nat /\ S # {} /\ Len(pending) \in S
    BY <2>1
  <2> HIDE DEF S
  <2>3. Min(S) \in Nat /\ Min(S) <= Len(pending)
    BY <2>2, MinIs
  <2> QED BY <1>1, <2>1, <2>3 DEF S
<1>4. sym \in Symbols /\ SymbolOK(sym)
  BY <1>2, <1>3, ElementsOf, SymbolSet
<1> HIDE DEF sym
<1>5. uses \in Seq(AnyUse(Family(sym.name)))
  BY <1>1, <1>4, UsesTyped
<1>6. /\ got.symbols \in Seq(Allowed) /\ Extends(rt_symbols, got.symbols)
      /\ got.ok => ListOf(sym, uses, got.symbols, Sorted(got.list))
  BY <1>1, <1>2, <1>4, <1>5, ReadIs
<1>7. \A n \in DOMAIN builders : builders[n].meta = Metadata(Family(n))
  BY DEF ExtractInv, TableInv
<1>8. got.ok => ~ FamilyMismatch(sym, Sorted(got.list))
  BY <1>1, <1>4, <1>6, <1>7, NoMismatch
<1> QED BY <1>1, <1>3, <1>4, <1>6, <1>8 DEF ReadOK, sym

(* The table that a symbol is added to, before that.                       *)
TableBefore(n, b) ==
    /\ IsBuilder(b) /\ PoolOK(b)
    /\ b.meta = Metadata(Family(n))
    /\ DOMAIN b.stencils = 0..(Entries(Family(n)) - 1)
    /\ Len(b.relocation_data) > 0 => Last(b.relocation_data) = Invalid
    /\ b.relocation_data = <<>> \/ \E list \in DOMAIN b.existing : b.existing[list] = 0
    /\ \A list \in DOMAIN b.existing : Listed(DOMAIN compiled, n, rt_symbols, list)
    /\ \A i \in DOMAIN b.stencils :
          \/ b.stencils[i] = Default
          \/ \E sym \in DOMAIN compiled : sym.name = n /\ IndexOf(sym) = i

(* The table of a family, before a stencil is added to it.                 *)
LEMMA BuilderIs ==
    ASSUME lib \in Libraries, ExtractInv, NEW n \in DOMAIN lib.families
    PROVE  TableBefore(n, Builder(n))
<1>1. CASE n \in DOMAIN builders
  <2>1. TableInv(n, builders[n]) /\ Builder(n) = builders[n]
    BY <1>1 DEF ExtractInv, Builder
  <2> QED BY <2>1 DEF TableInv, TableBefore
<1>2. CASE n \notin DOMAIN builders
  <2> DEFINE b == Builder(n)
             fam == Family(n)
             len == Entries(fam)
             meta == Metadata(fam)
             table == [i \in 0..(len - 1) |-> Default]
  <2>1. meta.holes = fam.holes
    <3>1. Announced(fam)
      BY Families, AnnouncedIs
    <3> QED BY <3>1, Zenon DEF Announced
  <2>2. b = [meta |-> meta, stencils |-> table, relocation_data |-> <<>>, existing |-> <<>>]
    BY <1>2, <2>1 DEF Builder, NewBuilder, Entries
  <2> HIDE DEF b, len, meta, fam
  <2>3. /\ DOMAIN table = 0..(len - 1) /\ \A i \in DOMAIN table : table[i] = Default
    OBVIOUS
  <2> HIDE DEF table
  <2>4. /\ b.meta = meta /\ b.stencils = table /\ b.relocation_data = <<>> /\ b.existing = <<>>
        /\ IsBuilder(b)
    BY <2>2 DEF IsBuilder
  <2>5. DOMAIN b.existing = {} /\ b.relocation_data \in Pool /\ Len(b.relocation_data) = 0
    BY <2>4 DEF Pool
  <2>6. PoolOK(b)
    BY <2>5 DEF PoolOK
  <2> QED BY <2>3, <2>4, <2>5, <2>6 DEF TableBefore, b, len, meta, fam
<1> QED BY <1>1, <1>2

(* The code of a symbol.                                                   *)
LEMMA CodeIs ==
    ASSUME NEW sym \in Symbols, NEW S, NEW uses \in Seq(S)
    PROVE  /\ Code(sym, uses) \in Seq(Cells) /\ Len(Code(sym, uses)) = Len(uses) + 1
           /\ \A i \in 1..(Len(uses) + 1) : Code(sym, uses)[i] = <<sym, i>>
<1>1. Len(uses) \in Nat
  OBVIOUS
<1>2. \A i \in 1..(Len(uses) + 1) : <<sym, i>> \in Cells
  BY <1>1 DEF Cells
<1> QED BY <1>1, <1>2 DEF Code

(* Extraction reaches add_stencil for no fault.                            *)
LEMMA NoFault ==
    ASSUME NEW sym, NEW list, Fault(sym, list) = "none", ~ FamilyMismatch(sym, list)
    PROVE  ~ WrongRegs(sym) /\ ~ TooLarge(sym, list)
<1>1. CASE WrongRegs(sym)
  <2>1. Fault(sym, list) = "max_regs"
    BY <1>1 DEF Fault
  <2> QED BY <2>1
<1>2. CASE ~ WrongRegs(sym)
  <2>1. Fault(sym, list) = IF TooLarge(sym, list) THEN "too large" ELSE "none"
    BY <1>2 DEF Fault
  <2> QED BY <1>2, <2>1
<1> QED BY <1>1, <1>2

(* A family is not refused for its metadata.                               *)
LEMMA NoMismatchFault ==
    ASSUME NEW sym, NEW list, ~ FamilyMismatch(sym, list)
    PROVE  Fault(sym, list) # "mismatch"
<1>1. CASE WrongRegs(sym)
  <2>1. Fault(sym, list) = "max_regs"
    BY <1>1 DEF Fault
  <2> QED BY <2>1
<1>2. CASE ~ WrongRegs(sym)
  <2>1. Fault(sym, list) = IF TooLarge(sym, list) THEN "too large" ELSE "none"
    BY <1>2 DEF Fault
  <2> QED BY <2>1
<1> QED BY <1>1, <1>2

(* The entry, the pool and the table of a stencil that is added.           *)
Added(sym, uses, got, list, p, entry, q) ==
    /\ Grown(Builder(sym.name), p, list)
    /\ ListOf(sym, uses, got.symbols, list)
    /\ list \in DOMAIN p.existing
    /\ entry = [code_index |-> Len(all_code), code_len |-> Len(uses) + 1,
                relocation_index |-> p.existing[list]]
    /\ p.existing[list] <= MaxIndex
    /\ q = [p EXCEPT !.stencils = [@ EXCEPT ![IndexOf(sym)] = entry]]
    /\ builders' = Put(builders, sym.name, q)
    /\ all_code' = all_code \o Code(sym, uses)
    /\ rt_symbols' = got.symbols
    /\ max_regs' = Family(sym.name).regs
    /\ compiled' = Put(compiled, sym, uses)
    /\ \A n \in DOMAIN builders : Family(n).regs = Family(sym.name).regs

(* add_stencil adds code at the end, a list to the pool, and an entry.     *)
LEMMA ExtractAdds ==
    ASSUME lib \in Libraries, ExtractInv, NEW k, NEW calls, NEW uses, NEW got,
           ReadOK(pending[k], calls, uses, got), Extract(k, uses, got)
    PROVE  \E list, p, entry, q : Added(pending[k], uses, got, list, p, entry, q)
<1> DEFINE sym == pending[k]
           list == Sorted(got.list)
           b == Builder(sym.name)
           p == Pooled(b, list)
           entry == [code_index |-> Len(all_code), code_len |-> Len(uses) + 1,
                     relocation_index |-> p.existing[list]]
           q == [p EXCEPT !.stencils = [@ EXCEPT ![IndexOf(sym)] = entry]]
<1>1. /\ sym \in Symbols /\ SymbolOK(sym) /\ calls \in Callings /\ uses = UsesOf(sym, calls)
      /\ got.ok /\ ListOf(sym, uses, got.symbols, list) /\ ~ FamilyMismatch(sym, list)
      /\ Fault(sym, list) = "none"
  BY SymbolSet DEF ReadOK, Extract
<1>2. ~ WrongRegs(sym) /\ ~ TooLarge(sym, list)
  <2> HIDE DEF sym, list
  <2> QED BY <1>1, NoFault
<1>3. sym.name \in DOMAIN lib.families /\ uses \in Seq(AnyUse(Family(sym.name)))
  <2> HIDE DEF sym
  <2> QED BY <1>1, UsesTyped DEF SymbolOK
<1>4. TableBefore(sym.name, b)
  <2> HIDE DEF sym
  <2> QED BY <1>3, BuilderIs
<1>5. Grown(b, p, list)
  <2> HIDE DEF b
  <2>1. list \in Seq(RelocationRec)
    BY <1>1 DEF ListOf
  <2> HIDE DEF list
  <2> QED BY <1>4, <2>1, PooledGrows DEF TableBefore
<1>6. list \in DOMAIN p.existing
  <2> HIDE DEF b, p, list
  <2> QED BY <1>5 DEF Grown
<1>7. p.existing[list] <= MaxIndex
  <2>1. ~ (p.existing[list] > MaxIndex)
    BY <1>2 DEF TooLarge, RelocationIndex
  <2>2. Stored(p.relocation_data, p.existing[list], list)
    <3> HIDE DEF p, list, b
    <3> QED BY <1>5, <1>6 DEF Grown, PoolOK
  <2>3. p.existing[list] \in Nat
    <3> HIDE DEF p, list, b
    <3> QED BY <2>2 DEF Stored
  <2> HIDE DEF p, list, b
  <2> QED BY <2>1, <2>3, LibraryAssumption
<1>8. Len(Code(sym, uses)) = Len(uses) + 1
  <2> HIDE DEF sym
  <2> QED BY <1>1, <1>3, CodeIs
<1>9. /\ builders' = Put(builders, sym.name, q)
      /\ all_code' = all_code \o Code(sym, uses) /\ rt_symbols' = got.symbols
      /\ max_regs' = Family(sym.name).regs /\ compiled' = Put(compiled, sym, uses)
  <2> DEFINE e == [code_index |-> Len(all_code), code_len |-> Len(Code(sym, uses)),
                   relocation_index |-> RelocationIndex(p.existing[list])]
  <2>1. e = entry
    BY <1>8, Zenon DEF RelocationIndex
  <2>2. builders' = Put(builders, sym.name,
                        [p EXCEPT !.stencils = [@ EXCEPT ![IndexOf(sym)] = e]])
    BY DEF Extract, IndexOf
  <2> HIDE DEF e, entry
  <2>3. builders' = Put(builders, sym.name, q)
    BY <2>1, <2>2
  <2> QED BY <2>3, Zenon DEF Extract, Taken
<1>10. ASSUME NEW n \in DOMAIN builders
       PROVE  Family(n).regs = Family(sym.name).regs
  <2> HIDE DEF sym
  <2>1. Family(n).regs = max_regs /\ n \in DOMAIN lib.families
    BY DEF ExtractInv, TableInv
  <2>2. CASE sym.name \in DOMAIN builders
    BY <2>1, <2>2 DEF ExtractInv, TableInv
  <2>3. CASE sym.name \notin DOMAIN builders
    <3>1. max_regs \in {0, Family(sym.name).regs}
      BY <1>2, <2>3 DEF WrongRegs
    <3>2. Family(n).regs > 0 /\ Family(n).regs \in Nat
      BY <2>1, Families
    <3> QED BY <2>1, <3>1, <3>2
  <2> QED BY <2>2, <2>3
<1>11. Added(sym, uses, got, list, p, entry, q)
  <2> HIDE DEF list, p, sym
  <2> QED BY <1>1, <1>5, <1>6, <1>7, <1>9, <1>10, Zenon DEF Added, b
<1> QED BY <1>11, Zenon

(* Every list of a table is some stencil's, the new one's included.        *)
ListedWith(sym, symbols, q) ==
    \A l \in DOMAIN q.existing : Listed(DOMAIN compiled \cup {sym}, sym.name, symbols, l)

(* The table of the family gains the entry, and keeps the others.          *)
LEMMA AddedTable ==
    ASSUME lib \in Libraries, ExtractInv, NEW sym, NEW calls, NEW uses, NEW got,
           ReadOK(sym, calls, uses, got), NEW list, NEW p, NEW entry, NEW q,
           Added(sym, uses, got, list, p, entry, q)
    PROVE  /\ sym.name \in DOMAIN lib.families /\ SymbolOK(sym)
           /\ IsBuilder(q) /\ PoolOK(q) /\ q.meta = Metadata(Family(sym.name))
           /\ q.existing = p.existing
           /\ DOMAIN q.stencils = 0..(Entries(Family(sym.name)) - 1)
           /\ Len(q.relocation_data) > 0 /\ Last(q.relocation_data) = Invalid
           /\ \E l \in DOMAIN q.existing : q.existing[l] = 0
           /\ ListedWith(sym, got.symbols, q)
           /\ q.stencils[IndexOf(sym)] = entry
           /\ \A i \in DOMAIN q.stencils :
                 i # IndexOf(sym) => q.stencils[i] = Builder(sym.name).stencils[i]
<1> DEFINE n == sym.name
           b == Builder(n)
           idx == IndexOf(sym)
           table == [p.stencils EXCEPT ![idx] = entry]
<1>1. /\ SymbolOK(sym) /\ n \in DOMAIN lib.families /\ calls \in Callings /\ sym \in Symbols
      /\ uses = UsesOf(sym, calls) /\ rt_symbols \in Seq(Allowed)
      /\ got.symbols \in Seq(Allowed) /\ Extends(rt_symbols, got.symbols)
  BY SymbolSet DEF ReadOK, SymbolOK, ExtractInv
<1>2. TableBefore(n, b)
  BY <1>1, BuilderIs
<1>3. /\ Grown(b, p, list) /\ ListOf(sym, uses, got.symbols, list)
      /\ q = [p EXCEPT !.stencils = table]
  BY DEF Added
<1>4. idx \in 0..(Entries(Family(n)) - 1)
  BY <1>1, EntryOfSymbol
<1> HIDE DEF b, idx, n
<1>5. DOMAIN p.stencils = 0..(Entries(Family(n)) - 1) /\ p.stencils = b.stencils
  BY <1>2, <1>3 DEF Grown, TableBefore
<1>6. /\ DOMAIN table = DOMAIN p.stencils /\ table[idx] = entry
      /\ \A i \in DOMAIN table : i # idx => table[i] = b.stencils[i]
  BY <1>4, <1>5
<1> HIDE DEF table
<1>7. /\ IsBuilder(q) /\ q.meta = p.meta /\ q.stencils = table
      /\ q.relocation_data = p.relocation_data /\ q.existing = p.existing
  BY <1>3 DEF Grown, IsBuilder
<1>8. PoolOK(q)
  BY <1>3, <1>7 DEF Grown, PoolOK
<1>9. /\ DOMAIN p.existing = DOMAIN b.existing \cup {list}
      /\ \A l \in DOMAIN b.existing : p.existing[l] = b.existing[l]
      /\ b.relocation_data = <<>> => p.existing[list] = 0
  BY <1>3 DEF Grown
<1>10. \E l \in DOMAIN q.existing : q.existing[l] = 0
  <2>1. b.relocation_data = <<>> \/ \E l \in DOMAIN b.existing : b.existing[l] = 0
    BY <1>2 DEF TableBefore
  <2> QED BY <1>7, <1>9, <2>1, Zenon
<1>11. ASSUME NEW l \in DOMAIN q.existing
       PROVE  Listed(DOMAIN compiled \cup {sym}, n, got.symbols, l)
  <2> DEFINE S == DOMAIN compiled
             T == S \cup {sym}
  <2>1. CASE l \in DOMAIN b.existing
    <3>1. Listed(S, n, rt_symbols, l) /\ S \subseteq T
      BY <1>2, <2>1 DEF TableBefore
    <3> HIDE DEF S, T
    <3>2. Listed(T, n, got.symbols, l)
      BY <1>1, <3>1, ListedKept
    <3> QED BY <3>2, Zenon DEF S, T
  <2>2. CASE l = list
    <3>1. sym \in T
      OBVIOUS
    <3> QED BY <1>1, <1>3, <2>2, <3>1, Zenon DEF Listed, n
  <2> QED BY <1>7, <1>9, <2>1, <2>2
<1>12. q.meta = Metadata(Family(n)) /\ Len(q.relocation_data) > 0 /\ Last(q.relocation_data) = Invalid
  BY <1>2, <1>3, <1>7 DEF Grown, TableBefore
<1>13. ListedWith(sym, got.symbols, q)
  BY <1>11, Zenon DEF ListedWith, n
<1> QED BY <1>1, <1>5, <1>6, <1>7, <1>8, <1>10, <1>12, <1>13, Zenon DEF n, idx, b

(* A stencil after a step, from what the step made of its table.           *)
LEMMA StencilNow ==
    ASSUME UNCHANGED lib, NEW s, SymbolOK(s), s.name \in DOMAIN builders',
           NEW b, b = builders'[s.name], NEW e, e = b.stencils[IndexOf(s)],
           NEW uses, uses = compiled'[s], NEW code, code = all_code',
           NEW symbols, symbols = rt_symbols',
           NEW calls \in Callings, uses = UsesOf(s, calls),
           CodeAt(code, e, s, uses), ListIn(b, e, s, uses, symbols)
    PROVE  StencilInv(s, compiled[s])'
<1>1. /\ SymbolOK(s)' /\ IndexOf(s)' = IndexOf(s)
      /\ calls \in Callings' /\ UsesOf(s, calls)' = UsesOf(s, calls)
  BY SameLibrary
<1>2. ListIn(b, e, s, uses, symbols)'
  <2>1. \A l : ListOf(s, uses, symbols, l)' <=> ListOf(s, uses, symbols, l)
    BY SameLibrary
  <2> QED BY <2>1 DEF ListIn
<1>3. builders'[s.name].stencils[IndexOf(s)'] = e
  BY <1>1
<1>4. CodeAt(all_code', builders'[s.name].stencils[IndexOf(s)'], s, compiled'[s])
  BY <1>3
<1>5. ListIn(builders[s.name], builders[s.name].stencils[IndexOf(s)], s, compiled[s],
             rt_symbols)'
  BY <1>2, <1>3
<1>6. \E c \in Callings' : compiled'[s] = UsesOf(s, c)'
  BY <1>1
<1> QED BY <1>1, <1>4, <1>5, <1>6 DEF StencilInv

(* All stencils are as they should be when one was added: the new one, and *)
(* those whose lists and code were there.                                  *)
LEMMA AddedStencil ==
    ASSUME lib \in Libraries, UNCHANGED lib, ExtractInv,
           NEW sym, NEW calls, NEW uses, NEW got,
           ReadOK(sym, calls, uses, got), NEW list, NEW p, NEW entry, NEW q,
           Added(sym, uses, got, list, p, entry, q), NEW s \in DOMAIN compiled'
    PROVE  StencilInv(s, compiled[s])'
<1> DEFINE b == Builder(sym.name)
           code == all_code \o Code(sym, uses)
<1>1. /\ sym \in Symbols /\ SymbolOK(sym) /\ calls \in Callings /\ uses = UsesOf(sym, calls)
      /\ uses \in Seq(AnyUse(Family(sym.name))) /\ Len(uses) \in Nat
      /\ got.symbols \in Seq(Allowed) /\ Extends(rt_symbols, got.symbols)
      /\ rt_symbols \in Seq(Allowed) /\ all_code \in Seq(Cells)
  BY SymbolSet, UsesTyped, ElementsOf DEF ReadOK, ExtractInv
<1>2. /\ Grown(b, p, list) /\ ListOf(sym, uses, got.symbols, list)
      /\ list \in DOMAIN p.existing
      /\ entry = [code_index |-> Len(all_code), code_len |-> Len(uses) + 1,
                  relocation_index |-> p.existing[list]]
      /\ p.existing[list] <= MaxIndex
      /\ builders' = Put(builders, sym.name, q)
      /\ all_code' = code /\ rt_symbols' = got.symbols
      /\ compiled' = Put(compiled, sym, uses)
  BY Zenon DEF Added
<1>3. /\ q.existing = p.existing /\ q.stencils[IndexOf(sym)] = entry
      /\ DOMAIN q.stencils = 0..(Entries(Family(sym.name)) - 1)
      /\ \A i \in DOMAIN q.stencils : i # IndexOf(sym) => q.stencils[i] = b.stencils[i]
  BY AddedTable
<1> HIDE DEF b
<1>4. /\ code \in Seq(Cells) /\ Len(code) = Len(all_code) + Len(uses) + 1
      /\ Extends(all_code, code)
      /\ \A i \in 1..(Len(uses) + 1) : code[Len(all_code) + i] = <<sym, i>>
  <2> DEFINE more == Code(sym, uses)
  <2>1. /\ more \in Seq(Cells) /\ Len(more) = Len(uses) + 1
        /\ \A i \in 1..(Len(uses) + 1) : more[i] = <<sym, i>>
    BY <1>1, CodeIs
  <2> HIDE DEF more
  <2>2. /\ all_code \o more \in Seq(Cells) /\ Len(all_code \o more) = Len(all_code) + Len(more)
        /\ Extends(all_code, all_code \o more)
        /\ \A i \in 1..Len(more) : (all_code \o more)[Len(all_code) + i] = more[i]
    <3>1. PICK old \in Seq(Cells), new \in Seq(Cells) : old = all_code /\ new = more
      BY <1>1, <2>1
    <3>2. /\ old \o new \in Seq(Cells) /\ Len(old \o new) = Len(old) + Len(new)
          /\ Extends(old, old \o new)
          /\ \A i \in 1..Len(new) : (old \o new)[Len(old) + i] = new[i]
      BY ConcatExtends, Zenon
    <3> QED BY <3>1, <3>2
  <2>3. Len(all_code) \in Nat /\ code = all_code \o more
    BY <1>1 DEF more
  <2> QED BY <1>1, <2>1, <2>2, <2>3
<1> HIDE DEF code
<1>5. DOMAIN builders' = DOMAIN builders \cup {sym.name} /\ builders'[sym.name] = q
      /\ \A n \in DOMAIN builders : n # sym.name => builders'[n] = builders[n]
  <2>1. DOMAIN Put(builders, sym.name, q) = DOMAIN builders \cup {sym.name}
    BY PutDomain
  <2>2. /\ Put(builders, sym.name, q)[sym.name] = q
        /\ \A n \in DOMAIN builders :
              n # sym.name => Put(builders, sym.name, q)[n] = builders[n]
    BY PutIs
  <2> QED BY <1>2, <2>1, <2>2, Zenon
<1>6. DOMAIN compiled' = DOMAIN compiled \cup {sym} /\ compiled'[sym] = uses
      /\ \A o \in DOMAIN compiled : o # sym => compiled'[o] = compiled[o]
  <2>1. DOMAIN Put(compiled, sym, uses) = DOMAIN compiled \cup {sym}
    BY PutDomain
  <2>2. /\ Put(compiled, sym, uses)[sym] = uses
        /\ \A o \in DOMAIN compiled : o # sym => Put(compiled, sym, uses)[o] = compiled[o]
    BY PutIs
  <2> QED BY <1>2, <2>1, <2>2, Zenon
<1>7. CASE s = sym
  <2>1. CodeAt(code, entry, sym, uses)
    <3>1. /\ entry.code_index = Len(all_code) /\ entry.code_len = Len(uses) + 1
          /\ Len(all_code) \in Nat
      BY <1>1, <1>2
    <3> QED BY <1>1, <1>4, <3>1 DEF CodeAt
  <2>2. ListIn(q, entry, sym, uses, got.symbols)
    <3>1. entry.relocation_index = p.existing[list]
      BY <1>2
    <3> QED BY <1>2, <1>3, <3>1 DEF ListIn
  <2>3. /\ s.name \in DOMAIN builders' /\ builders'[s.name].stencils[IndexOf(s)] = entry
        /\ builders'[s.name] = q /\ compiled'[s] = uses
    BY <1>3, <1>5, <1>6, <1>7
  <2>4. SymbolOK(s) /\ CodeAt(code, entry, s, uses) /\ ListIn(q, entry, s, uses, got.symbols)
        /\ uses = UsesOf(s, calls) /\ builders'[s.name] = q /\ entry = q.stencils[IndexOf(s)]
    BY <1>1, <1>3, <1>7, <2>1, <2>2, <2>3
  <2>5. PICK now : now = code
    OBVIOUS
  <2>6. now = all_code' /\ CodeAt(now, entry, s, uses)
    BY <1>2, <2>4, <2>5
  <2> QED BY <1>1, <1>2, <2>3, <2>4, <2>6, StencilNow
<1>8. CASE s # sym
  <2>0. PICK was, now, own, e, text :
           /\ was = builders[s.name] /\ now = builders'[s.name] /\ own = compiled[s]
           /\ e = was.stencils[IndexOf(s)] /\ text = all_code'
    OBVIOUS
  <2>1. s \in DOMAIN compiled /\ compiled'[s] = own /\ StencilInv(s, own)
    BY <1>6, <1>8, <2>0 DEF ExtractInv
  <2>2. SymbolOK(s) /\ s.name \in DOMAIN builders /\ s.name \in DOMAIN builders'
    BY <1>5, <2>1 DEF StencilInv
  <2>3. /\ now.stencils[IndexOf(s)] = e
        /\ \A l \in DOMAIN was.existing : l \in DOMAIN now.existing /\ now.existing[l] = was.existing[l]
    <3>1. CASE s.name # sym.name
      <4>1. now = was
        BY <1>5, <2>0, <2>2, <3>1
      <4> QED BY <2>0, <4>1
    <3>2. CASE s.name = sym.name
      <4>1. b = was /\ now = q
        BY <1>5, <2>0, <2>2, <3>2 DEF Builder, b
      <4>2. IndexOf(s) # IndexOf(sym)
        BY <1>1, <1>8, <2>2, <3>2, SymbolOfEntry
      <4>3. IndexOf(s) \in DOMAIN q.stencils
        BY <1>3, <2>2, <3>2, EntryOfSymbol
      <4>4. now.stencils[IndexOf(s)] = e
        BY <1>3, <2>0, <4>1, <4>2, <4>3
      <4>5. \A l \in DOMAIN b.existing : l \in DOMAIN q.existing /\ q.existing[l] = b.existing[l]
        BY <1>2, <1>3 DEF Grown
      <4> QED BY <4>1, <4>4, <4>5
    <3> QED BY <3>1, <3>2
  <2>4. CodeAt(all_code, e, s, own) /\ ListIn(was, e, s, own, rt_symbols)
        /\ (\E c \in Callings : own = UsesOf(s, c))
    BY <2>0, <2>1 DEF StencilInv
  <2>5. CodeAt(text, e, s, own)
    <3>1. own \in Seq(AnyUse(Family(s.name))) /\ Len(own) \in Nat
      <4>1. own \in Seq(AnyUse(Family(s.name)))
        BY <2>2, <2>4, UsesTyped
      <4> QED BY <4>1, ElementsOf
    <3>2. /\ e.code_index \in Nat /\ e.code_len = Len(own) + 1
          /\ e.code_index + e.code_len <= Len(all_code)
          /\ \A i \in 1..(Len(own) + 1) : all_code[e.code_index + i] = <<s, i>>
      BY <2>4 DEF CodeAt
    <3>3. Len(all_code) \in Nat /\ Len(all_code) <= Len(code)
          /\ \A i \in 1..Len(all_code) : code[i] = all_code[i]
      BY <1>1, <1>4 DEF Extends
    <3>4. e.code_index + e.code_len <= Len(code)
      BY <1>1, <1>4, <3>1, <3>2, <3>3
    <3>5. \A i \in 1..(Len(own) + 1) : e.code_index + i \in 1..Len(all_code)
      BY <3>1, <3>2, <3>3
    <3> QED BY <1>2, <2>0, <3>2, <3>3, <3>4, <3>5 DEF CodeAt
  <2>6. ListIn(now, e, s, own, got.symbols)
    <3>1. PICK l \in DOMAIN was.existing :
             was.existing[l] = e.relocation_index /\ ListOf(s, own, rt_symbols, l)
      BY <2>4 DEF ListIn
    <3>2. l \in DOMAIN now.existing /\ now.existing[l] = e.relocation_index
      BY <2>3, <3>1
    <3>3. ListOf(s, own, got.symbols, l)
      BY <1>1, <3>1, ListKept
    <3> QED BY <2>4, <3>2, <3>3 DEF ListIn
  <2>7. PICK c \in Callings : own = UsesOf(s, c)
    BY <2>4
  <2>8. /\ now = builders'[s.name] /\ e = now.stencils[IndexOf(s)] /\ own = compiled'[s]
        /\ got.symbols = rt_symbols' /\ text = all_code'
    BY <1>2, <2>0, <2>1, <2>3
  <2> QED BY <2>2, <2>5, <2>6, <2>7, <2>8, StencilNow
<1> QED BY <1>7, <1>8

(* A table that nothing is added to, while others are.                     *)
LEMMA TableNow ==
    ASSUME UNCHANGED lib, NEW n, NEW b, TableInv(n, b),
           rt_symbols \in Seq(Allowed), NEW symbols \in Seq(Allowed), symbols = rt_symbols',
           Extends(rt_symbols, symbols), max_regs' = max_regs,
           DOMAIN compiled \subseteq DOMAIN compiled'
    PROVE  TableInv(n, b)'
<1>1. Family(n)' = Family(n)
  BY SameLibrary
<1>2. \A list \in DOMAIN b.existing : Listed(DOMAIN compiled, n, rt_symbols, list)'
  <2> SUFFICES ASSUME NEW list \in DOMAIN b.existing
               PROVE  Listed(DOMAIN compiled, n, rt_symbols, list)'
    OBVIOUS
  <2>1. PICK S, T : S = DOMAIN compiled /\ T = DOMAIN compiled'
    OBVIOUS
  <2>2. Listed(S, n, rt_symbols, list)
    BY <2>1 DEF TableInv
  <2>3. S \subseteq T
    BY <2>1
  <2>4. Listed(T, n, symbols, list)
    BY <2>2, <2>3, ListedKept
  <2>5. \E sym \in T, calls \in Callings :
           sym.name = n /\ ListOf(sym, UsesOf(sym, calls), symbols, list)
    BY <2>4 DEF Listed
  <2>6. \E sym \in T, calls \in Callings' :
           sym.name = n /\ ListOf(sym, UsesOf(sym, calls), symbols, list)'
    BY <2>5, SameLibrary
  <2> QED BY <2>1, <2>6 DEF Listed
<1>3. \A i \in DOMAIN b.stencils :
         \/ b.stencils[i] = Default
         \/ \E sym \in DOMAIN compiled' : sym.name = n /\ IndexOf(sym)' = i
  <2>1. \A i \in DOMAIN b.stencils :
           \/ b.stencils[i] = Default
           \/ \E sym \in DOMAIN compiled : sym.name = n /\ IndexOf(sym) = i
    BY DEF TableInv
  <2>2. \A sym : IndexOf(sym)' = IndexOf(sym)
    BY SameLibrary
  <2> QED BY <2>1, <2>2
<1> QED BY <1>1, <1>2, <1>3 DEF TableInv

(* Stencils stay when only runtime symbols are added.                      *)
LEMMA StencilKept ==
    ASSUME lib \in Libraries, UNCHANGED <<lib, builders, all_code, compiled>>,
           ExtractInv, NEW symbols \in Seq(Allowed), symbols = rt_symbols',
           Extends(rt_symbols, symbols), NEW s \in DOMAIN compiled
    PROVE  StencilInv(s, compiled[s])'
<1>1. PICK b, e, own, code :
         /\ b = builders[s.name] /\ e = b.stencils[IndexOf(s)] /\ own = compiled[s]
         /\ code = all_code
  OBVIOUS
<1>2. /\ SymbolOK(s) /\ s.name \in DOMAIN builders /\ CodeAt(code, e, s, own)
      /\ ListIn(b, e, s, own, rt_symbols) /\ rt_symbols \in Seq(Allowed)
  BY <1>1 DEF ExtractInv, StencilInv
<1>3. PICK calls \in Callings : own = UsesOf(s, calls)
  BY <1>1 DEF ExtractInv, StencilInv
<1>4. ListIn(b, e, s, own, symbols)
  BY <1>2, ListKept DEF ListIn
<1>5. /\ s.name \in DOMAIN builders' /\ b = builders'[s.name] /\ own = compiled'[s]
      /\ code = all_code'
  BY <1>1, <1>2
<1> QED BY <1>1, <1>2, <1>3, <1>4, <1>5, StencilNow

(* A stencil is extracted.                                                 *)
LEMMA ExtractKeeps ==
    ASSUME lib \in Libraries, ExtractInv, odd' \in 0..MaxOdd,
           NEW k, NEW calls, NEW uses, NEW got,
           k \in 1..Len(pending), ReadOK(pending[k], calls, uses, got), Extract(k, uses, got)
    PROVE  ExtractInv'
<1>1. PICK sym : sym = pending[k]
  OBVIOUS
<1>2. PICK list, p, entry, q : Added(sym, uses, got, list, p, entry, q)
  BY <1>1, ExtractAdds
<1>3. ReadOK(sym, calls, uses, got)
  BY <1>1
<1>4. /\ sym \in Symbols /\ SymbolOK(sym) /\ calls \in Callings /\ uses = UsesOf(sym, calls)
      /\ uses \in Seq(AnyUse(Family(sym.name)))
      /\ got.symbols \in Seq(Allowed) /\ Extends(rt_symbols, got.symbols)
      /\ rt_symbols \in Seq(Allowed) /\ all_code \in Seq(Cells) /\ pending \in Seq(Symbols)
      /\ DOMAIN builders \subseteq DOMAIN lib.families /\ error # "mismatch"
  BY <1>3, SymbolSet, UsesTyped DEF ReadOK, ExtractInv
<1>5. /\ builders' = Put(builders, sym.name, q) /\ all_code' = all_code \o Code(sym, uses)
      /\ rt_symbols' = got.symbols /\ max_regs' = Family(sym.name).regs
      /\ compiled' = Put(compiled, sym, uses)
      /\ \A n \in DOMAIN builders : Family(n).regs = Family(sym.name).regs
  BY <1>2, Zenon DEF Added
<1>6. /\ UNCHANGED <<phase, lib, error, tables>> /\ pending' = RemoveAt(pending, k)
      /\ phase = "extract"
  BY Zenon DEF Extract, Taken
<1>7. pending' \in Seq(Symbols)'
  <2>1. RemoveAt(pending, k) \in Seq(Symbols)
    BY <1>4, WithoutOne
  <2> QED BY <1>6, <2>1, SameLibrary
<1>8. all_code' \in Seq(Cells)'
  <2>1. Code(sym, uses) \in Seq(Cells)
    BY <1>4, CodeIs
  <2>2. all_code \o Code(sym, uses) \in Seq(Cells)
    BY <1>4, <2>1, ConcatExtends
  <2> QED BY <1>5, <1>6, <2>2, SameLibrary
<1>9. DOMAIN builders' = DOMAIN builders \cup {sym.name} /\ builders'[sym.name] = q
      /\ \A n \in DOMAIN builders : n # sym.name => builders'[n] = builders[n]
  <2>1. DOMAIN Put(builders, sym.name, q) = DOMAIN builders \cup {sym.name}
    BY PutDomain
  <2>2. /\ Put(builders, sym.name, q)[sym.name] = q
        /\ \A n \in DOMAIN builders :
              n # sym.name => Put(builders, sym.name, q)[n] = builders[n]
    BY PutIs
  <2> QED BY <1>5, <2>1, <2>2, Zenon
<1>10. DOMAIN compiled' = DOMAIN compiled \cup {sym}
  <2>1. DOMAIN Put(compiled, sym, uses) = DOMAIN compiled \cup {sym}
    BY PutDomain
  <2> QED BY <1>5, <2>1, Zenon
<1>11. DOMAIN builders' \subseteq DOMAIN lib'.families
  BY <1>4, <1>6, <1>9 DEF SymbolOK
<1>12. ASSUME NEW n \in DOMAIN builders'
       PROVE  TableInv(n, builders[n])'
  <2>1. CASE n = sym.name
    <3> DEFINE fam == Family(sym.name)
    <3>1. /\ IsBuilder(q) /\ PoolOK(q) /\ q.meta = Metadata(fam)
          /\ DOMAIN q.stencils = 0..(Entries(fam) - 1)
          /\ Len(q.relocation_data) > 0 /\ Last(q.relocation_data) = Invalid
          /\ \E l \in DOMAIN q.existing : q.existing[l] = 0
          /\ \A i \in DOMAIN q.stencils :
                i # IndexOf(sym) => q.stencils[i] = Builder(sym.name).stencils[i]
          /\ ListedWith(sym, got.symbols, q)
      BY <1>2, <1>3, AddedTable
    <3>2. TableBefore(sym.name, Builder(sym.name))
      BY <1>4, BuilderIs DEF SymbolOK
    <3>3. ASSUME NEW i \in DOMAIN q.stencils
          PROVE  \/ q.stencils[i] = Default
                 \/ \E s \in DOMAIN compiled' : s.name = sym.name /\ IndexOf(s) = i
      <4>1. CASE i = IndexOf(sym)
        BY <1>10, <4>1
      <4>2. CASE i # IndexOf(sym)
        <5>1. q.stencils[i] = Builder(sym.name).stencils[i]
          BY <3>1, <4>2
        <5>2. i \in DOMAIN Builder(sym.name).stencils
          BY <3>1, <3>2 DEF TableBefore
        <5>3. \/ Builder(sym.name).stencils[i] = Default
              \/ \E s \in DOMAIN compiled : s.name = sym.name /\ IndexOf(s) = i
          BY <3>2, <5>2 DEF TableBefore
        <5> QED BY <1>10, <5>1, <5>3
      <4> QED BY <4>1, <4>2
    <3>4. /\ Family(sym.name)' = Family(sym.name)
          /\ \A s : IndexOf(s)' = IndexOf(s)
          /\ \A l \in DOMAIN q.existing : Listed(DOMAIN compiled, sym.name, rt_symbols, l)'
      <4>1. PICK T, symbols : T = DOMAIN compiled' /\ symbols = rt_symbols'
        OBVIOUS
      <4>2. ASSUME NEW l \in DOMAIN q.existing
            PROVE  Listed(DOMAIN compiled, sym.name, rt_symbols, l)'
        <5>1. Listed(T, sym.name, symbols, l)
          <6>1. T = DOMAIN compiled \cup {sym} /\ symbols = got.symbols
            BY <1>5, <1>10, <4>1
          <6>2. Listed(DOMAIN compiled \cup {sym}, sym.name, got.symbols, l)
            BY <3>1, Zenon DEF ListedWith
          <6> QED BY <6>1, <6>2, Zenon
        <5>2. \E s \in T, c \in Callings :
                 s.name = sym.name /\ ListOf(s, UsesOf(s, c), symbols, l)
          BY <5>1 DEF Listed
        <5>3. \E s \in T, c \in Callings' :
                 s.name = sym.name /\ ListOf(s, UsesOf(s, c), symbols, l)'
          BY <1>6, <5>2, SameLibrary
        <5> QED BY <4>1, <5>3 DEF Listed
      <4> QED BY <1>6, <4>2, SameLibrary
    <3> HIDE DEF fam
    <3>5. TableInv(sym.name, q)'
      BY <1>5, <3>1, <3>3, <3>4 DEF TableInv, fam
    <3> QED BY <1>9, <2>1, <3>5
  <2>2. CASE n # sym.name
    <3>1. PICK b : b = builders[n]
      OBVIOUS
    <3>2. n \in DOMAIN builders /\ TableInv(n, b) /\ b = builders'[n]
      BY <1>9, <2>2, <3>1 DEF ExtractInv
    <3>3. max_regs' = max_regs
      BY <1>5, <3>2 DEF TableInv
    <3>4. DOMAIN compiled \subseteq DOMAIN compiled'
      BY <1>10
    <3>5. TableInv(n, b)'
      BY <1>4, <1>5, <1>6, <3>2, <3>3, <3>4, TableNow
    <3> QED BY <3>2, <3>5
  <2> QED BY <2>1, <2>2
<1>13. ASSUME NEW s \in DOMAIN compiled'
       PROVE  StencilInv(s, compiled[s])'
  BY <1>2, <1>3, <1>6, AddedStencil
<1>14. phase' # "library" /\ error' # "mismatch" /\ rt_symbols' \in Seq(Allowed)
  BY <1>4, <1>5, <1>6
<1> QED BY <1>7, <1>8, <1>11, <1>12, <1>13, <1>14 DEF ExtractInv

(* A symbol is passed over.                                                *)
LEMMA SkipKeeps ==
    ASSUME lib \in Libraries, ExtractInv, odd' \in 0..MaxOdd,
           NEW k, NEW calls, NEW uses, NEW got,
           k \in 1..Len(pending), ReadOK(pending[k], calls, uses, got), Skip(k, uses, got)
    PROVE  ExtractInv'
<1>1. /\ UNCHANGED <<phase, lib, error, tables, builders, all_code, max_regs, compiled>>
      /\ pending' = RemoveAt(pending, k) /\ phase = "extract" /\ rt_symbols' = got.symbols
  BY Zenon DEF Skip, Taken
<1>2. /\ got.symbols \in Seq(Allowed) /\ Extends(rt_symbols, got.symbols)
      /\ rt_symbols \in Seq(Allowed) /\ all_code \in Seq(Cells) /\ pending \in Seq(Symbols)
      /\ DOMAIN builders \subseteq DOMAIN lib.families /\ error # "mismatch"
  BY DEF ReadOK, ExtractInv
<1>3. pending' \in Seq(Symbols)' /\ all_code' \in Seq(Cells)'
  <2>1. RemoveAt(pending, k) \in Seq(Symbols)
    BY <1>2, WithoutOne
  <2> QED BY <1>1, <1>2, <2>1, SameLibrary
<1>4. ASSUME NEW n \in DOMAIN builders'
      PROVE  TableInv(n, builders[n])'
  <2>1. PICK b : b = builders[n]
    OBVIOUS
  <2>2. TableInv(n, b) /\ b = builders'[n] /\ max_regs' = max_regs
        /\ DOMAIN compiled \subseteq DOMAIN compiled'
    BY <1>1, <2>1 DEF ExtractInv
  <2>3. TableInv(n, b)'
    BY <1>1, <1>2, <2>2, TableNow
  <2> QED BY <2>2, <2>3
<1>5. ASSUME NEW s \in DOMAIN compiled'
      PROVE  StencilInv(s, compiled[s])'
  BY <1>1, <1>2, StencilKept
<1>6. /\ phase' # "library" /\ error' # "mismatch" /\ rt_symbols' \in Seq(Allowed)
      /\ DOMAIN builders' \subseteq DOMAIN lib'.families
  BY <1>1, <1>2
<1> QED BY <1>3, <1>4, <1>5, <1>6 DEF ExtractInv

(* Nothing that is read changes.                                           *)
LEMMA SameExtracted ==
    ASSUME lib \in Libraries, ExtractInv, odd' \in 0..MaxOdd,
           UNCHANGED <<lib, builders, all_code, rt_symbols, max_regs, compiled>>
    PROVE  /\ rt_symbols' \in Seq(Allowed) /\ all_code' \in Seq(Cells)'
           /\ DOMAIN builders' \subseteq DOMAIN lib'.families
           /\ \A n \in DOMAIN builders' : TableInv(n, builders[n])'
           /\ \A s \in DOMAIN compiled' : StencilInv(s, compiled[s])'
<1>1. PICK symbols : symbols = rt_symbols
  OBVIOUS
<1>2. /\ symbols \in Seq(Allowed) /\ rt_symbols \in Seq(Allowed) /\ symbols = rt_symbols'
      /\ all_code \in Seq(Cells) /\ DOMAIN builders \subseteq DOMAIN lib.families
  BY <1>1 DEF ExtractInv
<1>3. Extends(rt_symbols, symbols)
  BY <1>1, <1>2 DEF Extends
<1>4. ASSUME NEW n \in DOMAIN builders'
      PROVE  TableInv(n, builders[n])'
  <2>1. PICK b : b = builders[n]
    OBVIOUS
  <2>2. TableInv(n, b) /\ b = builders'[n] /\ max_regs' = max_regs
        /\ DOMAIN compiled \subseteq DOMAIN compiled'
    BY <2>1 DEF ExtractInv
  <2>3. TableInv(n, b)'
    BY <1>2, <1>3, <2>2, TableNow
  <2> QED BY <2>2, <2>3
<1>5. ASSUME NEW s \in DOMAIN compiled'
      PROVE  StencilInv(s, compiled[s])'
  BY <1>2, <1>3, StencilKept
<1>6. all_code' \in Seq(Cells)'
  BY <1>2, SameLibrary
<1> QED BY <1>2, <1>4, <1>5, <1>6

(* A library is refused.                                                   *)
LEMMA RefuseKeeps ==
    ASSUME lib \in Libraries, ExtractInv, odd' \in 0..MaxOdd,
           NEW k, NEW calls, NEW uses, NEW got,
           ReadOK(pending[k], calls, uses, got), Refuse(k, uses, got)
    PROVE  ExtractInv'
<1>1. PICK why : Fail(why) /\ why # "mismatch"
  <2>1. PICK sym, list : sym = pending[k] /\ list = Sorted(got.list)
    OBVIOUS
  <2>2. got.ok => ~ FamilyMismatch(sym, list)
    BY <2>1 DEF ReadOK
  <2>3. got.ok => Fault(sym, list) # "mismatch"
    BY <2>2, NoMismatchFault
  <2>4. Fail("not inlined") \/ Fail("no metadata") \/ (got.ok /\ Fail(Fault(sym, list)))
    BY <2>1, Zenon DEF Refuse
  <2>5. "not inlined" # "mismatch" /\ "no metadata" # "mismatch"
    OBVIOUS
  <2> QED BY <2>3, <2>4, <2>5, Zenon
<1>2. /\ UNCHANGED <<lib, pending, builders, all_code, rt_symbols, max_regs, compiled>>
      /\ phase' = "failed" /\ error' = why
  BY <1>1 DEF Fail
<1>3. pending' \in Seq(Symbols)'
  BY <1>2, SameLibrary DEF ExtractInv
<1>4. /\ rt_symbols' \in Seq(Allowed) /\ all_code' \in Seq(Cells)'
      /\ DOMAIN builders' \subseteq DOMAIN lib'.families
      /\ \A n \in DOMAIN builders' : TableInv(n, builders[n])'
      /\ \A s \in DOMAIN compiled' : StencilInv(s, compiled[s])'
  BY <1>2, SameExtracted
<1> QED BY <1>1, <1>2, <1>3, <1>4 DEF ExtractInv

(* The tables are written.                                                 *)
LEMMA GenerateKeeps ==
    ASSUME lib \in Libraries, ExtractInv, Generate
    PROVE  ExtractInv'
<1>1. /\ UNCHANGED <<lib, pending, builders, all_code, rt_symbols, max_regs, compiled, odd, error>>
      /\ tables'.code = all_code /\ tables'.rt_symbols = rt_symbols
      /\ tables'.families = [n \in DOMAIN builders \ {"__empty"} |-> builders[n]]
  BY DEF Generate
<1>2. pending' \in Seq(Symbols)' /\ odd' \in 0..MaxOdd /\ error' # "mismatch"
  BY <1>1, SameLibrary DEF ExtractInv
<1>3. /\ rt_symbols' \in Seq(Allowed) /\ all_code' \in Seq(Cells)'
      /\ DOMAIN builders' \subseteq DOMAIN lib'.families
      /\ \A n \in DOMAIN builders' : TableInv(n, builders[n])'
      /\ \A s \in DOMAIN compiled' : StencilInv(s, compiled[s])'
  BY <1>1, <1>2, SameExtracted
<1>4. TablesInv'
  BY <1>1 DEF TablesInv
<1> QED BY <1>2, <1>3, <1>4 DEF ExtractInv

(* The macro leaves what is extracted alone.                               *)
LEMMA ExpandKeeps ==
    ASSUME LibraryInv, ExpandInv, ExtractInv, Expand
    PROVE  ExtractInv'
<1>1. PICK n : n = CHOOSE f \in running : TRUE
  OBVIOUS
<1>2. lib \in Libraries /\ n \in DOMAIN lib.families
  BY <1>1 DEF LibraryInv, Expand
<1>3. /\ UNCHANGED <<lib, builders, all_code, rt_symbols, max_regs, compiled, odd, error, tables>>
      /\ pending' = pending \o SymbolsOf(n, Family(n), current[n])
      /\ phase' # "library"
  BY <1>1 DEF Expand
<1>4. current[n] \in Placements(Family(n)) /\ Family(n).holes \in Nat
  BY <1>2, Families DEF ExpandInv, YieldedInv
<1>5. pending' \in Seq(Symbols)'
  <2>1. SymbolsOf(n, Family(n), current[n]) \in Seq(Symbols) /\ pending \in Seq(Symbols)
    BY <1>2, <1>4, SymbolsOfAre DEF ExtractInv
  <2>2. pending' \in Seq(Symbols)
    BY <1>3, <2>1, ConcatExtends
  <2> QED BY <1>3, <2>2, SameLibrary
<1>6. odd' \in 0..MaxOdd /\ error' # "mismatch"
  BY <1>3 DEF ExtractInv
<1>7. /\ rt_symbols' \in Seq(Allowed) /\ all_code' \in Seq(Cells)'
      /\ DOMAIN builders' \subseteq DOMAIN lib'.families
      /\ \A m \in DOMAIN builders' : TableInv(m, builders[m])'
      /\ \A s \in DOMAIN compiled' : StencilInv(s, compiled[s])'
  BY <1>2, <1>3, <1>6, SameExtracted
<1> QED BY <1>3, <1>5, <1>6, <1>7 DEF ExtractInv

(* Nothing is extracted at first.                                          *)
LEMMA ExtractInit ==
    ASSUME Init
    PROVE  ExtractInv
<1>1. /\ pending = <<>> /\ rt_symbols = <<>> /\ all_code = <<>> /\ odd = 0 /\ error = "none"
      /\ builders = <<>> /\ compiled = <<>> /\ phase = "expand"
  BY DEF Init
<1>2. DOMAIN builders = {} /\ DOMAIN compiled = {}
  BY <1>1
<1>3. odd \in 0..MaxOdd
  BY <1>1, LibraryAssumption
<1> QED BY <1>1, <1>2, <1>3 DEF ExtractInv

(* Every step keeps what is known of the tables.                           *)
LEMMA ExtractStep ==
    ASSUME LibraryInv, ExpandInv, ExtractInv, [Next]_vars
    PROVE  ExtractInv'
<1>1. lib \in Libraries
  BY DEF LibraryInv
<1>2. CASE Expand
  BY <1>2, ExpandKeeps
<1>3. CASE ReadSymbol
  <2>1. PICK k, calls, backwards, uses, got : Reads(k, calls, backwards, uses, got)
    BY <1>3, ReadCases
  <2>2. k \in 1..Len(pending) /\ ReadOK(pending[k], calls, uses, got)
    BY <1>1, <2>1, ReadsWell
  <2>3. odd' \in 0..MaxOdd
    BY <2>1, LibraryAssumption DEF Reads, ExtractInv
  <2>4. Extract(k, uses, got) \/ Skip(k, uses, got) \/ Refuse(k, uses, got)
    BY <2>1 DEF Reads
  <2>5. CASE Extract(k, uses, got)
    BY <1>1, <2>2, <2>3, <2>5, ExtractKeeps
  <2>6. CASE Skip(k, uses, got)
    BY <1>1, <2>2, <2>3, <2>6, SkipKeeps
  <2>7. CASE Refuse(k, uses, got)
    BY <1>1, <2>2, <2>3, <2>7, RefuseKeeps
  <2> QED BY <2>4, <2>5, <2>6, <2>7
<1>4. CASE Generate
  BY <1>1, <1>4, GenerateKeeps
<1>5. CASE UNCHANGED vars
  <2>1. UNCHANGED <<lib, pending, builders, all_code, rt_symbols, max_regs, compiled, odd, error,
                    phase, tables>>
    BY <1>5 DEF vars
  <2>2. pending' \in Seq(Symbols)' /\ odd' \in 0..MaxOdd /\ error' # "mismatch"
    BY <2>1, SameLibrary DEF ExtractInv
  <2>3. /\ rt_symbols' \in Seq(Allowed) /\ all_code' \in Seq(Cells)'
        /\ DOMAIN builders' \subseteq DOMAIN lib'.families
        /\ \A m \in DOMAIN builders' : TableInv(m, builders[m])'
        /\ \A s \in DOMAIN compiled' : StencilInv(s, compiled[s])'
    BY <1>1, <2>1, <2>2, SameExtracted
  <2>4. phase' = "library" => TablesInv'
    BY <2>1 DEF ExtractInv, TablesInv
  <2> QED BY <2>2, <2>3, <2>4 DEF ExtractInv
<1> QED BY <1>2, <1>3, <1>4, <1>5 DEF Next

(* What holds in every state of a library's making.                        *)
Inv == LibraryInv /\ ExpandInv /\ ExtractInv

(* It is inductive: the macro, and extraction symbol by symbol, keep it.   *)
THEOREM Invariance ==
    Spec => []Inv
<1>1. Init => Inv
  BY ExpandInit, ExtractInit DEF Inv
<1>2. Inv /\ [Next]_vars => Inv'
  <2> SUFFICES ASSUME LibraryInv, ExpandInv, ExtractInv, [Next]_vars
               PROVE  Inv'
    BY DEF Inv
  <2>1. LibraryInv' /\ ExpandInv'
    BY KeepsExpanding
  <2>2. ExtractInv'
    BY ExtractStep
  <2> QED BY <2>1, <2>2 DEF Inv
<1> QED BY <1>1, <1>2, PTL DEF Spec

(* RegPermutation yields every placement of every family once, for any     *)
(* number of inputs, outputs and registers.                                *)
THEOREM YieldsEachOnce ==
    Spec => []ExpandsEachOnce
<1>1. Inv => ExpandsEachOnce
  <2> SUFFICES ASSUME ExpandInv, NEW n \in DOMAIN expanded
               PROVE  /\ \A i, j \in DOMAIN expanded[n] : expanded[n][i] = expanded[n][j] => i = j
                      /\ Range(expanded[n]) \subseteq Placements(Family(n))
                      /\ n \notin running => Range(expanded[n]) = Placements(Family(n))
    BY DEF Inv, ExpandsEachOnce
  <2>1. YieldedInv(n)
    BY DEF ExpandInv
  <2>2. Range(expanded[n]) \subseteq Placements(Family(n))
    BY <2>1, ValuesOf DEF YieldedInv
  <2> QED BY <2>1, <2>2 DEF YieldedInv
<1> QED BY <1>1, Invariance, PTL

-----------------------------------------------------------------------------

(* What the invariant says of a stencil that was extracted.                *)
Stencil(s, b, e, uses, list) ==
    /\ SymbolOK(s) /\ s.name \in DOMAIN builders
    /\ uses \in Seq(AnyUse(Family(s.name)))
    /\ \E calls \in Callings : uses = UsesOf(s, calls)
    /\ CodeAt(all_code, e, s, uses)
    /\ e.relocation_index \in 0..(Len(b.relocation_data) - 1) /\ e.relocation_index <= MaxIndex
    /\ ListAt(b, e.relocation_index) = list
    /\ ListOf(s, uses, rt_symbols, list)

(* The entry of a compiled stencil, with its code and its list.            *)
LEMMA StencilIs ==
    ASSUME lib \in Libraries, ExtractInv, NEW s \in DOMAIN compiled
    PROVE  \E list : Stencil(s, builders[s.name], builders[s.name].stencils[IndexOf(s)],
                             compiled[s], list)
<1>1. PICK b, e, uses :
         b = builders[s.name] /\ e = b.stencils[IndexOf(s)] /\ uses = compiled[s]
  OBVIOUS
<1>2. /\ SymbolOK(s) /\ s.name \in DOMAIN builders /\ CodeAt(all_code, e, s, uses)
      /\ ListIn(b, e, s, uses, rt_symbols)
  BY <1>1 DEF ExtractInv, StencilInv
<1>3. PICK calls \in Callings : uses = UsesOf(s, calls)
  BY <1>1 DEF ExtractInv, StencilInv
<1>4. uses \in Seq(AnyUse(Family(s.name)))
  BY <1>2, <1>3, UsesTyped
<1>5. PICK list \in DOMAIN b.existing :
         b.existing[list] = e.relocation_index /\ ListOf(s, uses, rt_symbols, list)
  BY <1>2 DEF ListIn
<1>6. PoolOK(b)
  BY <1>1, <1>2 DEF ExtractInv, TableInv
<1>7. PICK at : at = e.relocation_index
  OBVIOUS
<1>8. Stored(b.relocation_data, at, list) /\ b.relocation_data \in Pool
  BY <1>5, <1>6, <1>7 DEF PoolOK
<1>9. ListAt(b, at) = list
  BY <1>8, StoredIsRead
<1>10. at \in 0..(Len(b.relocation_data) - 1)
  <2>1. /\ at \in Nat /\ at + Len(list) + 1 <= Len(b.relocation_data) /\ Len(list) \in Nat
        /\ Len(b.relocation_data) \in Nat
    BY <1>8 DEF Stored, Pool
  <2> QED BY <2>1
<1>11. at <= MaxIndex
  BY <1>2, <1>7 DEF ListIn
<1>12. Stencil(s, b, e, uses, list)
  BY <1>2, <1>3, <1>4, <1>5, <1>7, <1>9, <1>10, <1>11 DEF Stencil
<1> QED BY <1>1, <1>12

(* Every entry leads into the pool and the code, if it has any.            *)
LEMMA EntriesTyped ==
    ASSUME lib \in Libraries, ExtractInv, NEW n \in DOMAIN builders,
           NEW i \in DOMAIN builders[n].stencils
    PROVE  LET b == builders[n]
               e == b.stencils[i]
           IN  /\ e.relocation_index \in 0..(Len(b.relocation_data) - 1)
               /\ e.relocation_index <= MaxIndex
               /\ e.code_index + e.code_len <= Len(all_code)
<1>1. PICK b, e : b = builders[n] /\ e = b.stencils[i]
  OBVIOUS
<1>2. TableInv(n, b) /\ i \in DOMAIN b.stencils /\ all_code \in Seq(Cells)
  BY <1>1 DEF ExtractInv
<1>3. Len(b.relocation_data) > 0 /\ Len(b.relocation_data) \in Nat /\ Len(all_code) \in Nat
  BY <1>2 DEF TableInv, PoolOK, Pool
<1>4. CASE e = Default
  <2>1. e.code_index = 0 /\ e.code_len = 0 /\ e.relocation_index = 0
    BY <1>4 DEF Default
  <2> QED BY <1>1, <1>3, <2>1, LibraryAssumption
<1>5. CASE e # Default
  <2>1. PICK s \in DOMAIN compiled : s.name = n /\ IndexOf(s) = i
    BY <1>1, <1>2, <1>5 DEF TableInv
  <2>2. PICK list : Stencil(s, b, e, compiled[s], list)
    BY <1>1, <2>1, StencilIs
  <2>3. /\ e.relocation_index \in 0..(Len(b.relocation_data) - 1) /\ e.relocation_index <= MaxIndex
        /\ e.code_index + e.code_len <= Len(all_code)
    BY <2>2 DEF Stencil, CodeAt
  <2> QED BY <1>1, <2>3
<1> QED BY <1>4, <1>5

(* The type of the state, and that each list of relocations ends.          *)
THEOREM TypeCorrect ==
    Spec => []LibraryTypeOK
<1>1. Inv => LibraryTypeOK
  <2> SUFFICES ASSUME LibraryInv, ExpandInv, ExtractInv PROVE LibraryTypeOK
    BY DEF Inv
  <2>1. phase \in {"expand", "extract", "library", "failed"} /\ lib \in Libraries
    BY DEF LibraryInv
  <2>2. \A n \in DOMAIN current :
           current[n] \in [1..Values(Family(n)) -> 0..(Family(n).regs - 1)]
    BY DEF ExpandInv, YieldedInv, Placements
  <2>3. odd \in 0..MaxOdd /\ Range(rt_symbols) \subseteq Allowed
    BY ValuesOf DEF ExtractInv
  <2>4. ASSUME NEW n \in DOMAIN builders
        PROVE  LET b == builders[n]
                   halves == IF Family(n).holes = 0 THEN 1 ELSE 2
               IN  /\ b.meta.max_regs = max_regs
                   /\ DOMAIN b.stencils = 0..(halves * stencils_len(Family(n)) - 1)
                   /\ Last(b.relocation_data) = Invalid
                   /\ \A e \in Range(b.stencils) :
                         /\ e.relocation_index \in 0..(Len(b.relocation_data) - 1)
                         /\ e.relocation_index <= MaxIndex
                         /\ e.code_index + e.code_len <= Len(all_code)
    <3>1. PICK b : b = builders[n]
      OBVIOUS
    <3>2. TableInv(n, b)
      BY <3>1 DEF ExtractInv
    <3>3. b.meta.max_regs = max_regs /\ Last(b.relocation_data) = Invalid
      BY <3>2 DEF TableInv, Metadata
    <3>4. DOMAIN b.stencils
            = 0..((IF Family(n).holes = 0 THEN 1 ELSE 2) * stencils_len(Family(n)) - 1)
      <4>1. n \in DOMAIN lib.families /\ lib \in Libraries
        BY <2>1 DEF ExtractInv
      <4>2. Family(n).holes > 0 <=> Family(n).holes # 0
        BY <4>1, Families
      <4> QED BY <3>2, <4>2 DEF TableInv, Entries
    <3>5. ASSUME NEW i \in DOMAIN b.stencils
          PROVE  /\ b.stencils[i].relocation_index \in 0..(Len(b.relocation_data) - 1)
                 /\ b.stencils[i].relocation_index <= MaxIndex
                 /\ b.stencils[i].code_index + b.stencils[i].code_len <= Len(all_code)
      BY <2>1, <3>1, EntriesTyped
    <3>6. \A e \in Range(b.stencils) :
             /\ e.relocation_index \in 0..(Len(b.relocation_data) - 1)
             /\ e.relocation_index <= MaxIndex
             /\ e.code_index + e.code_len <= Len(all_code)
      BY <3>5 DEF Range
    <3> QED BY <3>1, <3>3, <3>4, <3>6
  <2> QED BY <2>1, <2>2, <2>3, <2>4 DEF LibraryTypeOK
<1> QED BY <1>1, Invariance, PTL

(* The metadata of a family never contradicts its functions, whatever      *)
(* calls the compiler left in them.                                        *)
THEOREM MetadataFits ==
    Spec => []MetadataAgrees
<1>1. Inv => MetadataAgrees
  BY DEF Inv, ExtractInv, MetadataAgrees
<1> QED BY <1>1, Invariance, PTL

(* The code of an entry of a finished library.                             *)
LEMMA CodeRead ==
    ASSUME ExtractInv, phase = "library", NEW S, NEW uses \in Seq(S), NEW s, NEW e,
           CodeAt(all_code, e, s, uses)
    PROVE  CodeOf(e) = Code(s, uses)
<1>1. tables.code = all_code /\ all_code \in Seq(Cells)
  BY DEF ExtractInv, TablesInv
<1> DEFINE at == e.code_index
           n == e.code_len
<1>2. /\ at \in Nat /\ n = Len(uses) + 1 /\ Len(uses) \in Nat /\ n \in Nat
      /\ at + n <= Len(all_code) /\ Len(all_code) \in Nat
      /\ \A i \in 1..n : all_code[at + i] = <<s, i>>
  BY <1>1 DEF CodeAt
<1>3. CodeOf(e) = SubSeq(all_code, at + 1, at + n)
  BY <1>1 DEF CodeOf
<1> HIDE DEF at, n
<1>4. SubSeq(all_code, at + 1, at + n) = [i \in 1..n |-> all_code[at + i]]
  <2>1. SubSeq(all_code, at + 1, at + n) = [i \in 1..n |-> all_code[at + 1 + i - 1]]
    BY <1>1, <1>2
  <2>2. \A i \in 1..n : at + 1 + i - 1 = at + i
    BY <1>2
  <2> QED BY <2>1, <2>2
<1>5. Code(s, uses) = [i \in 1..n |-> <<s, i>>]
  BY <1>2 DEF Code
<1> QED BY <1>2, <1>3, <1>4, <1>5

(* The list of a stencil, relocation by relocation.                        *)
LEMMA RelocationsAre ==
    ASSUME lib \in Libraries, ExtractInv, NEW s, NEW b, NEW e, NEW uses, NEW list,
           Stencil(s, b, e, uses, list)
    PROVE  /\ Len(list) = Len(uses) /\ DOMAIN list = 1..Len(uses) /\ Len(uses) \in Nat
           /\ Range(list) = {list[o] : o \in 1..Len(uses)}
           /\ \A o \in 1..Len(uses) :
                 /\ list[o].offset = o
                 /\ uses[o].kind # "Call" =>
                       /\ list[o].kind = uses[o].kind /\ list[o].id = uses[o].id
                       /\ list[o] = NewRelocation(s, uses[o], o, uses[o].kind, uses[o].id)
                 /\ uses[o].kind = "Call" =>
                       /\ list[o].kind = "Runtime" /\ list[o].id \in 0..(Len(rt_symbols) - 1)
                       /\ rt_symbols[list[o].id + 1] = uses[o].id
<1>1. /\ SymbolOK(s) /\ uses \in Seq(AnyUse(Family(s.name))) /\ ListOf(s, uses, rt_symbols, list)
      /\ rt_symbols \in Seq(Allowed)
  BY DEF Stencil, ExtractInv
<1>2. /\ list \in Seq(RelocationRec) /\ Len(list) = Len(uses) /\ DOMAIN list = 1..Len(uses)
      /\ Len(uses) \in Nat
  BY <1>1, ElementsOf DEF ListOf
<1>3. Range(list) = {list[o] : o \in 1..Len(uses)}
  BY <1>2 DEF Range
<1>4. ASSUME NEW o \in 1..Len(uses)
      PROVE  /\ list[o].offset = o
             /\ uses[o].kind # "Call" =>
                   /\ list[o].kind = uses[o].kind /\ list[o].id = uses[o].id
                   /\ list[o] = NewRelocation(s, uses[o], o, uses[o].kind, uses[o].id)
             /\ uses[o].kind = "Call" =>
                   /\ list[o].kind = "Runtime" /\ list[o].id \in 0..(Len(rt_symbols) - 1)
                   /\ rt_symbols[list[o].id + 1] = uses[o].id
  <2>1. PICK use, r, symbols : use = uses[o] /\ r = list[o] /\ symbols = rt_symbols
    OBVIOUS
  <2>2. /\ use \in AnyUse(Family(s.name)) /\ o \in Nat /\ RelocationOf(s, use, o, symbols, r)
        /\ symbols \in Seq(Allowed)
    BY <1>1, <1>2, <2>1, ElementsOf DEF ListOf
  <2>3. /\ r.offset = o
        /\ use.kind # "Call" =>
              /\ r.kind = use.kind /\ r.id = use.id
              /\ r = NewRelocation(s, use, o, use.kind, use.id)
        /\ use.kind = "Call" =>
              /\ r.kind = "Runtime" /\ r.id \in 0..(Len(symbols) - 1)
              /\ symbols[r.id + 1] = use.id
    BY <1>1, <2>2, RelocationIs
  <2> QED BY <2>1, <2>3
<1> QED BY <1>2, <1>3, <1>4

(* Each stencil has its own code and its own list of relocations, for any  *)
(* number of stencils that share their lists.                              *)
THEOREM OwnLists ==
    Spec => []ListsIntact
<1>1. ASSUME Inv, phase = "library", NEW s \in DOMAIN compiled
      PROVE  LET b == builders[s.name]
                 entry == b.stencils[io_to_index(Family(s.name), s.placement, s.wide)]
                 list == ListAt(b, entry.relocation_index)
                 uses == compiled[s]
             IN  /\ CodeOf(entry) = Code(s, uses)
                 /\ Len(list) = Len(uses)
                 /\ \A o \in DOMAIN list :
                       /\ list[o].offset = o
                       /\ uses[o].kind # "Call" => list[o].kind = uses[o].kind
                                                   /\ list[o].id = uses[o].id
  <2>1. lib \in Libraries /\ ExtractInv
    BY <1>1 DEF Inv, LibraryInv
  <2>2. PICK b, e, uses :
           b = builders[s.name] /\ e = b.stencils[IndexOf(s)] /\ uses = compiled[s]
    OBVIOUS
  <2>3. PICK list : Stencil(s, b, e, uses, list)
    BY <2>1, <2>2, StencilIs
  <2>4. CodeOf(e) = Code(s, uses)
    BY <1>1, <2>1, <2>3, CodeRead DEF Stencil
  <2>5. /\ Len(list) = Len(uses) /\ DOMAIN list = 1..Len(uses)
        /\ \A o \in 1..Len(uses) :
              /\ list[o].offset = o
              /\ uses[o].kind # "Call" => list[o].kind = uses[o].kind /\ list[o].id = uses[o].id
    BY <2>1, <2>3, RelocationsAre
  <2>6. ListAt(b, e.relocation_index) = list
    BY <2>3 DEF Stencil
  <2> QED BY <2>2, <2>4, <2>5, <2>6, Zenon DEF IndexOf
<1>2. Inv => ListsIntact
  BY <1>1 DEF ListsIntact
<1> QED BY <1>2, Invariance, PTL

(* Calls of a stencil reach what they were written for.                    *)
THEOREM CallsReach ==
    Spec => []CallsArrive
<1>1. ASSUME Inv, phase = "library", NEW s \in DOMAIN compiled
      PROVE  LET b == builders[s.name]
                 entry == b.stencils[io_to_index(Family(s.name), s.placement, s.wide)]
             IN  \A r \in Range(ListAt(b, entry.relocation_index)) :
                     LET use == compiled[s][r.offset]
                     IN  use.kind = "Call" =>
                             /\ r.kind = "Runtime" /\ r.id < Len(tables.rt_symbols)
                             /\ tables.rt_symbols[r.id + 1] = use.id
  <2>1. lib \in Libraries /\ ExtractInv /\ tables.rt_symbols = rt_symbols
    BY <1>1 DEF Inv, LibraryInv, ExtractInv, TablesInv
  <2>2. PICK b, e, uses :
           b = builders[s.name] /\ e = b.stencils[IndexOf(s)] /\ uses = compiled[s]
    OBVIOUS
  <2>3. PICK list : Stencil(s, b, e, uses, list)
    BY <2>1, <2>2, StencilIs
  <2>4. ASSUME NEW r \in Range(list), uses[r.offset].kind = "Call"
        PROVE  /\ r.kind = "Runtime" /\ r.id < Len(rt_symbols)
               /\ rt_symbols[r.id + 1] = uses[r.offset].id
    <3>1. PICK o \in 1..Len(uses) : r = list[o]
      BY <2>1, <2>3, RelocationsAre
    <3>2. /\ list[o].offset = o
          /\ uses[o].kind = "Call" =>
                /\ list[o].kind = "Runtime" /\ list[o].id \in 0..(Len(rt_symbols) - 1)
                /\ rt_symbols[list[o].id + 1] = uses[o].id
      BY <2>1, <2>3, RelocationsAre
    <3>3. Len(rt_symbols) \in Nat
      BY <2>1 DEF ExtractInv
    <3> QED BY <2>4, <3>1, <3>2, <3>3
  <2>5. ListAt(b, e.relocation_index) = list
    BY <2>3 DEF Stencil
  <2> QED BY <2>1, <2>2, <2>4, <2>5, Zenon DEF IndexOf
<1>2. Inv => CallsArrive
  BY <1>1 DEF CallsArrive
<1> QED BY <1>2, Invariance, PTL

-----------------------------------------------------------------------------

(* The places of a function's holes: one for each hole at least, none of   *)
(* which holds a value in a wide function.                                 *)
LacksPlace(list, hs) ==
    \E place \in Range(list) : place.kind = "Hole" /\ ~ supports_value(place, hs[place.id + 1])

NeedsWide(n, c, hs) ==
    \E h \in DOMAIN hs : ~ supports_value(lib.narrow[n][c][h], hs[h])

(* The narrow place of a hole of a function.                               *)
NarrowOf(s, h) == lib.narrow[s.name][s.placement][h]

(* The place of a hole takes a value if the narrow one does.               *)
LEMMA HolePlace ==
    ASSUME NEW s, NEW use, NEW o, NEW v, use.kind = "Hole", s.wide \in BOOLEAN
    PROVE  supports_value(NewRelocation(s, use, o, use.kind, use.id), v)
             <=> ~ s.wide /\ supports_value(NarrowOf(s, use.id + 1), v)
<1> DEFINE place == Shape(s, use)
           r == NewRelocation(s, use, o, use.kind, use.id)
<1>1. r.encoding = place.encoding /\ r.relative = place.relative /\ r.size = place.size
  BY DEF NewRelocation
<1>2. supports_value(r, v) <=> supports_value(place, v)
  <2> HIDE DEF r, place
  <2> QED BY <1>1 DEF supports_value
<1>3. CASE s.wide
  <2>1. place.relative = TRUE
    BY <1>3 DEF Shape
  <2>2. ~ supports_value(place, v)
    <3> HIDE DEF place
    <3> QED BY <2>1 DEF supports_value
  <2> QED BY <1>2, <1>3, <2>2
<1>4. CASE ~ s.wide
  <2>1. place = NarrowOf(s, use.id + 1)
    BY <1>4 DEF Shape, NarrowOf
  <2> QED BY <1>2, <1>4, <2>1
<1> QED BY <1>3, <1>4

(* select finds a place missing exactly where the wide stencil is needed.  *)
LEMMA HolesRead ==
    ASSUME lib \in Libraries, NEW s, SymbolOK(s), NEW calls \in Callings,
           NEW symbols \in Seq(Allowed), NEW list,
           ListOf(s, UsesOf(s, calls), symbols, list),
           NEW hs \in HoleValues(Family(s.name))
    PROVE  LacksPlace(list, hs) <=> (s.wide \/ NeedsWide(s.name, s.placement, hs))
<1> DEFINE fam == Family(s.name)
<1>1. PICK uses : uses = UsesOf(s, calls)
  OBVIOUS
<1>2. /\ uses \in Seq(AnyUse(fam)) /\ HoleUse(fam) \subseteq Range(uses)
      /\ fam.holes \in Nat /\ s.wide \in BOOLEAN /\ (s.wide => fam.holes > 0)
      /\ DOMAIN hs = 1..fam.holes
      /\ list \in Seq(RelocationRec) /\ Len(list) = Len(uses)
  BY <1>1, UsesTyped, Families DEF SymbolOK, HoleValues, ListOf
<1>3. ASSUME NEW o \in 1..Len(uses)
      PROVE  /\ list[o].kind = "Hole" <=> uses[o].kind = "Hole"
             /\ uses[o].kind = "Hole" =>
                   /\ list[o].id = uses[o].id /\ uses[o].id \in 0..(fam.holes - 1)
                   /\ \A v : supports_value(list[o], v)
                               <=> ~ s.wide /\ supports_value(NarrowOf(s, uses[o].id + 1), v)
  <2>1. PICK use, r : use = uses[o] /\ r = list[o]
    OBVIOUS
  <2>2. use \in AnyUse(fam) /\ o \in Nat /\ RelocationOf(s, use, o, symbols, r)
    BY <1>1, <1>2, <2>1, ElementsOf DEF ListOf
  <2>3. /\ use.kind # "Call" =>
              /\ r.kind = use.kind /\ r.id = use.id
              /\ r = NewRelocation(s, use, o, use.kind, use.id)
        /\ use.kind = "Call" => r.kind = "Runtime"
    BY <2>2, RelocationIs
  <2>4. use.kind = "Hole" => use.id \in 0..(fam.holes - 1)
    BY <2>2, KindOfUse
  <2>5. ASSUME use.kind = "Hole", NEW v
        PROVE  supports_value(r, v) <=> ~ s.wide /\ supports_value(NarrowOf(s, use.id + 1), v)
    <3>1. r = NewRelocation(s, use, o, use.kind, use.id)
      BY <2>3, <2>5
    <3> QED BY <1>2, <2>5, <3>1, HolePlace
  <2>6. r.kind = "Hole" <=> use.kind = "Hole"
    BY <2>3
  <2> QED BY <2>1, <2>3, <2>4, <2>5, <2>6
<1> HIDE DEF fam
<1>4. ASSUME LacksPlace(list, hs)
      PROVE  s.wide \/ NeedsWide(s.name, s.placement, hs)
  <2>1. PICK o \in 1..Len(uses) :
           list[o].kind = "Hole" /\ ~ supports_value(list[o], hs[list[o].id + 1])
    BY <1>2, <1>4, ValuesOf DEF LacksPlace
  <2>2. PICK h : h = list[o].id + 1
    OBVIOUS
  <2>3. /\ h \in DOMAIN hs /\ h = uses[o].id + 1
        /\ ~ (~ s.wide /\ supports_value(NarrowOf(s, h), hs[h]))
    <3>1. /\ list[o].id = uses[o].id /\ uses[o].id \in 0..(fam.holes - 1)
          /\ supports_value(list[o], hs[h])
                <=> ~ s.wide /\ supports_value(NarrowOf(s, uses[o].id + 1), hs[h])
      BY <1>3, <2>1
    <3>2. h = uses[o].id + 1 /\ ~ supports_value(list[o], hs[h])
      BY <2>1, <2>2, <3>1
    <3>3. h \in DOMAIN hs
      BY <1>2, <3>1, <3>2
    <3> QED BY <3>1, <3>2, <3>3
  <2> QED BY <1>2, <2>3 DEF NeedsWide, NarrowOf
<1>5. ASSUME s.wide \/ NeedsWide(s.name, s.placement, hs)
      PROVE  LacksPlace(list, hs)
  <2>1. PICK h \in 1..fam.holes : ~ (~ s.wide /\ supports_value(NarrowOf(s, h), hs[h]))
    <3>1. CASE s.wide
      <4>1. 1 \in 1..fam.holes
        BY <1>2, <3>1
      <4> QED BY <3>1, <4>1
    <3>2. CASE NeedsWide(s.name, s.placement, hs)
      BY <1>2, <3>2 DEF NeedsWide, NarrowOf
    <3> QED BY <1>5, <3>1, <3>2
  <2>2. PICK use : use = Use("Hole", h - 1)
    OBVIOUS
  <2>3. use \in HoleUse(fam) /\ use.kind = "Hole" /\ use.id = h - 1
    BY <1>2, <2>1, <2>2 DEF Use, HoleUse
  <2>4. PICK o \in 1..Len(uses) : uses[o] = use
    BY <1>2, <2>3, ValuesOf
  <2>5. /\ list[o].kind = "Hole" /\ list[o].id = h - 1
        /\ \A v : supports_value(list[o], v)
                    <=> ~ s.wide /\ supports_value(NarrowOf(s, uses[o].id + 1), v)
    BY <1>3, <2>3, <2>4
  <2>6. uses[o].id + 1 = h /\ list[o].id + 1 = h
    BY <2>3, <2>4, <2>5
  <2>7. ~ supports_value(list[o], hs[list[o].id + 1])
    BY <2>1, <2>5, <2>6
  <2>8. list[o] \in Range(list)
    BY <1>2 DEF Range
  <2> QED BY <2>5, <2>7, <2>8 DEF LacksPlace
<1> QED BY <1>4, <1>5

(* The stencil of an emission: its operands are a placement of its family. *)
LEMMA BitsArePlaced ==
    ASSUME lib \in Libraries, NEW n \in DOMAIN lib.families, NEW ls \in Operands(Family(n))
    PROVE  Bits(ls) \in Placements(Family(n))
<1> DEFINE fam == Family(n)
           L == {Reg(i) : i \in 0..(fam.regs - 2)} \cup {Stk(i) : i \in 0..(StackSlots - 1)}
           c == Bits(ls)
<1>1. /\ fam.regs \in Nat /\ fam.regs > 0 /\ fam.ins \in Nat /\ Values(fam) \in Nat
      /\ FamilyOK(fam)
  BY Families
<1>2. /\ ls \in [1..Values(fam) -> L]
      /\ \A i, j \in (fam.ins + 1)..Values(fam) : ls[i] = ls[j] => i = j
  BY DEF Operands
<1>3. ASSUME NEW l \in L
      PROVE  \/ l.kind = "Stack"
             \/ l.kind = "Register" /\ l.index \in 0..(fam.regs - 2) /\ l = Reg(l.index)
  BY DEF Reg, Stk
<1>4. c = [i \in 1..Values(fam) |-> IF ls[i].kind = "Stack" THEN 0 ELSE ls[i].index + 1]
  BY <1>2 DEF Bits
<1> HIDE DEF c, L, fam
<1>5. ASSUME NEW i \in 1..Values(fam)
      PROVE  /\ c[i] \in 0..(fam.regs - 1)
             /\ c[i] # 0 => ls[i] = Reg(c[i] - 1)
  <2>1. ls[i] \in L
    BY <1>2
  <2>2. CASE ls[i].kind = "Stack"
    BY <1>1, <1>4, <2>2
  <2>3. CASE ls[i].kind = "Register" /\ ls[i].index \in 0..(fam.regs - 2) /\ ls[i] = Reg(ls[i].index)
    <3>1. c[i] = ls[i].index + 1
      BY <1>4, <2>3
    <3>2. c[i] \in 0..(fam.regs - 1) /\ c[i] - 1 = ls[i].index
      BY <1>1, <2>3, <3>1
    <3> QED BY <2>3, <3>2
  <2> QED BY <1>3, <2>1, <2>2, <2>3
<1>6. \A i, j \in (fam.ins + 1)..Values(fam) : c[i] = c[j] => i = j \/ c[i] = 0
  <2>1. \A i \in (fam.ins + 1)..Values(fam) : i \in 1..Values(fam)
    BY <1>1
  <2> QED BY <1>2, <1>5, <2>1
<1>7. c \in [1..Values(fam) -> 0..(fam.regs - 1)]
  BY <1>4, <1>5
<1> QED BY <1>6, <1>7 DEF Placements, c, fam

(* The entry that an emission comes to is that of one symbol.              *)
LEMMA EntryIs ==
    ASSUME Inv, phase = "library", NEW n \in DOMAIN tables.families,
           NEW ls \in Operands(Family(n)), NEW w \in BOOLEAN,
           w => Family(n).holes > 0, NEW s, s = Symbol(n, Bits(ls), w)
    PROVE  /\ n \in DOMAIN lib.families /\ n \in DOMAIN builders
           /\ tables.families[n] = builders[n]
           /\ SymbolOK(s) /\ s.name = n /\ s.wide = w
           /\ Entry(n, ls, w) = builders[n].stencils[IndexOf(s)]
<1>1. /\ n \in DOMAIN builders /\ tables.families[n] = builders[n]
      /\ n \in DOMAIN lib.families /\ lib \in Libraries
  BY DEF Inv, LibraryInv, ExtractInv, TablesInv
<1>2. s.name = n /\ s.placement = Bits(ls) /\ s.wide = w
  BY DEF Symbol
<1>3. SymbolOK(s)
  BY <1>1, <1>2, BitsArePlaced DEF SymbolOK
<1> QED BY <1>1, <1>2, <1>3 DEF Entry, IndexOf

(* Whether a wide stencil is selected: where a narrow one was extracted,   *)
(* its holes decide; where none was, those of the pool's first list, which *)
(* is that of another function of the family.                              *)
LEMMA WideIs ==
    ASSUME Inv, phase = "library", NEW n \in DOMAIN tables.families,
           NEW ls \in Operands(Family(n)), NEW hs \in HoleValues(Family(n))
    PROVE  /\ NeedsWide(n, Bits(ls), hs) => Family(n).holes > 0
           /\ Symbol(n, Bits(ls), FALSE) \in DOMAIN compiled =>
                 (Wide(n, ls, hs) <=> NeedsWide(n, Bits(ls), hs))
           /\ Symbol(n, Bits(ls), FALSE) \notin DOMAIN compiled =>
                 \/ Wide(n, ls, hs)
                 \/ \E o \in DOMAIN compiled :
                       o.name = n /\ ~ o.wide /\ ~ NeedsWide(n, o.placement, hs)
           /\ Wide(n, ls, hs) => Family(n).holes > 0
<1>1. PICK w \in BOOLEAN : w = FALSE
  OBVIOUS
<1>2. PICK s, b, e : s = Symbol(n, Bits(ls), w) /\ b = builders[n] /\ e = Entry(n, ls, w)
  OBVIOUS
<1>3. ~ w
  BY <1>1
<1>4. /\ n \in DOMAIN lib.families /\ n \in DOMAIN builders
      /\ tables.families[n] = b
      /\ SymbolOK(s) /\ s.name = n /\ s.wide = w /\ e = b.stencils[IndexOf(s)]
      /\ s.placement = Bits(ls)
  BY <1>2, <1>3, EntryIs DEF Symbol
<1>5. /\ lib \in Libraries /\ ExtractInv /\ TableInv(n, b) /\ rt_symbols \in Seq(Allowed)
  BY <1>2, <1>4 DEF Inv, LibraryInv, ExtractInv
<1>6. PICK at, list : at = e.relocation_index /\ list = ListAt(b, at)
  OBVIOUS
<1>7. Wide(n, ls, hs) <=> LacksPlace(list, hs)
  <2>1. Entry(n, ls, FALSE) = e
    BY <1>1, <1>2, Zenon
  <2> QED BY <1>4, <1>6, <2>1, Zenon DEF Wide, LacksPlace
<1>8. \A c : NeedsWide(n, c, hs) => Family(n).holes > 0
  <2>1. DOMAIN hs = 1..Family(n).holes /\ Family(n).holes \in Nat
    BY <1>4, <1>5, Families DEF HoleValues
  <2> QED BY <2>1 DEF NeedsWide
<1>9. CASE s \in DOMAIN compiled
  <2>1. PICK l : Stencil(s, b, e, compiled[s], l)
    BY <1>2, <1>4, <1>5, <1>9, StencilIs
  <2>2. PICK calls \in Callings : compiled[s] = UsesOf(s, calls)
    BY <2>1 DEF Stencil
  <2>3. PICK symbols : symbols = rt_symbols
    OBVIOUS
  <2>4. l = list /\ ListOf(s, UsesOf(s, calls), symbols, list) /\ symbols \in Seq(Allowed)
    BY <1>5, <1>6, <2>1, <2>2, <2>3 DEF Stencil
  <2>5. LacksPlace(list, hs) <=> (s.wide \/ NeedsWide(n, Bits(ls), hs))
    BY <1>4, <1>5, <2>4, HolesRead
  <2>6. Symbol(n, Bits(ls), FALSE) \in DOMAIN compiled
    BY <1>1, <1>2, <1>9, Zenon
  <2> QED BY <1>3, <1>4, <1>7, <1>8, <2>5, <2>6
<1>10. CASE s \notin DOMAIN compiled
  <2>1. Symbol(n, Bits(ls), FALSE) \notin DOMAIN compiled
    BY <1>1, <1>2, <1>10, Zenon
  <2>2. e = Default
    <3>1. IndexOf(s) \in DOMAIN b.stencils
      BY <1>4, <1>5, EntryOfSymbol DEF TableInv
    <3>2. \/ e = Default
          \/ \E o \in DOMAIN compiled : o.name = n /\ IndexOf(o) = IndexOf(s)
      BY <1>4, <1>5, <3>1 DEF TableInv
    <3>3. ASSUME NEW o \in DOMAIN compiled, o.name = n, IndexOf(o) = IndexOf(s)
          PROVE  FALSE
      <4>1. SymbolOK(o)
        BY <1>5 DEF ExtractInv, StencilInv
      <4>2. o = s
        BY <1>4, <1>5, <3>3, <4>1, SymbolOfEntry
      <4> QED BY <1>10, <4>2
    <3> QED BY <3>2, <3>3
  <2>3. at = 0
    BY <1>6, <2>2 DEF Default
  <2>4. PICK l \in DOMAIN b.existing :
           b.existing[l] = 0 /\ Listed(DOMAIN compiled, n, rt_symbols, l)
    BY <1>5 DEF TableInv
  <2>5. l = list
    <3>1. b.relocation_data \in Pool /\ Stored(b.relocation_data, at, l)
      BY <1>5, <2>3, <2>4 DEF TableInv, PoolOK
    <3> QED BY <1>6, <3>1, StoredIsRead
  <2>6. PICK o \in DOMAIN compiled, calls \in Callings :
           o.name = n /\ ListOf(o, UsesOf(o, calls), rt_symbols, l)
    BY <2>4 DEF Listed
  <2>7. PICK symbols : symbols = rt_symbols
    OBVIOUS
  <2>8. /\ SymbolOK(o) /\ symbols \in Seq(Allowed) /\ hs \in HoleValues(Family(o.name))
        /\ ListOf(o, UsesOf(o, calls), symbols, list)
    BY <1>5, <2>5, <2>6, <2>7 DEF ExtractInv, StencilInv
  <2>9. LacksPlace(list, hs) <=> (o.wide \/ NeedsWide(n, o.placement, hs))
    BY <1>5, <2>6, <2>8, HolesRead
  <2>10. o.wide => Family(n).holes > 0
    BY <2>6, <2>8 DEF SymbolOK
  <2> QED BY <1>7, <1>8, <2>1, <2>6, <2>9, <2>10
<1> QED BY <1>9, <1>10

(* select, by the width it decides on.                                     *)
LEMMA SelectIs ==
    ASSUME NEW n, NEW ls, NEW hs
    PROVE  \E w \in BOOLEAN : (w <=> Wide(n, ls, hs)) /\ Select(n, ls, hs) = Entry(n, ls, w)
<1>1. Wide(n, ls, hs) \in BOOLEAN
  BY Zenon DEF Wide
<1>2. Select(n, ls, hs) = Entry(n, ls, Wide(n, ls, hs))
  BY Zenon DEF Select
<1> QED BY <1>1, <1>2, Zenon

(* A stencil that was extracted has an entry with code.                    *)
LEMMA CompiledHasCode ==
    ASSUME Inv, phase = "library", NEW n \in DOMAIN tables.families,
           NEW ls \in Operands(Family(n)), NEW w \in BOOLEAN,
           w => Family(n).holes > 0, Symbol(n, Bits(ls), w) \in DOMAIN compiled
    PROVE  Entry(n, ls, w).code_len # 0
<1>1. PICK s : s = Symbol(n, Bits(ls), w)
  OBVIOUS
<1>2. /\ s.name = n /\ Entry(n, ls, w) = builders[n].stencils[IndexOf(s)]
  BY <1>1, EntryIs
<1>3. lib \in Libraries /\ ExtractInv
  BY DEF Inv, LibraryInv
<1>4. PICK e, list : e = Entry(n, ls, w) /\ Stencil(s, builders[n], e, compiled[s], list)
  BY <1>1, <1>2, <1>3, StencilIs
<1>5. e.code_len = Len(compiled[s]) + 1 /\ Len(compiled[s]) \in Nat
  BY <1>4, ElementsOf DEF Stencil, CodeAt
<1> QED BY <1>4, <1>5

(* A stencil that was extracted is found by every emission it is for,      *)
(* unless the narrow one of its placement was not and another one takes    *)
(* the hole values.                                                        *)
Hidden(n, c, hs) ==
    /\ Symbol(n, c, FALSE) \notin DOMAIN compiled
    /\ \E s \in DOMAIN compiled : s.name = n /\ ~ s.wide /\ ~ NeedsWide(n, s.placement, hs)

THEOREM FindsExtracted ==
    Spec => []SelectFinds
<1>1. ASSUME Inv, phase = "library", NEW n \in DOMAIN tables.families,
             NEW ls \in Operands(Family(n)), NEW hs \in HoleValues(Family(n)),
             Symbol(n, Bits(ls), NeedsWide(n, Bits(ls), hs)) \in DOMAIN compiled,
             ~ Hidden(n, Bits(ls), hs)
      PROVE  Found(n, ls, hs)
  <2>1. PICK w \in BOOLEAN : (w <=> Wide(n, ls, hs)) /\ Select(n, ls, hs) = Entry(n, ls, w)
    BY SelectIs
  <2>2. PICK c, needs : c = Bits(ls) /\ needs = NeedsWide(n, c, hs)
    OBVIOUS
  <2>3. needs \in BOOLEAN /\ (needs <=> NeedsWide(n, c, hs))
    BY <2>2, Zenon DEF NeedsWide
  <2>4. Symbol(n, c, needs) \in DOMAIN compiled /\ ~ Hidden(n, c, hs)
    BY <1>1, <2>2, Zenon
  <2>5. /\ NeedsWide(n, c, hs) => Family(n).holes > 0
        /\ Symbol(n, c, FALSE) \in DOMAIN compiled =>
              (Wide(n, ls, hs) <=> NeedsWide(n, c, hs))
        /\ Symbol(n, c, FALSE) \notin DOMAIN compiled =>
              \/ Wide(n, ls, hs)
              \/ \E o \in DOMAIN compiled :
                    o.name = n /\ ~ o.wide /\ ~ NeedsWide(n, o.placement, hs)
    BY <1>1, <2>2, WideIs, Zenon
  <2>6. Wide(n, ls, hs) <=> NeedsWide(n, c, hs)
    <3>1. CASE Symbol(n, c, FALSE) \in DOMAIN compiled
      BY <2>5, <3>1, Zenon
    <3>2. CASE Symbol(n, c, FALSE) \notin DOMAIN compiled
      <4>1. Wide(n, ls, hs)
        BY <2>4, <2>5, <3>2, Zenon DEF Hidden
      <4>2. needs = TRUE
        <5>1. CASE needs = FALSE
          BY <2>4, <3>2, <5>1, Zenon
        <5> QED BY <2>3, <5>1
      <4> QED BY <2>3, <4>1, <4>2
    <3> QED BY <3>1, <3>2
  <2>7. w = needs
    BY <2>1, <2>3, <2>6
  <2>8. w => Family(n).holes > 0
    BY <2>3, <2>5, <2>7
  <2>9. Entry(n, ls, w).code_len # 0
    BY <1>1, <2>2, <2>4, <2>7, <2>8, CompiledHasCode
  <2> QED BY <2>1, <2>9, Zenon DEF Found
<1>2. Inv => SelectFinds
  BY <1>1, Zenon DEF SelectFinds, NeedsWide, Hidden
<1> QED BY <1>2, Invariance, PTL

-----------------------------------------------------------------------------

(* Powers of two, as shifting 1 makes them.                                *)
ShiftOp(ctx, b, i) == b + b

Shifting == INSTANCE FoldTheorems WITH Op <- ShiftOp, Inv <- Trivial

(* The powers of two are a fold.                                           *)
LEMMA BitIsFold ==
    Bit = [n \in 0..WordBits |-> Shifting!Fold(0, 1, [i \in 1..n |-> i])]
<1> QED BY Zenon DEF Bit, FoldLeft, MapThenFoldSet, Max, ShiftOp,
             Shifting!Fold, Shifting!Folded, Shifting!Solves, Shifting!Largest

Doubles(p, n) == p[0] = 1 /\ \A k \in 1..n : p[k] = p[k - 1] + p[k - 1]

LEMMA BitDoubles ==
    ASSUME NEW n \in 0..WordBits
    PROVE  \E p : Doubles(p, n) /\ Bit[n] = p[n]
<1> DEFINE seq == [i \in 1..n |-> i]
           p == [k \in 0..n |-> Shifting!Prefix(0, 1, seq, k)]
<1>1. WordBits \in Nat /\ n \in Nat /\ DOMAIN seq = 1..n
  BY WordAssumption
<1>2. Bit[n] = Shifting!Fold(0, 1, seq)
  BY BitIsFold
<1> HIDE DEF seq
<1>3. Shifting!Stepwise(0, 1, seq, n)
  BY <1>1, Shifting!FoldSteps
<1>4. /\ Shifting!Prefix(0, 1, seq, 0) = 1
      /\ Shifting!Prefix(0, 1, seq, n) = Bit[n]
      /\ \A k \in 1..n : Shifting!Prefix(0, 1, seq, k)
                            = Shifting!Prefix(0, 1, seq, k - 1) + Shifting!Prefix(0, 1, seq, k - 1)
  BY <1>1, <1>2, <1>3 DEF Shifting!Stepwise, ShiftOp
<1>5. 0 \in 0..n /\ n \in 0..n /\ \A k \in 1..n : k \in 0..n /\ k - 1 \in 0..n
  BY <1>1
<1>6. Doubles(p, n) /\ Bit[n] = p[n]
  BY <1>4, <1>5 DEF Doubles
<1> QED BY <1>6

(* The powers of two, up to that of the word.                              *)
LEMMA BitIs ==
    /\ WordBits \in Nat /\ WordBits > 0
    /\ Bit[0] = 1
    /\ \A n \in 0..WordBits : Bit[n] \in Nat /\ Bit[n] > 0
    /\ \A n \in 1..WordBits : Bit[n] = Bit[n - 1] + Bit[n - 1]
<1>1. WordBits \in Nat /\ WordBits > 0 /\ WordBits \in 0..WordBits
  BY WordAssumption
<1>2. PICK q : Doubles(q, WordBits)
  BY <1>1, BitDoubles
<1>3. ASSUME NEW n \in 0..WordBits
      PROVE  Bit[n] = q[n]
  <2>1. PICK p : Doubles(p, n) /\ Bit[n] = p[n]
    BY BitDoubles
  <2> DEFINE T == {k \in 0..n : p[k] = q[k]}
  <2>2. n \in Nat /\ 1..n \subseteq 1..WordBits
    BY <1>1
  <2>3. 0 \in T
    BY <1>2, <2>1, <2>2 DEF Doubles
  <2>4. \A k \in 1..n : k - 1 \in T => k \in T
    BY <1>2, <2>1, <2>2 DEF Doubles
  <2> HIDE DEF T
  <2>5. \A k \in 0..n : k \in T
    BY <2>2, <2>3, <2>4, Upwards
  <2>6. n \in T
    BY <2>2, <2>5
  <2> QED BY <2>1, <2>6 DEF T
<1>4. \A n \in 0..WordBits : q[n] \in Nat /\ q[n] > 0
  <2> DEFINE T == {k \in 0..WordBits : q[k] \in Nat /\ q[k] > 0}
  <2>1. 0 \in T
    BY <1>1, <1>2 DEF Doubles
  <2>2. \A k \in 1..WordBits : k - 1 \in T => k \in T
    BY <1>1, <1>2 DEF Doubles
  <2> HIDE DEF T
  <2>3. \A k \in 0..WordBits : k \in T
    BY <1>1, <2>1, <2>2, Upwards
  <2> QED BY <2>3 DEF T
<1>5. \A n \in 1..WordBits : n \in 0..WordBits /\ n - 1 \in 0..WordBits
  BY <1>1
<1>6. 0 \in 0..WordBits
  BY <1>1
<1>7. \A n \in 1..WordBits : q[n] = q[n - 1] + q[n - 1]
  BY <1>2 DEF Doubles
<1>8. q[0] = 1
  BY <1>2 DEF Doubles
<1> QED BY <1>1, <1>3, <1>4, <1>5, <1>6, <1>7, <1>8

(* Wider places hold more.                                                 *)
LEMMA BitGrows ==
    ASSUME NEW m \in 0..WordBits, NEW n \in 0..WordBits, m < n
    PROVE  Bit[m] < Bit[n]
<1> DEFINE T == {k \in 0..n : m < k => Bit[m] < Bit[k]}
<1>1. WordBits \in Nat /\ m \in Nat /\ n \in Nat /\ 0 \in T
  BY BitIs
<1>2. ASSUME NEW k \in 1..n, k - 1 \in T
      PROVE  k \in T
  <2>1. /\ k \in 1..WordBits /\ k \in 0..WordBits /\ k - 1 \in 0..WordBits
        /\ k \in 0..n /\ k \in Nat
    BY <1>1
  <2>2. /\ Bit[k] = Bit[k - 1] + Bit[k - 1] /\ Bit[k - 1] > 0
        /\ Bit[k - 1] \in Nat /\ Bit[m] \in Nat
    BY <2>1, BitIs
  <2>3. m < k => m = k - 1 \/ m < k - 1
    BY <1>1, <2>1
  <2>4. m < k - 1 => Bit[m] < Bit[k - 1]
    BY <1>2
  <2>5. m < k => Bit[m] < Bit[k]
    BY <2>2, <2>3, <2>4
  <2> QED BY <2>1, <2>5
<1> HIDE DEF T
<1>3. \A k \in 0..n : k \in T
  BY <1>1, <1>2, Upwards
<1>4. n \in T
  BY <1>1, <1>3
<1> QED BY <1>4 DEF T

(* An entry with code is that of the function for its placement.           *)
LEMMA FoundIs ==
    ASSUME Inv, phase = "library", NEW n \in DOMAIN tables.families,
           NEW ls \in Operands(Family(n)), NEW w \in BOOLEAN,
           w => Family(n).holes > 0, Entry(n, ls, w).code_len # 0
    PROVE  \E s, list :
              /\ s = Symbol(n, Bits(ls), w) /\ s \in DOMAIN compiled
              /\ Stencil(s, builders[n], Entry(n, ls, w), compiled[s], list)
              /\ CodeOf(Entry(n, ls, w))[1][1] = s
<1>1. PICK s, b, e : s = Symbol(n, Bits(ls), w) /\ b = builders[n] /\ e = Entry(n, ls, w)
  OBVIOUS
<1>2. /\ n \in DOMAIN lib.families /\ n \in DOMAIN builders
      /\ tables.families[n] = b
      /\ SymbolOK(s) /\ s.name = n /\ e = b.stencils[IndexOf(s)]
  BY <1>1, EntryIs
<1>3. /\ lib \in Libraries /\ ExtractInv /\ TableInv(n, b)
  BY <1>1, <1>2 DEF Inv, LibraryInv, ExtractInv
<1>4. s \in DOMAIN compiled
  <2>1. IndexOf(s) \in DOMAIN b.stencils
    BY <1>2, <1>3, EntryOfSymbol DEF TableInv
  <2>2. e # Default
    BY <1>1 DEF Default
  <2>3. PICK o \in DOMAIN compiled : o.name = n /\ IndexOf(o) = IndexOf(s)
    BY <1>2, <1>3, <2>1, <2>2 DEF TableInv
  <2>4. SymbolOK(o)
    BY <1>3 DEF ExtractInv, StencilInv
  <2>5. o = s
    BY <1>2, <1>3, <2>3, <2>4, SymbolOfEntry
  <2> QED BY <2>5
<1>5. PICK list : Stencil(s, b, e, compiled[s], list)
  BY <1>1, <1>2, <1>3, <1>4, StencilIs
<1>6. CodeOf(e)[1][1] = s
  <2>1. PICK uses : uses = compiled[s]
    OBVIOUS
  <2>2. uses \in Seq(AnyUse(Family(s.name))) /\ CodeAt(all_code, e, s, uses)
    BY <1>5, <2>1 DEF Stencil
  <2>3. CodeOf(e) = Code(s, uses)
    BY <1>1, <1>3, <2>2, CodeRead
  <2>4. 1 \in 1..(Len(uses) + 1)
    BY <2>2, ElementsOf
  <2> QED BY <2>3, <2>4 DEF Code
<1> QED BY <1>1, <1>4, <1>5, <1>6

(* The greatest word is too much for every place that is not sign-extended *)
(* and is narrower than a word.                                            *)
LEMMA GreatestWord ==
    ASSUME NEW place, place.encoding \in {"Generic", "X86Signed"}, place.size \in 1..WordBits,
           place.relative \/ (place.encoding # "X86Signed" /\ place.size # WordBits)
    PROVE  ~ supports_value(place, MaxWord)
<1>1. WordBits \in Nat /\ WordBits \in 0..WordBits /\ place.size \in 0..WordBits /\ place.size # 0
  BY BitIs
<1>2. CASE place.relative
  BY <1>2 DEF supports_value
<1>3. CASE place.encoding # "X86Signed" /\ place.size # WordBits
  <2>1. place.size < WordBits
    BY <1>1, <1>3
  <2>2. Bit[place.size] < Bit[WordBits] /\ Bit[place.size] \in Nat /\ Bit[WordBits] \in Nat
    BY <1>1, <2>1, BitIs, BitGrows
  <2>3. ~ (MaxWord < Bit[place.size])
    BY <2>2 DEF MaxWord
  <2>4. ~ (place.size >= WordBits)
    BY <1>1, <2>1
  <2> QED BY <1>1, <1>3, <2>3, <2>4 DEF supports_value, fits_unsigned
<1> QED BY <1>2, <1>3

(* The long jump reads its target from memory, unless a narrow place of    *)
(* its only hole can hold every word.                                      *)
THEOREM LongJumpsFar ==
    Spec => []LongJumpIsWide
<1> DEFINE n == "__long_jump"
           ls == <<>>
           hs == <<LongJumpHole>>
           place == lib.narrow[n][ls][1]
           Holds == \/ ~ place.relative
                       /\ (place.encoding = "X86Signed" \/ place.size = WordBits)
                    \/ ~ Found(n, ls, hs)
                    \/ CodeOf(Select(n, ls, hs))[1][1].wide /\ Wide(n, ls, hs)
<1>1. ASSUME Inv, phase = "library", n \in DOMAIN tables.families
      PROVE  Holds
  <2>1. /\ n \in DOMAIN lib.families /\ lib \in Libraries
    BY <1>1 DEF Inv, LibraryInv, ExtractInv, TablesInv
  <2>2. /\ Values(Family(n)) = 0 /\ Family(n).holes = 1 /\ Family(n).ins \in Nat
    BY <2>1, LibraryAssumption DEF Family, FamilyOK
  <2>3. ls \in Operands(Family(n))
    <3>1. DOMAIN ls = {} /\ 1..Values(Family(n)) = {}
      BY <2>2
    <3>2. (Family(n).ins + 1)..Values(Family(n)) = {}
      BY <2>2
    <3>3. \A S : ls \in [1..Values(Family(n)) -> S]
      BY <3>1
    <3> QED BY <3>2, <3>3 DEF Operands
  <2>4. hs \in HoleValues(Family(n)) /\ DOMAIN hs = {1} /\ hs[1] = MaxWord
    <3>1. MaxWord \in Words
      BY BitIs DEF MaxWord, Words
    <3>2. DOMAIN hs = 1..1 /\ hs[1] = MaxWord
      BY DEF LongJumpHole
    <3> QED BY <2>2, <3>1, <3>2 DEF HoleValues
  <2>5. Bits(ls) = ls
    BY DEF Bits
  <2>6. /\ place.encoding \in {"Generic", "X86Signed"}
        /\ place.size \in 1..WordBits /\ place.relative \in BOOLEAN
    <3>1. ls \in Placements(Family(n))
      BY <2>1, <2>3, <2>5, BitsArePlaced
    <3>2. place \in PlaceShape
      <4>1. 1 \in 1..Family(n).holes
        BY <2>2
      <4>2. \A c \in Placements(Family(n)), h \in 1..Family(n).holes :
               lib.narrow[n][c][h] \in PlaceShape
        BY <2>1, LibraryAssumption DEF Family
      <4> QED BY <3>1, <4>1, <4>2
    <3> QED BY <3>2 DEF PlaceShape
  <2> HIDE DEF n, ls, hs
  <2>7. SUFFICES ASSUME \/ place.relative
                        \/ (place.encoding # "X86Signed" /\ place.size # WordBits),
                        Found(n, ls, hs)
                 PROVE  CodeOf(Select(n, ls, hs))[1][1].wide /\ Wide(n, ls, hs)
    BY <2>6
  <2>8. NeedsWide(n, ls, hs)
    BY <2>4, <2>6, <2>7, GreatestWord DEF NeedsWide
  <2>9. /\ NeedsWide(n, Bits(ls), hs) => Family(n).holes > 0
        /\ Symbol(n, Bits(ls), FALSE) \in DOMAIN compiled =>
              (Wide(n, ls, hs) <=> NeedsWide(n, Bits(ls), hs))
        /\ Wide(n, ls, hs) => Family(n).holes > 0
    BY <1>1, <2>3, <2>4, WideIs
  <2>10. PICK w \in BOOLEAN : (w <=> Wide(n, ls, hs)) /\ Select(n, ls, hs) = Entry(n, ls, w)
    BY SelectIs
  <2>11. Entry(n, ls, w).code_len # 0
    BY <2>7, <2>10 DEF Found
  <2>12. PICK s : /\ s = Symbol(n, Bits(ls), w) /\ s \in DOMAIN compiled
                  /\ CodeOf(Entry(n, ls, w))[1][1] = s
    <3>1. w => Family(n).holes > 0
      BY <2>9, <2>10
    <3> QED BY <1>1, <2>3, <2>11, <3>1, FoundIs
  <2>13. s.wide = w
    BY <2>12 DEF Symbol
  <2>14. CASE w = FALSE
    <3>1. Symbol(n, Bits(ls), FALSE) \in DOMAIN compiled
      BY <2>12, <2>14, Zenon
    <3>2. Wide(n, ls, hs)
      BY <2>5, <2>8, <2>9, <3>1, Zenon
    <3> QED BY <2>10, <2>14, <3>2
  <2>15. CASE w = TRUE
    BY <2>10, <2>12, <2>13, <2>15
  <2> QED BY <2>14, <2>15
<1>2. Inv => LongJumpIsWide
  BY <1>1 DEF LongJumpIsWide
<1> QED BY <1>2, Invariance, PTL

-----------------------------------------------------------------------------

(* Taking an index apart, from the last number to the first.               *)
LEMMA Division ==
    ASSUME NEW q \in Nat, NEW r \in Nat, r > 0
    PROVE  q \div r \in Nat /\ q % r \in 0..(r - 1) /\ q = r * (q \div r) + (q % r)
<1> QED OBVIOUS

(* What is left of a number by a division, and how it wraps.               *)
LEMMA SmallRemainder ==
    ASSUME NEW m \in Nat, m > 0, NEW x \in 0..(m - 1)
    PROVE  x % m = x
<1> QED OBVIOUS

(* Division with remainder.                                                *)
LEMMA Remainder ==
    ASSUME NEW m \in Nat, m > 0, NEW d \in Int
    PROVE  d % m \in 0..(m - 1) /\ d \div m \in Int /\ d = m * (d \div m) + (d % m)
<1> QED OBVIOUS

LEMMA Wraps ==
    ASSUME NEW m \in Nat, m > 0, NEW v \in 0..(m - 1), NEW k \in Int
    PROVE  (v - m * k) % m = v
<1>1. PICK d \in Int : d = v - m * k
  OBVIOUS
<1>2. PICK q \in Int, r \in 0..(m - 1) : d = m * q + r /\ r = d % m
  BY Remainder
<1>3. PICK t \in Int : t = k + q
  OBVIOUS
<1>4. m * t = m * k + m * q /\ m * k \in Int /\ m * q \in Int
  BY <1>3
<1>5. m * t = v - r
  BY <1>1, <1>2, <1>4
<1>6. t >= 1 => m * t >= m
  OBVIOUS
<1>7. t <= -1 => m * t <= -m
  OBVIOUS
<1>8. t = 0
  BY <1>5, <1>6, <1>7
<1>9. v = r
  BY <1>5, <1>8
<1> QED BY <1>1, <1>2, <1>9

(* A quotient is less than what the product was bounded by.                *)
LEMMA QuotientBelow ==
    ASSUME NEW r \in Nat, NEW a \in Nat, NEW x \in Nat, NEW b \in Nat, r * a + x < b * r
    PROVE  a < b
<1> SUFFICES ASSUME b <= a PROVE FALSE
  OBVIOUS
<1>1. r * b <= r * a /\ r * b = b * r /\ r * b \in Nat /\ r * a \in Nat
  OBVIOUS
<1> QED BY <1>1

IoOp(ctx, got, v) ==
    [index |-> got.index \div ctx.regs, io |-> <<got.index % ctx.regs>> \o got.io]

Dividing == INSTANCE FoldTheorems WITH Op <- IoOp, Inv <- Trivial

(* index_to_io_lossy is a fold over the values.                            *)
LEMMA IoIsFold ==
    ASSUME NEW fam, NEW j
    PROVE  index_to_io_lossy(fam, j)
             = Dividing!Fold(fam, [index |-> j, io |-> <<>>], [v \in 1..Values(fam) |-> v]).io
<1> QED BY Zenon DEF index_to_io_lossy, FoldLeft, MapThenFoldSet, Max, IoOp,
             Dividing!Fold, Dividing!Folded, Dividing!Solves, Dividing!Largest

(* q is what is left of the index, s the numbers split off it.             *)
Divides(fam, j, q, s) ==
    /\ q[0] = j /\ s[0] = <<>>
    /\ \A k \in 1..Values(fam) :
          q[k] = q[k - 1] \div fam.regs /\ s[k] = <<q[k - 1] % fam.regs>> \o s[k - 1]
    /\ index_to_io_lossy(fam, j) = s[Values(fam)]

(* The loop of index_to_io_lossy, value by value.                          *)
LEMMA DividingIs ==
    ASSUME NEW fam, FamilyOK(fam), NEW j
    PROVE  \E q, s : Divides(fam, j, q, s)
<1> DEFINE N == Values(fam)
           base == [index |-> j, io |-> <<>>]
           seq == [v \in 1..N |-> v]
           q == [k \in 0..N |-> Dividing!Prefix(fam, base, seq, k).index]
           s == [k \in 0..N |-> Dividing!Prefix(fam, base, seq, k).io]
<1>1. N \in Nat /\ DOMAIN seq = 1..N
  BY DEF FamilyOK, Values, PlacedOuts
<1>2. index_to_io_lossy(fam, j) = Dividing!Fold(fam, base, seq).io
  BY IoIsFold
<1>3. base.index = j /\ base.io = <<>>
  OBVIOUS
<1> HIDE DEF N, seq, base
<1>4. Dividing!Stepwise(fam, base, seq, N)
  BY <1>1, Dividing!FoldSteps
<1>5. /\ Dividing!Prefix(fam, base, seq, 0) = base
      /\ Dividing!Fold(fam, base, seq) = Dividing!Prefix(fam, base, seq, N)
      /\ \A k \in 1..N :
            Dividing!Prefix(fam, base, seq, k)
              = IoOp(fam, Dividing!Prefix(fam, base, seq, k - 1), seq[k])
  BY <1>4 DEF Dividing!Stepwise
<1>6. 0 \in 0..N /\ N \in 0..N /\ \A k \in 1..N : k \in 0..N /\ k - 1 \in 0..N
  BY <1>1
<1>7. q[0] = j /\ s[0] = <<>> /\ index_to_io_lossy(fam, j) = s[N]
  BY <1>2, <1>3, <1>5, <1>6
<1>8. ASSUME NEW k \in 1..N
      PROVE  q[k] = q[k - 1] \div fam.regs /\ s[k] = <<q[k - 1] % fam.regs>> \o s[k - 1]
  <2>1. PICK g : g = Dividing!Prefix(fam, base, seq, k - 1)
    OBVIOUS
  <2>2. q[k - 1] = g.index /\ s[k - 1] = g.io
    BY <1>6, <2>1
  <2>3. Dividing!Prefix(fam, base, seq, k)
          = [index |-> g.index \div fam.regs, io |-> <<g.index % fam.regs>> \o g.io]
    BY <1>5, <2>1 DEF IoOp
  <2>4. q[k] = g.index \div fam.regs /\ s[k] = <<g.index % fam.regs>> \o g.io
    BY <1>6, <2>3
  <2> QED BY <2>2, <2>4
<1> HIDE DEF q, s
<1> QED BY <1>7, <1>8 DEF Divides, N

(* What is split off an index is a placement whose index it is.            *)
LEMMA SplitOff ==
    ASSUME NEW fam, FamilyOK(fam), NEW j \in Nat, NEW q, NEW s, Divides(fam, j, q, s)
    PROVE  /\ \A k \in 0..Values(fam) :
                 q[k] \in Nat /\ s[k] \in Seq(0..(fam.regs - 1)) /\ Len(s[k]) = k
           /\ \A k \in 1..Values(fam) :
                 /\ s[k][1] = q[k - 1] % fam.regs
                 /\ \A i \in 1..(k - 1) : s[k][i + 1] = s[k - 1][i]
<1> DEFINE N == Values(fam)
           r == fam.regs
           D == 0..(r - 1)
           T == {k \in 0..N : q[k] \in Nat /\ s[k] \in Seq(D) /\ Len(s[k]) = k}
<1>1. N \in Nat /\ r \in Nat /\ r > 0
  BY DEF FamilyOK, Values, PlacedOuts
<1>2. /\ q[0] = j /\ s[0] = <<>>
      /\ \A k \in 1..N : q[k] = q[k - 1] \div r /\ s[k] = <<q[k - 1] % r>> \o s[k - 1]
  BY DEF Divides
<1> HIDE DEF N, r
<1>3. 0 \in T
  <2>1. q[0] \in Nat /\ s[0] = <<>> /\ 0 \in 0..N
    BY <1>1, <1>2
  <2> HIDE DEF D
  <2>2. <<>> \in Seq(D) /\ Len(<<>>) = 0
    OBVIOUS
  <2> QED BY <2>1, <2>2
<1>4. ASSUME NEW k \in 1..N, k - 1 \in T
      PROVE  k \in T
  <2>1. /\ k \in 0..N /\ k \in Nat /\ k - 1 \in Nat /\ q[k - 1] \in Nat
        /\ s[k - 1] \in Seq(D) /\ Len(s[k - 1]) = k - 1
    BY <1>1, <1>4
  <2>2. PICK a, b, t : a = q[k - 1] \div r /\ b = q[k - 1] % r /\ t = s[k - 1]
    OBVIOUS
  <2>3. a \in Nat /\ b \in D
    BY <1>1, <2>1, <2>2, Division
  <2>4. q[k] = a /\ s[k] = <<b>> \o t
    BY <1>2, <2>2
  <2>5. t \in Seq(D) /\ Len(t) = k - 1
    BY <2>1, <2>2
  <2> HIDE DEF D
  <2>6. <<b>> \in Seq(D) /\ Len(<<b>>) = 1
    BY <2>3
  <2>7. <<b>> \o t \in Seq(D) /\ Len(<<b>> \o t) = k
    BY <2>1, <2>5, <2>6
  <2> QED BY <2>1, <2>3, <2>4, <2>7
<1>5. \A k \in 0..N : k \in T
  <2> HIDE DEF T
  <2> QED BY <1>1, <1>3, <1>4, Upwards
<1>6. ASSUME NEW k \in 1..N
      PROVE  s[k][1] = q[k - 1] % r /\ \A i \in 1..(k - 1) : s[k][i + 1] = s[k - 1][i]
  <2>1. k \in Nat /\ k - 1 \in 0..N
    BY <1>1
  <2>2. PICK b, t : b = q[k - 1] % r /\ t = s[k - 1]
    OBVIOUS
  <2>3. t \in Seq(D) /\ Len(t) = k - 1 /\ s[k] = <<b>> \o t
    BY <1>2, <1>5, <2>1, <2>2
  <2> HIDE DEF D
  <2>4. (<<b>> \o t)[1] = b /\ \A i \in 1..(k - 1) : (<<b>> \o t)[i + 1] = t[i]
    BY <2>1, <2>3
  <2> QED BY <2>2, <2>3, <2>4
<1> QED BY <1>5, <1>6 DEF N, r

(* index_to_io_lossy undoes io_to_index.                                   *)
LEMMA IoIs ==
    ASSUME NEW fam, FamilyOK(fam), NEW j \in 0..(stencils_len(fam) - 1)
    PROVE  /\ index_to_io_lossy(fam, j) \in Tuples(fam)
           /\ io_to_index(fam, index_to_io_lossy(fam, j), FALSE) = j
<1> DEFINE N == Values(fam)
           r == fam.regs
<1>1. N \in Nat /\ r \in Nat /\ r > 0
  BY DEF FamilyOK, Values, PlacedOuts
<1>2. j \in Nat /\ stencils_len(fam) \in Nat /\ j < stencils_len(fam)
  <2>1. PICK len : len = stencils_len(fam)
    OBVIOUS
  <2>2. len \in Nat
    BY <2>1, IndexIs
  <2>3. j \in 0..(len - 1)
    BY <2>1
  <2> QED BY <2>1, <2>2, <2>3
<1>3. PICK q, s : Divides(fam, j, q, s)
  BY DividingIs
<1>4. /\ \A k \in 0..N : q[k] \in Nat /\ s[k] \in Seq(0..(r - 1)) /\ Len(s[k]) = k
      /\ \A k \in 1..N : s[k][1] = q[k - 1] % r /\ \A i \in 1..(k - 1) : s[k][i + 1] = s[k - 1][i]
  BY <1>2, <1>3, SplitOff
<1>5. q[0] = j /\ index_to_io_lossy(fam, j) = s[N] /\ \A k \in 1..N : q[k] = q[k - 1] \div r
  BY <1>3 DEF Divides
<1>6. PICK c : c = s[N]
  OBVIOUS
<1>7. c \in Tuples(fam)
  <2>1. c \in Seq(0..(r - 1)) /\ Len(c) = N
    BY <1>1, <1>4, <1>6
  <2>2. \A i \in 1..N : c[i] \in 0..(r - 1)
    BY <2>1, ElementsOf
  <2>3. DOMAIN c = 1..N /\ c = [i \in DOMAIN c |-> c[i]]
    BY <2>1
  <2> QED BY <2>2, <2>3 DEF Tuples
<1>8. PICK p, l : Counts(fam, c, p, l)
  BY <1>7, Counting
<1>9. /\ p[0] = 0 /\ l[0] = 1 /\ stencils_len(fam) = l[N] /\ io_to_index(fam, c, FALSE) = p[N]
      /\ \A n \in 1..N : p[n] = r * p[n - 1] + c[n] /\ l[n] = l[n - 1] * r
      /\ \A n \in 0..N : p[n] \in Nat /\ l[n] \in Nat
  BY <1>8 DEF Counts
<1> HIDE DEF N, r
<1>10. \A m \in 0..N : \A i \in 1..(N - m) : s[N - m][i] = c[m + i]
  <2> DEFINE T == {m \in 0..N : \A i \in 1..(N - m) : s[N - m][i] = c[m + i]}
  <2>1. 0 \in T
    <3>1. N - 0 = N /\ \A i \in 1..N : 0 + i = i
      BY <1>1
    <3> QED BY <1>1, <1>6, <3>1
  <2>2. ASSUME NEW m \in 1..N, m - 1 \in T
        PROVE  m \in T
    <3>1. m \in 0..N /\ N - m + 1 = N - (m - 1) /\ N - m + 1 \in 1..N /\ (N - m + 1) - 1 = N - m
      BY <1>1
    <3>2. ASSUME NEW i \in 1..(N - m) PROVE s[N - m][i] = c[m + i]
      <4>1. i + 1 \in 1..(N - (m - 1)) /\ (m - 1) + (i + 1) = m + i
        BY <1>1
      <4>2. s[N - m + 1][i + 1] = c[m + i]
        BY <2>2, <3>1, <4>1
      <4>3. s[N - m + 1][i + 1] = s[N - m][i]
        BY <1>4, <3>1
      <4> QED BY <4>2, <4>3
    <3> QED BY <3>1, <3>2
  <2>3. \A m \in 0..N : m \in T
    <3> HIDE DEF T
    <3> QED BY <1>1, <2>1, <2>2, Upwards
  <2> QED BY <2>3
<1>11. \A k \in 1..N : q[k - 1] = r * q[k] + c[N - k + 1]
  <2> SUFFICES ASSUME NEW k \in 1..N PROVE q[k - 1] = r * q[k] + c[N - k + 1]
    OBVIOUS
  <2>1. k - 1 \in 0..N /\ N - k \in 0..N /\ N - (N - k) = k /\ 1 \in 1..k
    BY <1>1
  <2>2. s[k][1] = c[N - k + 1]
    BY <1>10, <2>1
  <2>3. s[k][1] = q[k - 1] % r /\ q[k] = q[k - 1] \div r
    BY <1>4, <1>5
  <2>4. PICK x : x = q[k - 1]
    OBVIOUS
  <2>5. x \in Nat
    BY <1>4, <2>1, <2>4
  <2>6. x = r * (x \div r) + (x % r)
    BY <1>1, <2>5, Division
  <2> QED BY <2>2, <2>3, <2>4, <2>6
<1>12. \A k \in 1..N : c[N - k + 1] \in Nat
  BY <1>1, <1>7 DEF Tuples, N, r
<1>13. \A k \in 0..N : q[k] < l[N - k]
  <2> DEFINE T == {k \in 0..N : q[k] < l[N - k]}
  <2>1. 0 \in T
    BY <1>1, <1>2, <1>5, <1>9
  <2>2. ASSUME NEW k \in 1..N, k - 1 \in T
        PROVE  k \in T
    <3>1. /\ k \in 0..N /\ N - k \in 0..N /\ N - (k - 1) = N - k + 1
          /\ N - k + 1 \in 1..N /\ (N - k + 1) - 1 = N - k
      BY <1>1
    <3>2. q[k - 1] < l[N - k + 1]
      BY <2>2, <3>1
    <3>3. l[N - k + 1] = l[N - k] * r
      BY <1>9, <3>1
    <3>4. PICK a, b, x : a = q[k] /\ b = l[N - k] /\ x = c[N - k + 1]
      OBVIOUS
    <3>5. a \in Nat /\ b \in Nat /\ x \in Nat
      BY <1>4, <1>9, <1>12, <3>1, <3>4
    <3>6. r * a + x < b * r
      BY <1>11, <3>2, <3>3, <3>4
    <3>7. a < b
      BY <1>1, <3>5, <3>6, QuotientBelow
    <3> QED BY <3>1, <3>4, <3>7
  <2>3. \A k \in 0..N : k \in T
    <3> HIDE DEF T
    <3> QED BY <1>1, <2>1, <2>2, Upwards
  <2> QED BY <2>3
<1>14. q[N] = 0
  <2>1. N \in 0..N /\ N - N = 0
    BY <1>1
  <2>2. q[N] < l[N - N] /\ q[N] \in Nat
    BY <1>4, <1>13, <2>1
  <2>3. l[N - N] = 1
    BY <1>9, <2>1
  <2> QED BY <2>2, <2>3
<1>15. \A m \in 0..N : q[N - m] = p[m]
  <2> DEFINE T == {m \in 0..N : q[N - m] = p[m]}
  <2>1. 0 \in T
    BY <1>1, <1>9, <1>14
  <2>2. ASSUME NEW m \in 1..N, m - 1 \in T
        PROVE  m \in T
    <3>1. /\ m \in 0..N /\ N - m + 1 \in 1..N /\ (N - m + 1) - 1 = N - m
          /\ N - (m - 1) = N - m + 1 /\ N - (N - m + 1) + 1 = m
      BY <1>1
    <3>2. q[N - m] = r * q[N - m + 1] + c[m]
      BY <1>11, <3>1
    <3>3. q[N - m + 1] = p[m - 1]
      BY <2>2, <3>1
    <3> QED BY <1>9, <3>1, <3>2, <3>3
  <2>3. \A m \in 0..N : m \in T
    <3> HIDE DEF T
    <3> QED BY <1>1, <2>1, <2>2, Upwards
  <2> QED BY <2>3
<1>16. j = p[N]
  <2>1. N \in 0..N /\ N - N = 0
    BY <1>1
  <2> QED BY <1>5, <1>15, <2>1
<1> QED BY <1>5, <1>6, <1>7, <1>9, <1>16

(* A set of m things that are all among m things is all of them.           *)
LEMMA Enumerated ==
    ASSUME NEW m \in Nat, NEW f, NEW A, \A x \in A : \E i \in 1..m : x = f[i],
           Cardinality(A) = m
    PROVE  \A i \in 1..m : f[i] \in A
<1> DEFINE T == {f[i] : i \in 1..m}
           g == [i \in 1..m |-> f[i]]
<1>1. IsFiniteSet(1..m) /\ Cardinality(1..m) = m
  BY FS_Interval
<1>2. g \in Surjection(1..m, T)
  BY DEF Surjection
<1>3. A \in SUBSET T
  OBVIOUS
<1>4. \A i \in 1..m : f[i] \in T
  OBVIOUS
<1> HIDE DEF T, g
<1>5. IsFiniteSet(T) /\ Cardinality(T) <= m
  BY <1>1, <1>2, FS_Surjection
<1>6. Cardinality(A) <= Cardinality(T) /\ (Cardinality(T) = Cardinality(A) => T = A)
  BY <1>3, <1>5, FS_Subset
<1>7. Cardinality(T) \in Nat
  BY <1>5, FS_CardinalityType
<1>8. T = A
  BY <1>5, <1>6, <1>7
<1> QED BY <1>4, <1>8

(* When as many functions of a family were extracted as were written, all  *)
(* were.                                                                   *)
LEMMA AllCompiled ==
    ASSUME Inv, phase = "library", NEW n \in DOMAIN lib.families,
           Cardinality({s \in DOMAIN compiled : s.name = n})
             = (IF Family(n).holes = 0 THEN 1 ELSE 2) * Len(expanded[n])
    PROVE  \A c \in Placements(Family(n)), w \in BOOLEAN :
              (w => Family(n).holes > 0) => Symbol(n, c, w) \in DOMAIN compiled
<1> DEFINE e == expanded[n]
           k == Len(expanded[n])
           twice == Family(n).holes > 0
           A == {s \in DOMAIN compiled : s.name = n}
           f == [i \in 1..(k + k) |-> IF i <= k THEN Symbol(n, e[i], FALSE)
                                      ELSE Symbol(n, e[i - k], TRUE)]
           P == Placements(Family(n))
<1>1. /\ lib \in Libraries /\ running = {} /\ Family(n).holes \in Nat
      /\ e \in Seq(P) /\ \A d \in P : d \in Range(e)
      /\ \A s \in DOMAIN compiled : SymbolOK(s)
  <2>1. /\ lib \in Libraries /\ running = {}
    BY DEF Inv, LibraryInv
  <2>2. YieldedInv(n) /\ \A s \in DOMAIN compiled : SymbolOK(s)
    BY DEF Inv, ExpandInv, ExtractInv, StencilInv
  <2> QED BY <2>1, <2>2, Families DEF YieldedInv
<1>2. k \in Nat /\ \A d \in P : \E i \in 1..k : e[i] = d
  <2> HIDE DEF P
  <2> QED BY <1>1, ValuesOf, ElementsOf
<1>3. PICK m \in Nat : m = IF twice THEN k + k ELSE k
  BY <1>2
<1>4. Cardinality(A) = m
  BY <1>1, <1>2, <1>3
<1>5. \A i \in 1..k : i \in 1..(k + k) /\ k + i \in 1..(k + k) /\ ~ (k + i <= k) /\ (k + i) - k = i
  BY <1>2
<1>6. \A i \in 1..k : f[i] = Symbol(n, e[i], FALSE) /\ f[k + i] = Symbol(n, e[i], TRUE)
  <2> SUFFICES ASSUME NEW i \in 1..k
               PROVE  f[i] = Symbol(n, e[i], FALSE) /\ f[k + i] = Symbol(n, e[i], TRUE)
    OBVIOUS
  <2> HIDE DEF e, k
  <2>1. i \in 1..(k + k) /\ i <= k
    BY <1>5
  <2>2. PICK h : h = k + i
    OBVIOUS
  <2>3. h \in 1..(k + k) /\ ~ (h <= k) /\ h - k = i
    BY <1>5, <2>2
  <2>4. f[i] = Symbol(n, e[i], FALSE)
    BY <2>1
  <2>5. f[h] = Symbol(n, e[h - k], TRUE)
    BY <2>3
  <2> QED BY <2>2, <2>3, <2>4, <2>5
<1>7. \A i \in 1..k : i \in 1..m /\ (twice => k + i \in 1..m)
  BY <1>2, <1>3
<1>8. ASSUME NEW s \in A
      PROVE  \E i \in 1..m : s = f[i]
  <2>1. /\ s.placement \in P /\ s = Symbol(n, s.placement, s.wide)
        /\ s.wide \in BOOLEAN /\ (s.wide => twice)
    BY <1>1 DEF SymbolOK
  <2>2. PICK i \in 1..k : e[i] = s.placement
    BY <1>2, <2>1
  <2>3. CASE s.wide = TRUE
    <3>1. k + i \in 1..m
      BY <1>7, <2>1, <2>3
    <3>2. s = f[k + i]
      BY <1>6, <2>1, <2>2, <2>3
    <3> QED BY <3>1, <3>2
  <2>4. CASE s.wide = FALSE
    <3>1. i \in 1..m
      BY <1>7
    <3>2. s = f[i]
      BY <1>6, <2>1, <2>2, <2>4
    <3> QED BY <3>1, <3>2
  <2> QED BY <2>1, <2>3, <2>4
<1>9. \A i \in 1..m : f[i] \in DOMAIN compiled
  <2>1. A \subseteq DOMAIN compiled
    OBVIOUS
  <2> HIDE DEF A, f
  <2> QED BY <1>4, <1>8, <2>1, Enumerated
<1> SUFFICES ASSUME NEW c \in P, NEW w \in BOOLEAN, w => twice
             PROVE  Symbol(n, c, w) \in DOMAIN compiled
  OBVIOUS
<1>10. PICK i \in 1..k : e[i] = c
  BY <1>2
<1> HIDE DEF f, e, twice
<1>11. CASE w = TRUE
  <2>1. Symbol(n, c, w) = f[k + i]
    BY <1>6, <1>10, <1>11, Zenon
  <2>2. k + i \in 1..m
    BY <1>7, <1>11
  <2> QED BY <1>9, <2>1, <2>2
<1>12. CASE w = FALSE
  <2>1. Symbol(n, c, w) = f[i]
    BY <1>6, <1>10, <1>12, Zenon
  <2> QED BY <1>7, <1>9, <2>1
<1> QED BY <1>11, <1>12

(* Each entry is that of one placement, in one of the halves.              *)
LEMMA EntryHalf ==
    ASSUME NEW fam, FamilyOK(fam), NEW i \in 0..(Entries(fam) - 1)
    PROVE  \E j \in 0..(stencils_len(fam) - 1), w \in BOOLEAN :
              /\ i % stencils_len(fam) = j
              /\ i = IF w THEN j + stencils_len(fam) ELSE j
              /\ w => fam.holes > 0
<1>1. stencils_len(fam) \in Nat /\ stencils_len(fam) > 0 /\ fam.holes \in Nat
  BY IndexIs DEF FamilyOK
<1>2. PICK len \in Nat : len = stencils_len(fam) /\ len > 0
  BY <1>1
<1>3. Entries(fam) = IF fam.holes > 0 THEN len + len ELSE len
  BY <1>1, <1>2 DEF Entries
<1>4. i \in Nat /\ i < Entries(fam)
  BY <1>2, <1>3
<1>5. CASE i < len
  <2>1. i % len = i /\ i \in 0..(len - 1)
    BY <1>2, <1>4, <1>5
  <2> QED BY <1>2, <2>1
<1>6. CASE ~ (i < len)
  <2>1. fam.holes > 0 /\ i < len + len
    BY <1>3, <1>4, <1>6
  <2>2. PICK j \in 0..(len - 1) : i = j + len
    BY <1>2, <1>4, <1>6, <2>1
  <2>3. i % len = j
    <3>1. (j - len * (-1)) % len = j
      BY <1>2, <2>2, Wraps
    <3>2. j - len * (-1) = i
      BY <1>2, <2>2
    <3> QED BY <3>1, <3>2
  <2> QED BY <1>2, <2>1, <2>2, <2>3
<1> QED BY <1>5, <1>6

(* Of a complete family, the entries without code are those whose outputs  *)
(* repeat a register.                                                      *)
Repeats(fam, io) ==
    \E i, j \in (fam.ins + 1)..Len(io) : i # j /\ io[i] = io[j] /\ io[i] # 0

(* A tuple that repeats an output is not a placement.                      *)
LEMMA RepeatsAre ==
    ASSUME NEW fam, FamilyOK(fam), NEW c \in Tuples(fam)
    PROVE  Repeats(fam, c) <=> c \notin Placements(fam)
<1>1. Values(fam) \in Nat
  BY DEF FamilyOK, Values, PlacedOuts
<1>2. Len(c) = Values(fam)
  <2>1. PICK N, D : N = Values(fam) /\ D = 0..(fam.regs - 1)
    OBVIOUS
  <2>2. N \in Nat /\ c \in [1..N -> D]
    BY <1>1, <2>1 DEF Tuples
  <2>3. Len(c) = N
    BY <2>2
  <2> QED BY <2>1, <2>3
<1> QED BY <1>2 DEF Repeats, Placements, Tuples

(* Of a family extracted whole, the entries without code are those of      *)
(* tuples that are not placements: the others are all taken.               *)
LEMMA EntryEmpty ==
    ASSUME Inv, phase = "library", NEW n \in DOMAIN tables.families,
           Cardinality({s \in DOMAIN compiled : s.name = n})
             = (IF Family(n).holes = 0 THEN 1 ELSE 2) * Len(expanded[n]),
           NEW i \in DOMAIN tables.families[n].stencils
    PROVE  tables.families[n].stencils[i].code_len = 0
             <=> Repeats(Family(n), index_to_io_lossy(Family(n), i % stencils_len(Family(n))))
<1>1. /\ lib \in Libraries /\ ExtractInv /\ n \in DOMAIN lib.families
      /\ n \in DOMAIN builders /\ tables.families[n] = builders[n]
  BY DEF Inv, LibraryInv, ExtractInv, TablesInv
<1>2. PICK fam, b : fam = Family(n) /\ b = builders[n]
  OBVIOUS
<1>3. TableInv(n, b) /\ FamilyOK(fam)
  BY <1>1, <1>2, Families DEF ExtractInv
<1>4. i \in 0..(Entries(fam) - 1)
  BY <1>1, <1>2, <1>3 DEF TableInv
<1>5. PICK j \in 0..(stencils_len(fam) - 1), w \in BOOLEAN :
         /\ i % stencils_len(fam) = j
         /\ i = IF w THEN j + stencils_len(fam) ELSE j
         /\ w => fam.holes > 0
  BY <1>3, <1>4, EntryHalf
<1>6. PICK c : c = index_to_io_lossy(fam, j)
  OBVIOUS
<1>7. c \in Tuples(fam) /\ io_to_index(fam, c, FALSE) = j
  BY <1>3, <1>6, IoIs
<1>8. Repeats(fam, c) <=> c \notin Placements(fam)
  BY <1>3, <1>7, RepeatsAre
<1>9. IsBuilder(b) /\ i \in DOMAIN b.stencils
  BY <1>1, <1>2, <1>3 DEF TableInv
<1>10. CASE c \in Placements(fam)
  <2>1. PICK s : s = Symbol(n, c, w)
    OBVIOUS
  <2>2. s \in DOMAIN compiled
    BY <1>1, <1>2, <1>5, <1>10, <2>1, AllCompiled
  <2>3. s.name = n /\ s.placement = c /\ s.wide = w
    BY <2>1 DEF Symbol
  <2>4. IndexOf(s) = i
    <3>1. IndexOf(s) = io_to_index(fam, c, w)
      BY <1>2, <2>3 DEF IndexOf
    <3>2. io_to_index(fam, c, TRUE) = io_to_index(fam, c, FALSE) + stencils_len(fam)
      BY <1>3, <1>7, IndexIs
    <3>3. CASE w = TRUE
      <4>1. io_to_index(fam, c, w) = io_to_index(fam, c, TRUE)
        BY <3>3, Zenon
      <4> QED BY <1>5, <1>7, <3>1, <3>2, <3>3, <4>1
    <3>4. CASE w = FALSE
      <4>1. io_to_index(fam, c, w) = io_to_index(fam, c, FALSE)
        BY <3>4, Zenon
      <4> QED BY <1>5, <1>7, <3>1, <3>4, <4>1
    <3> QED BY <3>3, <3>4
  <2>5. PICK list : Stencil(s, b, b.stencils[i], compiled[s], list)
    BY <1>1, <1>2, <2>2, <2>3, <2>4, StencilIs
  <2>6. PICK uses : uses = compiled[s]
    OBVIOUS
  <2>7. b.stencils[i].code_len = Len(uses) + 1 /\ Len(uses) \in Nat
    BY <2>5, <2>6, ElementsOf DEF Stencil, CodeAt
  <2> QED BY <1>1, <1>2, <1>5, <1>6, <1>8, <1>10, <2>7
<1>11. CASE c \notin Placements(fam)
  <2>1. b.stencils[i] = Default
    <3> SUFFICES ASSUME NEW o \in DOMAIN compiled, o.name = n, IndexOf(o) = i PROVE FALSE
      BY <1>3, <1>9 DEF TableInv
    <3>1. SymbolOK(o)
      BY <1>1 DEF ExtractInv, StencilInv
    <3>2. PICK d \in Placements(fam), v \in BOOLEAN : d = o.placement /\ v = o.wide
      BY <1>2, <3>1 DEF SymbolOK
    <3>3. d \in Tuples(fam)
      BY <3>2 DEF Placements, Tuples
    <3>4. i = io_to_index(fam, d, v)
      BY <1>2, <3>2 DEF IndexOf
    <3>5. PICK len, at : len = stencils_len(fam) /\ at = io_to_index(fam, d, FALSE)
      OBVIOUS
    <3>6. /\ len \in Nat /\ at \in 0..(len - 1) /\ j \in 0..(len - 1)
          /\ io_to_index(fam, d, TRUE) = at + len
      BY <1>3, <1>5, <3>3, <3>5, IndexIs
    <3>7. i = at + len \/ i = at
      <4>1. v = TRUE \/ v = FALSE
        OBVIOUS
      <4> QED BY <3>4, <3>5, <3>6, <4>1
    <3>8. i = j + len \/ i = j
      BY <1>5, <3>5
    <3>9. at = j
      BY <3>6, <3>7, <3>8
    <3>10. c = d
      BY <1>3, <1>7, <3>3, <3>5, <3>9, SameIndex
    <3> QED BY <1>11, <3>2, <3>10
  <2>2. b.stencils[i].code_len = 0
    BY <2>1 DEF Default
  <2> QED BY <1>1, <1>2, <1>5, <1>6, <1>8, <1>11, <2>2
<1> QED BY <1>10, <1>11

(* The entries without code are the right ones, for every family that was  *)
(* extracted whole.                                                        *)
THEOREM EmptyWhereRepeated ==
    Spec => []EmptyForRepeats
<1>1. Inv => EmptyForRepeats
  BY EntryEmpty DEF EmptyForRepeats, Repeats
<1> QED BY <1>1, Invariance, PTL

-----------------------------------------------------------------------------

(* A place that can hold a value and its addend gives the value back.      *)
LEMMA SignExtendIs ==
    ASSUME NEW x, NEW y, NEW n, y % Bit[n] = x % Bit[n]
    PROVE  SignExtend(y, n) = SignExtend(x, n)
<1> QED BY DEF SignExtend

(* A value that supports_value accepts is what the instruction reads from  *)
(* the place.                                                              *)
LEMMA WidenedIs ==
    ASSUME NEW place, place.encoding \in {"Generic", "X86Signed"}, place.size \in 1..WordBits,
           NEW x \in Words, supports_value(place, x)
    PROVE  Widened(place, x % Bit[place.size]) = x
<1>1. PICK n : n = place.size
  OBVIOUS
<1>2. /\ n \in 1..WordBits /\ n \in 0..WordBits /\ n # 0 /\ WordBits \in Nat
      /\ WordBits \in 0..WordBits /\ WordBits - 1 \in 0..WordBits
      /\ (n >= WordBits => n = WordBits)
  BY <1>1, BitIs
<1>3. PICK m, B, h \in Nat : m = Bit[n] /\ B = Bit[WordBits] /\ h = Bit[WordBits - 1] /\ m > 0
  BY <1>2, BitIs
<1>4. x \in 0..(B - 1) /\ B > 0
  BY <1>2, <1>3, BitIs DEF Words
<1>5. CASE place.encoding = "Generic"
  <2>1. fits_unsigned(x, n)
    BY <1>1, <1>5 DEF supports_value
  <2>2. x < m
    BY <1>2, <1>3, <1>4, <2>1 DEF fits_unsigned
  <2>3. x % m = x
    BY <1>3, <1>4, <2>2, SmallRemainder
  <2> QED BY <1>1, <1>3, <1>5, <2>3 DEF Widened
<1>6. CASE place.encoding = "X86Signed"
  <2>1. fits_signed(x, n)
    BY <1>1, <1>6 DEF supports_value
  <2>2. SignExtend(x, n) = x
    <3>1. CASE n = WordBits
      <4>1. x % B = x
        BY <1>4, SmallRemainder
      <4>2. (IF x < h THEN x ELSE x + B - B) = x
        BY <1>4
      <4> QED BY <1>3, <3>1, <4>1, <4>2 DEF SignExtend
    <3>2. CASE n # WordBits
      BY <1>2, <2>1, <3>2 DEF fits_signed
    <3> QED BY <3>1, <3>2
  <2>3. PICK y : y = x % m
    OBVIOUS
  <2>4. y \in 0..(m - 1)
    BY <1>3, <1>4, <2>3, Remainder
  <2>5. y % m = x % m
    BY <1>3, <2>3, <2>4, SmallRemainder
  <2>6. SignExtend(y, n) = x
    BY <1>3, <2>2, <2>5, SignExtendIs
  <2> QED BY <1>1, <1>3, <1>6, <2>3, <2>6 DEF Widened
<1> QED BY <1>5, <1>6

(* The same, with the addend the compiler left in the place.               *)
LEMMA PlaceHolds ==
    ASSUME NEW place, place.encoding \in {"Generic", "X86Signed"}, place.size \in 1..WordBits,
           place.addend \in Int, NEW v \in Words,
           supports_value(place, (v + place.addend) % Bit[WordBits])
    PROVE  (Widened(place, apply_raw(place, v)) - place.addend) % Bit[WordBits] = v
<1>1. PICK B, a : B = Bit[WordBits] /\ a = place.addend
  OBVIOUS
<1>2. B \in Nat /\ B > 0 /\ a \in Int /\ v \in 0..(B - 1) /\ v + a \in Int
  BY <1>1, BitIs DEF Words
<1>3. PICK k \in Int, x \in 0..(B - 1) : v + a = B * k + x /\ x = (v + a) % B
  <2>1. PICK d \in Int : d = v + a
    BY <1>2
  <2>2. /\ d % B \in 0..(B - 1) /\ d \div B \in Int
        /\ d = B * (d \div B) + (d % B)
    BY <1>2, Remainder
  <2> QED BY <2>1, <2>2
<1>4. x \in Words /\ supports_value(place, x)
  BY <1>1, <1>3 DEF Words
<1>5. apply_raw(place, v) = x % Bit[place.size]
  BY <1>1, <1>3 DEF apply_raw
<1>6. Widened(place, apply_raw(place, v)) = x
  BY <1>4, <1>5, WidenedIs
<1>7. x - a = v - B * k
  BY <1>2, <1>3
<1>8. (x - a) % B = v
  BY <1>2, <1>7, Wraps
<1> QED BY <1>1, <1>6, <1>8

-----------------------------------------------------------------------------

(* The stack variables of an emission are numbered as the macro numbered   *)
(* the values on the stack.                                                *)
ZerosBelow(c, n) == {j \in 1..(n - 1) : c[j] = 0}

(* The stack number of a value is the number of values on the stack before *)
(* it.                                                                     *)
LEMMA ZerosAre ==
    ASSUME NEW c, NEW n \in Nat
    PROVE  /\ IsFiniteSet(ZerosBelow(c, n)) /\ StackId(c, n) = Cardinality(ZerosBelow(c, n))
           /\ StackId(c, n) \in Nat
<1>1. IsFiniteSet(1..(n - 1))
  BY FS_Interval
<1>2. ZerosBelow(c, n) \in SUBSET (1..(n - 1))
  BY DEF ZerosBelow
<1>3. IsFiniteSet(ZerosBelow(c, n))
  BY <1>1, <1>2, FS_Subset
<1>4. StackId(c, n) = Cardinality(ZerosBelow(c, n))
  BY Zenon DEF StackId, ZerosBelow
<1> QED BY <1>3, <1>4, FS_CardinalityType

LEMMA StackIdNext ==
    ASSUME NEW c, NEW n \in Nat, n > 0
    PROVE  StackId(c, n + 1) = IF c[n] = 0 THEN StackId(c, n) + 1 ELSE StackId(c, n)
<1>1. /\ IsFiniteSet(ZerosBelow(c, n)) /\ StackId(c, n) = Cardinality(ZerosBelow(c, n))
      /\ StackId(c, n + 1) = Cardinality(ZerosBelow(c, n + 1))
  BY ZerosAre
<1>2. n \notin ZerosBelow(c, n) /\ \A j : j \in 1..((n + 1) - 1) <=> j \in 1..(n - 1) \/ j = n
  BY DEF ZerosBelow
<1>3. CASE c[n] = 0
  <2>1. ZerosBelow(c, n + 1) = ZerosBelow(c, n) \cup {n}
    BY <1>2, <1>3, Zenon DEF ZerosBelow
  <2>2. Cardinality(ZerosBelow(c, n) \cup {n}) = Cardinality(ZerosBelow(c, n)) + 1
    BY <1>1, <1>2, FS_AddElement
  <2> QED BY <1>1, <1>3, <2>1, <2>2
<1>4. CASE c[n] # 0
  <2>1. ZerosBelow(c, n + 1) = ZerosBelow(c, n)
    BY <1>2, <1>4, Zenon DEF ZerosBelow
  <2> QED BY <1>1, <1>4, <2>1
<1> QED BY <1>3, <1>4

LEMMA StackIdFirst ==
    ASSUME NEW c
    PROVE  StackId(c, 1) = 0
<1>1. ZerosBelow(c, 1) = {}
  BY DEF ZerosBelow
<1> QED BY <1>1, ZerosAre, FS_EmptySet

(* Each value on the stack has its own number.                             *)
LEMMA StackIdGrows ==
    ASSUME NEW c, NEW i \in Nat, i > 0, NEW j \in Nat, i < j, c[i] = 0
    PROVE  StackId(c, i) < StackId(c, j)
<1>1. StackId(c, i + 1) = StackId(c, i) + 1 /\ i + 1 \in Nat
  BY StackIdNext
<1>2. /\ IsFiniteSet(ZerosBelow(c, j)) /\ StackId(c, j) = Cardinality(ZerosBelow(c, j))
      /\ StackId(c, j) \in Nat /\ StackId(c, i) \in Nat
      /\ StackId(c, i + 1) = Cardinality(ZerosBelow(c, i + 1))
  BY <1>1, ZerosAre
<1>3. ZerosBelow(c, i + 1) \in SUBSET ZerosBelow(c, j)
  <2>1. \A k \in 1..((i + 1) - 1) : k \in 1..(j - 1)
    OBVIOUS
  <2> QED BY <2>1 DEF ZerosBelow
<1>4. Cardinality(ZerosBelow(c, i + 1)) <= Cardinality(ZerosBelow(c, j))
  BY <1>2, <1>3, FS_Subset
<1> QED BY <1>1, <1>2, <1>4

(* Two values on the stack have two numbers.                               *)
LEMMA OwnStackId ==
    ASSUME NEW c, NEW i \in Nat, i > 0, NEW j \in Nat, j > 0, c[i] = 0, c[j] = 0,
           StackId(c, i) = StackId(c, j)
    PROVE  i = j
<1>1. StackId(c, i) \in Nat /\ StackId(c, j) \in Nat
  BY ZerosAre
<1>2. i < j => StackId(c, i) < StackId(c, j)
  BY StackIdGrows
<1>3. j < i => StackId(c, j) < StackId(c, i)
  BY StackIdGrows
<1> QED BY <1>1, <1>2, <1>3

VarsOp(ctx, vs, l) == IF l.kind = "Stack" THEN Append(vs, l.index) ELSE vs

VarsInv(ctx, ls, n, vs) ==
    /\ vs \in Seq(Nat) /\ Len(vs) = StackId(ctx, n + 1)
    /\ \A i \in 1..n : ctx[i] = 0 => /\ StackId(ctx, i) + 1 \in 1..Len(vs)
                                     /\ vs[StackId(ctx, i) + 1] = ls[i].index

Varying == INSTANCE FoldTheorems WITH Op <- VarsOp, Inv <- VarsInv

(* The stack variables of an emission are a fold over its operands.        *)
LEMMA VarsIsFold ==
    ASSUME NEW fam, NEW ls, NEW ctx
    PROVE  StackVars(fam, ls) = Varying!Fold(ctx, <<>>, ls)
<1> QED BY Zenon DEF StackVars, FoldLeft, MapThenFoldSet, Max, VarsOp,
             Varying!Fold, Varying!Folded, Varying!Solves, Varying!Largest

(* The stack number of a value is where its variable is listed.            *)
LEMMA StackVarsAre ==
    ASSUME NEW fam, NEW N \in Nat, NEW ls, DOMAIN ls = 1..N, NEW c,
           \A i \in 1..N : c[i] = 0 <=> ls[i].kind = "Stack",
           \A i \in 1..N : ls[i].index \in Nat
    PROVE  \A i \in 1..N : c[i] = 0 => StackVars(fam, ls)[StackId(c, i) + 1] = ls[i].index
<1>1. VarsInv(c, ls, 0, <<>>)
  <2>1. StackId(c, 0 + 1) = 0
    BY StackIdFirst
  <2>2. <<>> \in Seq(Nat) /\ Len(<<>>) = 0 /\ 1..0 = {}
    OBVIOUS
  <2> QED BY <2>1, <2>2 DEF VarsInv
<1>2. ASSUME NEW n \in 1..N, NEW v, VarsInv(c, ls, n - 1, v)
      PROVE  VarsInv(c, ls, n, VarsOp(c, v, ls[n]))
  <2>1. /\ v \in Seq(Nat) /\ Len(v) = StackId(c, (n - 1) + 1)
        /\ \A i \in 1..(n - 1) : c[i] = 0 => /\ StackId(c, i) + 1 \in 1..Len(v)
                                             /\ v[StackId(c, i) + 1] = ls[i].index
    BY <1>2 DEF VarsInv
  <2>2. n \in Nat /\ n > 0 /\ (n - 1) + 1 = n /\ \A i \in 1..n : i \in 1..(n - 1) \/ i = n
    OBVIOUS
  <2>3. Len(v) = StackId(c, n) /\ Len(v) \in Nat
    BY <2>1, <2>2
  <2>4. PICK x \in Nat : x = ls[n].index
    OBVIOUS
  <2>5. CASE c[n] = 0
    <3>1. VarsOp(c, v, ls[n]) = Append(v, x)
      BY <2>4, <2>5 DEF VarsOp
    <3>2. StackId(c, n + 1) = Len(v) + 1
      BY <2>2, <2>3, <2>5, StackIdNext
    <3>3. /\ Append(v, x) \in Seq(Nat) /\ Len(Append(v, x)) = Len(v) + 1
          /\ Append(v, x)[Len(v) + 1] = x
          /\ \A k \in 1..Len(v) : Append(v, x)[k] = v[k]
      BY <2>1
    <3>4. \A k \in 1..Len(v) : k \in 1..(Len(v) + 1)
      BY <2>3
    <3>5. Len(v) + 1 \in 1..(Len(v) + 1)
      BY <2>3
    <3> QED BY <2>1, <2>2, <2>3, <2>4, <3>1, <3>2, <3>3, <3>4, <3>5 DEF VarsInv
  <2>6. CASE c[n] # 0
    <3>1. VarsOp(c, v, ls[n]) = v
      BY <2>6 DEF VarsOp
    <3>2. StackId(c, n + 1) = Len(v)
      BY <2>2, <2>3, <2>6, StackIdNext
    <3> QED BY <2>1, <2>2, <2>6, <3>1, <3>2 DEF VarsInv
  <2> QED BY <2>5, <2>6
<1>3. VarsInv(c, ls, N, Varying!Fold(c, <<>>, ls))
  BY <1>1, <1>2, Varying!FoldInduction
<1>4. StackVars(fam, ls) = Varying!Fold(c, <<>>, ls)
  BY VarsIsFold
<1> QED BY <1>3, <1>4 DEF VarsInv

-----------------------------------------------------------------------------

(* The variables of a function's body: each register and each value on the *)
(* stack has its own.                                                      *)
LastIn(c, r, from, to) ==
    LET used == {i \in from..to : c[i] = r + 1} IN IF used = {} THEN 0 ELSE Max(used)

(* The name of a register tells which values are in it.                    *)
LEMMA RegNameIs ==
    ASSUME NEW fam, NEW c, NEW r
    PROVE  RegName(fam, c, r)
             = IF LastIn(c, r, 1, fam.ins) = 0 /\ LastIn(c, r, fam.ins + 1, Len(c)) = 0
               THEN <<"pass", r + 1>>
               ELSE <<"in_out", LastIn(c, r, 1, fam.ins), LastIn(c, r, fam.ins + 1, Len(c))>>
<1> QED BY Zenon DEF RegName, LastIn

(* The last value placed in a register.                                    *)
LEMMA LastInIs ==
    ASSUME NEW c, NEW r, NEW from \in Nat, from > 0, NEW to \in Nat
    PROVE  LET i == LastIn(c, r, from, to)
           IN  i = 0 \/ (i \in from..to /\ c[i] = r + 1)
<1> DEFINE used == {i \in from..to : c[i] = r + 1}
<1>1. used \in SUBSET Nat /\ \A n \in used : n <= to
  OBVIOUS
<1>2. LastIn(c, r, from, to) = IF used = {} THEN 0 ELSE Max(used)
  BY Zenon DEF LastIn
<1>3. CASE used # {}
  <2>1. Max(used) \in used
    <3> HIDE DEF used
    <3> QED BY <1>1, <1>3, MaxIs
  <2> QED BY <1>2, <1>3, <2>1
<1> QED BY <1>2, <1>3

(* Two registers have two names.                                           *)
LEMMA OwnRegName ==
    ASSUME NEW fam, fam.ins \in Nat, NEW c, Len(c) \in Nat, NEW r \in Nat, NEW q \in Nat,
           RegName(fam, c, r) = RegName(fam, c, q)
    PROVE  r = q
<1>1. PICK a, b, d, e :
         /\ a = LastIn(c, r, 1, fam.ins) /\ b = LastIn(c, r, fam.ins + 1, Len(c))
         /\ d = LastIn(c, q, 1, fam.ins) /\ e = LastIn(c, q, fam.ins + 1, Len(c))
  OBVIOUS
<1>2. /\ RegName(fam, c, r) = IF a = 0 /\ b = 0 THEN <<"pass", r + 1>> ELSE <<"in_out", a, b>>
      /\ RegName(fam, c, q) = IF d = 0 /\ e = 0 THEN <<"pass", q + 1>> ELSE <<"in_out", d, e>>
  BY <1>1, RegNameIs
<1>3. /\ a = 0 \/ c[a] = r + 1
      /\ b = 0 \/ c[b] = r + 1
      /\ d = 0 \/ c[d] = q + 1
      /\ e = 0 \/ c[e] = q + 1
  <2>1. fam.ins + 1 \in Nat /\ fam.ins + 1 > 0 /\ 1 \in Nat /\ 1 > 0
    OBVIOUS
  <2>2. \A x \in Nat, from \in Nat, to \in Nat :
           from > 0 => LastIn(c, x, from, to) = 0 \/ c[LastIn(c, x, from, to)] = x + 1
    BY LastInIs
  <2>3. a = 0 \/ c[a] = r + 1
    BY <1>1, <2>1, <2>2
  <2>4. b = 0 \/ c[b] = r + 1
    BY <1>1, <2>1, <2>2
  <2>5. d = 0 \/ c[d] = q + 1
    BY <1>1, <2>1, <2>2
  <2>6. e = 0 \/ c[e] = q + 1
    BY <1>1, <2>1, <2>2
  <2> QED BY <2>3, <2>4, <2>5, <2>6
<1>4. <<"pass", r + 1>> = <<"pass", q + 1>> => r = q
  OBVIOUS
<1>5. <<"pass", r + 1>> # <<"in_out", d, e>> /\ <<"in_out", a, b>> # <<"pass", q + 1>>
  OBVIOUS
<1>6. <<"in_out", a, b>> = <<"in_out", d, e>> => a = d /\ b = e
  OBVIOUS
<1> QED BY <1>2, <1>3, <1>4, <1>5, <1>6

(* A register has not the name of a stack slot.                            *)
LEMMA NoStackName ==
    ASSUME NEW fam, NEW c, NEW r, NEW k
    PROVE  RegName(fam, c, r) # <<"stack", k>>
<1>1. PICK a, b : a = LastIn(c, r, 1, fam.ins) /\ b = LastIn(c, r, fam.ins + 1, Len(c))
  OBVIOUS
<1>2. RegName(fam, c, r) = IF a = 0 /\ b = 0 THEN <<"pass", r + 1>> ELSE <<"in_out", a, b>>
  BY <1>1, RegNameIs
<1>3. <<"pass", r + 1>> # <<"stack", k>> /\ <<"in_out", a, b>> # <<"stack", k>>
  OBVIOUS
<1> QED BY <1>2, <1>3

(* The name of a value tells where it is.                                  *)
LEMMA NamesTell ==
    ASSUME NEW fam, FamilyOK(fam), NEW c \in Placements(fam),
           NEW i \in 1..Values(fam), NEW j \in 1..Values(fam)
    PROVE  /\ \A r \in Nat : ValueName(fam, c, i) = RegName(fam, c, r) <=> c[i] = r + 1
           /\ ValueName(fam, c, i) = ValueName(fam, c, j) => c[i] = c[j] /\ (c[i] = 0 => i = j)
<1>1. /\ Values(fam) \in Nat /\ Len(c) = Values(fam) /\ fam.ins \in Nat
      /\ c[i] \in Nat /\ c[j] \in Nat
  BY PlacementIs DEF FamilyOK
<1>2. /\ c[i] = 0 => ValueName(fam, c, i) = <<"stack", StackId(c, i)>>
      /\ c[i] # 0 => ValueName(fam, c, i) = RegName(fam, c, c[i] - 1) /\ c[i] - 1 \in Nat
      /\ c[j] = 0 => ValueName(fam, c, j) = <<"stack", StackId(c, j)>>
      /\ c[j] # 0 => ValueName(fam, c, j) = RegName(fam, c, c[j] - 1) /\ c[j] - 1 \in Nat
  BY <1>1 DEF ValueName
<1>3. ASSUME NEW r \in Nat
      PROVE  ValueName(fam, c, i) = RegName(fam, c, r) <=> c[i] = r + 1
  <2>1. CASE c[i] = 0
    BY <1>2, <2>1, NoStackName
  <2>2. CASE c[i] # 0
    <3>1. RegName(fam, c, c[i] - 1) = RegName(fam, c, r) => c[i] - 1 = r
      BY <1>1, <1>2, <2>2, OwnRegName
    <3>2. c[i] = r + 1 => c[i] - 1 = r
      BY <1>1
    <3>3. c[i] - 1 = r => c[i] = r + 1
      BY <1>1
    <3> QED BY <1>2, <2>2, <3>1, <3>2, <3>3
  <2> QED BY <2>1, <2>2
<1>4. ASSUME ValueName(fam, c, i) = ValueName(fam, c, j)
      PROVE  c[i] = c[j] /\ (c[i] = 0 => i = j)
  <2>1. CASE c[i] = 0 /\ c[j] = 0
    <3>1. <<"stack", StackId(c, i)>> = <<"stack", StackId(c, j)>>
      BY <1>2, <1>4, <2>1
    <3>2. StackId(c, i) = StackId(c, j)
      BY <3>1
    <3> QED BY <1>1, <2>1, <3>2, OwnStackId
  <2>2. CASE c[i] # 0 /\ c[j] # 0
    <3>1. c[i] - 1 = c[j] - 1
      BY <1>1, <1>2, <1>4, <2>2, OwnRegName
    <3> QED BY <1>1, <2>2, <3>1
  <2>3. CASE c[i] = 0 /\ c[j] # 0
    BY <1>2, <1>4, <2>3, NoStackName
  <2>4. CASE c[i] # 0 /\ c[j] = 0
    BY <1>2, <1>4, <2>4, NoStackName
  <2> QED BY <2>1, <2>2, <2>3, <2>4
<1> QED BY <1>3, <1>4

(* The body of a function, in parts: its variables before the call, its    *)
(* arguments, and its variables after the call.                            *)
OnStackFrom(c, from, to) == {i \in from..to : c[i] = 0}

OffsetOf(c, field, i) == field[Use("Stack", StackId(c, i))]

EntryVars(fam, c, regs, stack, field) ==
    Over([n \in {RegName(fam, c, r) : r \in DOMAIN regs} |->
             regs[CHOOSE r \in DOMAIN regs : RegName(fam, c, r) = n]],
         [n \in {ValueName(fam, c, i) : i \in OnStackFrom(c, 1, fam.ins)} |->
             stack[OffsetOf(c, field, CHOOSE i \in OnStackFrom(c, 1, fam.ins) :
                                         ValueName(fam, c, i) = n)]])

ArgsOf(fam, c, vars0) == [i \in 1..fam.ins |-> vars0[ValueName(fam, c, i)]]

HolesOf(fam, field) ==
    [h \in DOMAIN hole_names(fam) |-> field[Use("Hole", hole_names(fam)[h])]]

Outputs(fam, c) == (fam.ins + 1)..Len(c)

BoundVars(fam, c, vars0, args, holes) ==
    Over([n \in {ValueName(fam, c, i) : i \in Outputs(fam, c)} |->
             Result((CHOOSE i \in Outputs(fam, c) : ValueName(fam, c, i) = n) - fam.ins,
                    args, holes)],
         vars0)

StoredIn(fam, c, field, s) ==
    {i \in Outputs(fam, c) : c[i] = 0 /\ OffsetOf(c, field, i) = s}

RegsAfter(fam, c, regs, bound) == [r \in DOMAIN regs |-> bound[RegName(fam, c, r)]]

StackAfter(fam, c, stack, field, bound) ==
    [s \in DOMAIN stack |->
        IF StoredIn(fam, c, field, s) = {} THEN stack[s]
        ELSE bound[ValueName(fam, c, Max(StoredIn(fam, c, field, s)))]]

ExitOf(fam, args, holes, field) ==
    CASE fam.kind \in {"next", "targets"} ->
           [t \in DOMAIN NextUses(fam) |-> field[NextUses(fam)[t]]]
      [] fam.kind = "returns" -> [j \in 1..fam.outs |-> Result(j, args, holes)]
      [] fam.kind = "trampoline" -> <<Result(1, args, holes)>>

(* The function that the macro generates, by the variables it binds.       *)
LEMMA BodyIs ==
    ASSUME NEW fam, NEW c, NEW regs, NEW stack, NEW field, NEW vars0, NEW args, NEW holes,
           NEW bound, vars0 = EntryVars(fam, c, regs, stack, field),
           args = ArgsOf(fam, c, vars0), holes = HolesOf(fam, field),
           bound = BoundVars(fam, c, vars0, args, holes)
    PROVE  Body(fam, c, regs, stack, field)
             = [regs  |-> RegsAfter(fam, c, regs, bound),
                stack |-> StackAfter(fam, c, stack, field, bound),
                exit  |-> ExitOf(fam, args, holes, field)]
<1> DEFINE v0 == EntryVars(fam, c, regs, stack, field)
           ar == ArgsOf(fam, c, v0)
           ho == HolesOf(fam, field)
           bo == BoundVars(fam, c, v0, ar, ho)
<1>1. Body(fam, c, regs, stack, field)
        = [regs  |-> RegsAfter(fam, c, regs, bo),
           stack |-> StackAfter(fam, c, stack, field, bo),
           exit  |-> ExitOf(fam, ar, ho, field)]
  BY Zenon DEF Body, RegsAfter, StackAfter, ExitOf, BoundVars, StoredIn, Outputs, HolesOf,
               ArgsOf, EntryVars, OffsetOf, OnStackFrom
<1>2. vars0 = v0
  OBVIOUS
<1>3. args = ar /\ holes = ho
  BY <1>2, Zenon
<1>4. bound = bo
  BY <1>2, <1>3, Zenon
<1> QED BY <1>1, <1>3, <1>4, Zenon

(* A record over another.                                                  *)
LEMMA OverIs ==
    ASSUME NEW f, NEW g, NEW x
    PROVE  /\ x \in DOMAIN f => x \in DOMAIN Over(f, g) /\ Over(f, g)[x] = f[x]
           /\ x \notin DOMAIN f /\ x \in DOMAIN g => x \in DOMAIN Over(f, g) /\ Over(f, g)[x] = g[x]
<1> QED BY DEF Over

(* A value read into a variable is there under the name of the variable.   *)
ReadInto(fam, c, regs, stack, field, vars0) ==
    /\ \A r \in DOMAIN regs : RegName(fam, c, r) \in DOMAIN vars0
                               /\ vars0[RegName(fam, c, r)] = regs[r]
    /\ \A i \in 1..fam.ins :
          vars0[ValueName(fam, c, i)] = IF c[i] = 0 THEN stack[OffsetOf(c, field, i)]
                                        ELSE regs[c[i] - 1]

(* The arguments are loaded from where the placement says.                 *)
LEMMA EntryVarsAre ==
    ASSUME NEW fam, FamilyOK(fam), NEW c \in Placements(fam), NEW regs, NEW stack, NEW field,
           DOMAIN regs = 0..(fam.regs - 2)
    PROVE  ReadInto(fam, c, regs, stack, field, EntryVars(fam, c, regs, stack, field))
<1> DEFINE R == DOMAIN regs
           S == OnStackFrom(c, 1, fam.ins)
           f == [n \in {RegName(fam, c, r) : r \in R} |->
                    regs[CHOOSE r \in R : RegName(fam, c, r) = n]]
           g == [n \in {ValueName(fam, c, i) : i \in S} |->
                    stack[OffsetOf(c, field, CHOOSE i \in S : ValueName(fam, c, i) = n)]]
           vars0 == EntryVars(fam, c, regs, stack, field)
<1>1. vars0 = Over(f, g)
  BY Zenon DEF EntryVars
<1>2. /\ Values(fam) \in Nat /\ Len(c) = Values(fam) /\ fam.ins \in Nat /\ fam.regs \in Nat
      /\ fam.ins <= Values(fam) /\ \A i \in 1..Values(fam) : c[i] \in Nat /\ c[i] < fam.regs
  BY PlacementIs DEF FamilyOK, Values, PlacedOuts
<1>3. \A r \in R : r \in Nat
  BY <1>2
<1>4. \A i \in S : i \in 1..Values(fam) /\ c[i] = 0
  BY <1>2 DEF OnStackFrom
<1>5. ASSUME NEW r \in R
      PROVE  RegName(fam, c, r) \in DOMAIN vars0 /\ vars0[RegName(fam, c, r)] = regs[r]
  <2> DEFINE q == CHOOSE q \in R : RegName(fam, c, q) = RegName(fam, c, r)
  <2>1. q \in R /\ RegName(fam, c, q) = RegName(fam, c, r)
    OBVIOUS
  <2>2. q = r
    <3> HIDE DEF q
    <3> QED BY <1>2, <1>3, <2>1, OwnRegName
  <2>3. RegName(fam, c, r) \in DOMAIN f /\ f[RegName(fam, c, r)] = regs[q]
    BY Zenon
  <2> HIDE DEF f, g, vars0, q
  <2> QED BY <1>1, <2>2, <2>3, OverIs
<1>6. ASSUME NEW i \in 1..fam.ins
      PROVE  vars0[ValueName(fam, c, i)] = IF c[i] = 0 THEN stack[OffsetOf(c, field, i)]
                                           ELSE regs[c[i] - 1]
  <2>1. i \in 1..Values(fam)
    BY <1>2
  <2>2. CASE c[i] = 0
    <3> DEFINE j == CHOOSE j \in S : ValueName(fam, c, j) = ValueName(fam, c, i)
    <3>1. i \in S
      BY <2>2 DEF OnStackFrom
    <3>2. j \in S /\ ValueName(fam, c, j) = ValueName(fam, c, i)
      BY <3>1, Zenon
    <3>3. j = i
      <4> HIDE DEF j, S
      <4> QED BY <1>4, <2>1, <2>2, <3>2, NamesTell
    <3>4. ValueName(fam, c, i) \in DOMAIN g /\ g[ValueName(fam, c, i)] = stack[OffsetOf(c, field, j)]
      BY <3>1, Zenon
    <3>5. ValueName(fam, c, i) \notin DOMAIN f
      <4> SUFFICES ASSUME NEW r \in R, ValueName(fam, c, i) = RegName(fam, c, r) PROVE FALSE
        BY Zenon
      <4>1. c[i] = r + 1 /\ r \in Nat
        BY <1>3, <2>1, NamesTell
      <4> QED BY <2>2, <4>1
    <3> HIDE DEF f, g, vars0, j
    <3> QED BY <1>1, <2>2, <3>3, <3>4, <3>5, OverIs
  <2>3. CASE c[i] # 0
    <3>1. c[i] - 1 \in R /\ (c[i] - 1) + 1 = c[i]
      BY <1>2, <2>1, <2>3
    <3>2. ValueName(fam, c, i) = RegName(fam, c, c[i] - 1)
      BY <2>3 DEF ValueName
    <3> HIDE DEF vars0, R
    <3> QED BY <1>5, <2>3, <3>1, <3>2
  <2> QED BY <2>2, <2>3
<1> QED BY <1>5, <1>6, Zenon DEF ReadInto

(* The variables of the outputs have the results, the others what they had.*)
ResultsIn(fam, c, vars0, args, holes, bound) ==
    /\ \A i \in Outputs(fam, c) :
          bound[ValueName(fam, c, i)] = Result(i - fam.ins, args, holes)
    /\ \A r \in Nat :
          /\ RegName(fam, c, r) \in DOMAIN vars0
          /\ \A i \in Outputs(fam, c) : c[i] # r + 1
          => bound[RegName(fam, c, r)] = vars0[RegName(fam, c, r)]
    /\ \A r \in Nat : \A i \in Outputs(fam, c) :
          c[i] = r + 1 => bound[RegName(fam, c, r)] = Result(i - fam.ins, args, holes)

(* The results are in the variables that are stored.                       *)
LEMMA BoundVarsAre ==
    ASSUME NEW fam, FamilyOK(fam), NEW c \in Placements(fam), NEW vars0, NEW args, NEW holes
    PROVE  ResultsIn(fam, c, vars0, args, holes, BoundVars(fam, c, vars0, args, holes))
<1> DEFINE Q == Outputs(fam, c)
           f == [n \in {ValueName(fam, c, i) : i \in Q} |->
                    Result((CHOOSE i \in Q : ValueName(fam, c, i) = n) - fam.ins, args, holes)]
           bound == BoundVars(fam, c, vars0, args, holes)
<1>1. bound = Over(f, vars0)
  BY Zenon DEF BoundVars
<1>2. /\ Values(fam) \in Nat /\ fam.ins \in Nat /\ Q = (fam.ins + 1)..Values(fam)
      /\ \A i, j \in Q : c[i] = c[j] => i = j \/ c[i] = 0
  BY PlacementIs DEF FamilyOK, Outputs
<1>3. \A i \in Q : i \in 1..Values(fam)
  BY <1>2
<1>4. ASSUME NEW i \in Q
      PROVE  bound[ValueName(fam, c, i)] = Result(i - fam.ins, args, holes)
  <2> DEFINE j == CHOOSE j \in Q : ValueName(fam, c, j) = ValueName(fam, c, i)
  <2>1. j \in Q /\ ValueName(fam, c, j) = ValueName(fam, c, i)
    BY Zenon
  <2>2. j = i
    <3> HIDE DEF j, Q
    <3> QED BY <1>2, <1>3, <2>1, NamesTell
  <2>3. /\ ValueName(fam, c, i) \in DOMAIN f
        /\ f[ValueName(fam, c, i)] = Result(j - fam.ins, args, holes)
    BY Zenon
  <2> HIDE DEF f, bound, j
  <2> QED BY <1>1, <2>2, <2>3, OverIs
<1>5. ASSUME NEW r \in Nat, RegName(fam, c, r) \in DOMAIN vars0,
             \A i \in Outputs(fam, c) : c[i] # r + 1
      PROVE  bound[RegName(fam, c, r)] = vars0[RegName(fam, c, r)]
  <2>1. RegName(fam, c, r) \notin DOMAIN f
    <3> SUFFICES ASSUME NEW i \in Q, RegName(fam, c, r) = ValueName(fam, c, i) PROVE FALSE
      BY Zenon
    <3> HIDE DEF Q
    <3>1. c[i] = r + 1
      BY <1>3, NamesTell
    <3> QED BY <1>5, <3>1 DEF Q
  <2> HIDE DEF f, bound
  <2> QED BY <1>1, <1>5, <2>1, OverIs
<1>6. ASSUME NEW r \in Nat, NEW i \in Q, c[i] = r + 1
      PROVE  bound[RegName(fam, c, r)] = Result(i - fam.ins, args, holes)
  <2>1. ValueName(fam, c, i) = RegName(fam, c, r)
    <3> HIDE DEF Q
    <3> QED BY <1>3, <1>6, NamesTell
  <2> HIDE DEF f, bound, Q
  <2> QED BY <1>4, <2>1
<1> QED BY <1>4, <1>5, <1>6, Zenon DEF ResultsIn

-----------------------------------------------------------------------------

(* What an emission is for, in parts.                                      *)
MeantArgs(fam, ls) ==
    [i \in 1..fam.ins |->
        IF ls[i].kind = "Stack" THEN Stack[ls[i].index] ELSE Regs(fam)[ls[i].index]]

OutsAt(fam, ls, l) == {j \in (fam.ins + 1)..Len(ls) : ls[j] = l}

After(fam, ls, args, hs, l, before) ==
    IF OutsAt(fam, ls, l) = {} THEN before
    ELSE Result(Max(OutsAt(fam, ls, l)) - fam.ins, args, hs)

MeantExit(fam, args, hs) ==
    CASE fam.kind = "next" -> <<<<"jump", 0>>>>
      [] fam.kind = "targets" -> [t \in 1..fam.targets |-> <<"jump", t - 1>>]
      [] fam.kind = "returns" -> [j \in 1..fam.outs |-> Result(j, args, hs)]
      [] fam.kind = "trampoline" -> <<Result(1, args, hs)>>

(* What an emission is for, in the same form.                              *)
LEMMA MeantIs ==
    ASSUME NEW n, NEW ls, NEW hs, NEW fam, NEW args, fam = Family(n), args = MeantArgs(fam, ls)
    PROVE  Meant(n, ls, hs)
             = [regs  |-> [i \in DOMAIN Regs(fam) |->
                             After(fam, ls, args, hs, Reg(i), Regs(fam)[i])],
                stack |-> [i \in DOMAIN Stack |->
                             After(fam, ls, args, hs, Stk(i), Stack[i])],
                exit  |-> MeantExit(fam, args, hs)]
<1> DEFINE fm == Family(n)
           ar == MeantArgs(fm, ls)
<1>1. Meant(n, ls, hs)
        = [regs  |-> [i \in DOMAIN Regs(fm) |-> After(fm, ls, ar, hs, Reg(i), Regs(fm)[i])],
           stack |-> [i \in DOMAIN Stack |-> After(fm, ls, ar, hs, Stk(i), Stack[i])],
           exit  |-> MeantExit(fm, ar, hs)]
  BY Zenon DEF Meant, MeantArgs, After, OutsAt, MeantExit
<1>2. fam = fm
  OBVIOUS
<1>3. args = ar
  BY <1>2, Zenon
<1> QED BY <1>1, <1>2, <1>3, Zenon

(* Locations as their bits tell them.                                      *)
BitsTell(fam, ls, c) ==
    /\ DOMAIN ls = 1..Values(fam) /\ Len(ls) = Values(fam) /\ Values(fam) \in Nat
    /\ \A i \in 1..Values(fam) :
          /\ ls[i].index \in Nat
          /\ c[i] = 0 <=> ls[i].kind = "Stack"
          /\ c[i] # 0 => ls[i].index = c[i] - 1
          /\ \A r \in Nat : ls[i] = Reg(r) <=> c[i] = r + 1
          /\ \A s \in Nat : ls[i] = Stk(s) <=> c[i] = 0 /\ ls[i].index = s

(* The placement that the bits of the operands stand for.                  *)
LEMMA OperandsAre ==
    ASSUME lib \in Libraries, NEW n \in DOMAIN lib.families, NEW fam, fam = Family(n),
           NEW ls \in Operands(fam), NEW c, c = Bits(ls)
    PROVE  BitsTell(fam, ls, c)
<1> DEFINE L == {Reg(i) : i \in 0..(fam.regs - 2)} \cup {Stk(i) : i \in 0..(StackSlots - 1)}
           N == Values(fam)
<1>1. fam.regs \in Nat /\ N \in Nat /\ StackSlots \in Nat
  BY Families, LibraryAssumption
<1>2. ls \in [1..N -> L]
  BY DEF Operands
<1> HIDE DEF N
<1>3. ls \in Seq(L) /\ Len(ls) = N /\ DOMAIN ls = 1..N
  BY <1>1, <1>2
<1>4. \A i \in 1..N : c[i] = IF ls[i].kind = "Stack" THEN 0 ELSE ls[i].index + 1
  BY <1>3 DEF Bits
<1>5. ASSUME NEW l \in L
      PROVE  /\ l.index \in Nat
             /\ \/ l.kind = "Stack" /\ l = Stk(l.index)
                \/ l.kind = "Register" /\ l = Reg(l.index)
  <2>1. CASE l \in {Reg(i) : i \in 0..(fam.regs - 2)}
    <3>1. PICK k \in 0..(fam.regs - 2) : l = Reg(k)
      BY <2>1
    <3> QED BY <1>1, <3>1 DEF Reg
  <2>2. CASE l \in {Stk(i) : i \in 0..(StackSlots - 1)}
    <3>1. PICK k \in 0..(StackSlots - 1) : l = Stk(k)
      BY <2>2
    <3> QED BY <1>1, <3>1 DEF Stk
  <2> QED BY <2>1, <2>2
<1>6. ASSUME NEW i \in 1..N
      PROVE  /\ ls[i].index \in Nat
             /\ c[i] = 0 <=> ls[i].kind = "Stack"
             /\ c[i] # 0 => ls[i].index = c[i] - 1
             /\ \A r \in Nat : ls[i] = Reg(r) <=> c[i] = r + 1
             /\ \A s \in Nat : ls[i] = Stk(s) <=> c[i] = 0 /\ ls[i].index = s
  <2>1. PICK l \in L : l = ls[i]
    BY <1>2
  <2> HIDE DEF L
  <2>2. PICK k \in Nat : k = l.index
    BY <1>5
  <2>3. c[i] = IF l.kind = "Stack" THEN 0 ELSE k + 1
    BY <1>4, <2>1, <2>2
  <2>4. \/ l.kind = "Stack" /\ l = Stk(k)
        \/ l.kind = "Register" /\ l = Reg(k)
    BY <1>5, <2>2
  <2>5. \A r : Reg(r).kind = "Register" /\ Reg(r).index = r
    BY DEF Reg
  <2>6. \A s : Stk(s).kind = "Stack" /\ Stk(s).index = s
    BY DEF Stk
  <2>7. CASE l.kind = "Stack" /\ l = Stk(k)
    <3>1. c[i] = 0
      BY <2>3, <2>7
    <3>2. \A r \in Nat : l # Reg(r) /\ c[i] # r + 1
      BY <2>5, <2>7, <3>1
    <3> QED BY <2>1, <2>2, <2>6, <2>7, <3>1, <3>2
  <2>8. CASE l.kind = "Register" /\ l = Reg(k)
    <3>1. c[i] = k + 1 /\ c[i] # 0 /\ k = c[i] - 1
      BY <2>2, <2>3, <2>8
    <3>2. \A s \in Nat : l # Stk(s)
      BY <2>6, <2>8
    <3>3. \A r \in Nat : c[i] = r + 1 <=> k = r
      BY <3>1
    <3> QED BY <2>1, <2>2, <2>5, <2>8, <3>1, <3>2, <3>3
  <2> QED BY <2>4, <2>7, <2>8
<1>7. BitsTell(fam, ls, c) <=>
         /\ DOMAIN ls = 1..N /\ Len(ls) = N /\ N \in Nat
         /\ \A i \in 1..N :
               /\ ls[i].index \in Nat
               /\ c[i] = 0 <=> ls[i].kind = "Stack"
               /\ c[i] # 0 => ls[i].index = c[i] - 1
               /\ \A r \in Nat : ls[i] = Reg(r) <=> c[i] = r + 1
               /\ \A s \in Nat : ls[i] = Stk(s) <=> c[i] = 0 /\ ls[i].index = s
  BY Zenon DEF N, BitsTell
<1> QED BY <1>1, <1>3, <1>6, <1>7

(* A body whose places have been patched for an emission does what the     *)
(* emission is for.                                                        *)
LEMMA BodyMeans ==
    ASSUME lib \in Libraries, NEW n \in DOMAIN lib.families, NEW fam, fam = Family(n),
           NEW ls \in Operands(fam), NEW hs \in HoleValues(fam), NEW c, c = Bits(ls), NEW field,
           \A h \in 1..fam.holes : field[Use("Hole", h - 1)] = hs[h],
           \A i \in 1..Values(fam) : c[i] = 0 => OffsetOf(c, field, i) = ls[i].index,
           \A t \in 1..Metadata(fam).jumps : field[Use("Target", t - 1)] = <<"jump", t - 1>>
    PROVE  Body(fam, c, Regs(fam), Stack, field) = Meant(n, ls, hs)
<1>1. PICK regs, stack : regs = Regs(fam) /\ stack = Stack
  OBVIOUS
<1>2. PICK vars0 : vars0 = EntryVars(fam, c, regs, stack, field)
  OBVIOUS
<1>3. PICK args : args = ArgsOf(fam, c, vars0)
  OBVIOUS
<1>4. PICK bound : bound = BoundVars(fam, c, vars0, args, hs)
  OBVIOUS
<1>5. /\ FamilyOK(fam) /\ c \in Placements(fam)
      /\ Values(fam) \in Nat /\ fam.ins \in Nat /\ fam.ins <= Values(fam) /\ fam.regs \in Nat
      /\ Len(c) = Values(fam) /\ Outputs(fam, c) = (fam.ins + 1)..Values(fam)
      /\ \A i \in 1..Values(fam) : c[i] \in Nat
  BY Families, BitsArePlaced, PlacementIs DEF Outputs
<1>6. /\ Len(ls) = Values(fam)
      /\ \A i \in 1..Values(fam) :
            /\ ls[i].index \in Nat
            /\ c[i] = 0 <=> ls[i].kind = "Stack"
            /\ c[i] # 0 => ls[i].index = c[i] - 1
            /\ \A r \in Nat : ls[i] = Reg(r) <=> c[i] = r + 1
            /\ \A s \in Nat : ls[i] = Stk(s) <=> c[i] = 0 /\ ls[i].index = s
  <2>1. BitsTell(fam, ls, c)
    BY OperandsAre
  <2> QED BY <2>1, Zenon DEF BitsTell
<1>7. DOMAIN regs = 0..(fam.regs - 2) /\ DOMAIN stack = 0..(StackSlots - 1)
  BY <1>1 DEF Regs, Stack
<1>8. hs = HolesOf(fam, field)
  <2>1. /\ DOMAIN hole_names(fam) = 1..fam.holes
        /\ \A h \in 1..fam.holes : hole_names(fam)[h] = h - 1
    <3>1. Announced(fam)
      BY <1>5, AnnouncedIs
    <3> QED BY <3>1 DEF Announced
  <2> QED BY <2>1 DEF HolesOf, HoleValues
<1>9. /\ \A r \in DOMAIN regs : RegName(fam, c, r) \in DOMAIN vars0
                                 /\ vars0[RegName(fam, c, r)] = regs[r]
      /\ \A i \in 1..fam.ins :
            vars0[ValueName(fam, c, i)] = IF c[i] = 0 THEN stack[OffsetOf(c, field, i)]
                                          ELSE regs[c[i] - 1]
  <2>1. FamilyOK(fam) /\ c \in Placements(fam) /\ DOMAIN regs = 0..(fam.regs - 2)
    BY <1>5, <1>7
  <2>2. ReadInto(fam, c, regs, stack, field, EntryVars(fam, c, regs, stack, field))
    BY <2>1, EntryVarsAre
  <2>3. ReadInto(fam, c, regs, stack, field, vars0)
    BY <1>2, <2>2, Zenon
  <2> QED BY <2>3, Zenon DEF ReadInto
<1>10. args = MeantArgs(fam, ls)
  <2>1. ASSUME NEW i \in 1..fam.ins
        PROVE  vars0[ValueName(fam, c, i)]
                 = IF ls[i].kind = "Stack" THEN stack[ls[i].index] ELSE regs[ls[i].index]
    <3>1. i \in 1..Values(fam)
      BY <1>5
    <3>2. vars0[ValueName(fam, c, i)] = IF c[i] = 0 THEN stack[OffsetOf(c, field, i)]
                                        ELSE regs[c[i] - 1]
      BY <1>9, Zenon
    <3>3. CASE c[i] = 0
      <4>1. OffsetOf(c, field, i) = ls[i].index /\ ls[i].kind = "Stack"
        BY <1>6, <3>1, <3>3
      <4> QED BY <3>2, <3>3, <4>1
    <3>4. CASE c[i] # 0
      <4>1. ls[i].index = c[i] - 1 /\ ls[i].kind # "Stack"
        BY <1>6, <3>1, <3>4
      <4> QED BY <3>2, <3>4, <4>1
    <3> QED BY <3>3, <3>4
  <2> QED BY <1>1, <1>3, <2>1 DEF ArgsOf, MeantArgs
<1>11. /\ \A i \in Outputs(fam, c) : bound[ValueName(fam, c, i)] = Result(i - fam.ins, args, hs)
       /\ \A r \in Nat :
             /\ RegName(fam, c, r) \in DOMAIN vars0
             /\ \A i \in Outputs(fam, c) : c[i] # r + 1
             => bound[RegName(fam, c, r)] = vars0[RegName(fam, c, r)]
       /\ \A r \in Nat : \A i \in Outputs(fam, c) :
             c[i] = r + 1 => bound[RegName(fam, c, r)] = Result(i - fam.ins, args, hs)
  <2>1. FamilyOK(fam) /\ c \in Placements(fam)
    BY <1>5
  <2>2. ResultsIn(fam, c, vars0, args, hs, BoundVars(fam, c, vars0, args, hs))
    BY <2>1, BoundVarsAre
  <2>3. ResultsIn(fam, c, vars0, args, hs, bound)
    BY <1>4, <2>2, Zenon
  <2> QED BY <2>3, Zenon DEF ResultsIn
<1>12. /\ \A i \in Outputs(fam, c) : i \in 1..Values(fam)
       /\ \A l : OutsAt(fam, ls, l) = {j \in Outputs(fam, c) : ls[j] = l}
  BY <1>5, <1>6 DEF OutsAt
<1>13. ASSUME NEW l, OutsAt(fam, ls, l) # {}
       PROVE  Max(OutsAt(fam, ls, l)) \in Outputs(fam, c) /\ ls[Max(OutsAt(fam, ls, l))] = l
  <2>1. OutsAt(fam, ls, l) \in SUBSET Nat /\ \A j \in OutsAt(fam, ls, l) : j <= Values(fam)
    BY <1>5, <1>12
  <2>2. Max(OutsAt(fam, ls, l)) \in OutsAt(fam, ls, l)
    BY <1>5, <1>13, <2>1, MaxIs
  <2> QED BY <1>12, <2>2
<1>14. ASSUME NEW r \in DOMAIN regs
       PROVE  bound[RegName(fam, c, r)] = After(fam, ls, args, hs, Reg(r), regs[r])
  <2>1. r \in Nat
    BY <1>5, <1>7
  <2>2. CASE OutsAt(fam, ls, Reg(r)) = {}
    <3>1. ASSUME NEW i \in Outputs(fam, c)
          PROVE  c[i] # r + 1
      <4>1. ls[i] = Reg(r) <=> c[i] = r + 1
        BY <1>6, <1>12, <2>1, Zenon
      <4>2. ls[i] # Reg(r)
        BY <1>12, <2>2
      <4> QED BY <4>1, <4>2
    <3> QED BY <1>9, <1>11, <2>1, <2>2, <3>1 DEF After
  <2>3. CASE OutsAt(fam, ls, Reg(r)) # {}
    <3>1. PICK i : i = Max(OutsAt(fam, ls, Reg(r)))
      OBVIOUS
    <3>2. i \in Outputs(fam, c) /\ c[i] = r + 1
      <4>1. i \in Outputs(fam, c) /\ ls[i] = Reg(r)
        BY <1>13, <2>3, <3>1, Zenon
      <4>2. ls[i] = Reg(r) <=> c[i] = r + 1
        BY <1>6, <1>12, <2>1, <4>1, Zenon
      <4> QED BY <4>1, <4>2
    <3> QED BY <1>11, <2>1, <2>3, <3>1, <3>2 DEF After
  <2> QED BY <2>2, <2>3
<1>15. ASSUME NEW s \in DOMAIN stack
       PROVE  (IF StoredIn(fam, c, field, s) = {} THEN stack[s]
               ELSE bound[ValueName(fam, c, Max(StoredIn(fam, c, field, s)))])
                = After(fam, ls, args, hs, Stk(s), stack[s])
  <2>1. s \in Nat
    BY <1>7
  <2>2. StoredIn(fam, c, field, s) = OutsAt(fam, ls, Stk(s))
    <3>1. ASSUME NEW j \in Outputs(fam, c)
          PROVE  c[j] = 0 /\ OffsetOf(c, field, j) = s <=> ls[j] = Stk(s)
      <4>1. j \in 1..Values(fam)
        BY <1>12
      <4>2. ls[j] = Stk(s) <=> c[j] = 0 /\ ls[j].index = s
        BY <1>6, <2>1, <4>1, Zenon
      <4>3. c[j] = 0 => OffsetOf(c, field, j) = ls[j].index
        BY <4>1
      <4> QED BY <4>2, <4>3
    <3>2. StoredIn(fam, c, field, s)
            = {j \in Outputs(fam, c) : c[j] = 0 /\ OffsetOf(c, field, j) = s}
      BY DEF StoredIn
    <3>3. OutsAt(fam, ls, Stk(s)) = {j \in Outputs(fam, c) : ls[j] = Stk(s)}
      BY <1>12, Zenon
    <3> QED BY <3>1, <3>2, <3>3
  <2>3. CASE OutsAt(fam, ls, Stk(s)) = {}
    BY <2>2, <2>3 DEF After
  <2>4. CASE OutsAt(fam, ls, Stk(s)) # {}
    <3>1. PICK i : i = Max(OutsAt(fam, ls, Stk(s)))
      OBVIOUS
    <3>2. i \in Outputs(fam, c)
      BY <1>13, <2>4, <3>1
    <3> QED BY <1>11, <2>2, <2>4, <3>1, <3>2 DEF After
  <2> QED BY <2>3, <2>4
<1>16. ExitOf(fam, args, hs, field) = MeantExit(fam, args, hs)
  <2>0. [t \in DOMAIN NextUses(fam) |-> field[NextUses(fam)[t]]]
          = [t \in 1..Metadata(fam).jumps |-> field[Use("Target", t - 1)]]
    BY <1>5, AnnouncedIs DEF Announced
  <2>1. fam.kind \in {"next", "targets", "returns", "trampoline"} /\ fam.targets \in Nat
    BY <1>5 DEF FamilyOK
  <2>2. CASE fam.kind = "next"
    <3>1. Metadata(fam).jumps = 1
      BY <2>2 DEF Metadata
    <3>2. field[Use("Target", 1 - 1)] = <<"jump", 0>>
      BY <3>1
    <3>3. [t \in 1..1 |-> field[Use("Target", t - 1)]] = <<<<"jump", 0>>>>
      BY <3>2
    <3> QED BY <2>0, <2>2, <3>1, <3>3 DEF ExitOf, MeantExit
  <2>3. CASE fam.kind = "targets"
    <3>1. Metadata(fam).jumps = fam.targets
      BY <2>1, <2>3 DEF Metadata, target_names
    <3> QED BY <2>0, <2>3, <3>1 DEF ExitOf, MeantExit
  <2>4. CASE fam.kind = "returns"
    BY <2>4 DEF ExitOf, MeantExit
  <2>5. CASE fam.kind = "trampoline"
    BY <2>5 DEF ExitOf, MeantExit
  <2> QED BY <2>1, <2>2, <2>3, <2>4, <2>5
<1>17. RegsAfter(fam, c, regs, bound)
         = [i \in DOMAIN Regs(fam) |-> After(fam, ls, args, hs, Reg(i), Regs(fam)[i])]
  BY <1>1, <1>14 DEF RegsAfter
<1>18. StackAfter(fam, c, stack, field, bound)
         = [i \in DOMAIN Stack |-> After(fam, ls, args, hs, Stk(i), Stack[i])]
  BY <1>1, <1>15 DEF StackAfter
<1>19. Body(fam, c, regs, stack, field)
         = [regs  |-> RegsAfter(fam, c, regs, bound),
            stack |-> StackAfter(fam, c, stack, field, bound),
            exit  |-> ExitOf(fam, args, hs, field)]
  BY <1>2, <1>3, <1>4, <1>8, BodyIs
<1>20. Meant(n, ls, hs)
         = [regs  |-> [i \in DOMAIN Regs(fam) |->
                         After(fam, ls, args, hs, Reg(i), Regs(fam)[i])],
            stack |-> [i \in DOMAIN Stack |->
                         After(fam, ls, args, hs, Stk(i), Stack[i])],
            exit  |-> MeantExit(fam, args, hs)]
  BY <1>10, MeantIs
<1> QED BY <1>1, <1>16, <1>17, <1>18, <1>19, <1>20, Zenon

-----------------------------------------------------------------------------

(* Each place of a stencil's code gives what the emission put there: what  *)
(* the relocation that patched it says, which is what its use is for.      *)
Patched(r, fam, ls, hs, wide, kind) ==
    CASE kind = "Stack" -> StackVars(fam, ls)[r.id + 1]
      [] kind = "Target" -> <<"jump", r.id>>
      [] kind = "Hole" ->
           IF wide THEN hs[r.id + 1]
           ELSE (Widened(r, apply_raw(r, hs[r.id + 1])) - r.addend) % Bit[WordBits]

Wanted(fam, ls, hs, u) ==
    CASE u.kind = "Stack" -> StackVars(fam, ls)[u.id + 1]
      [] u.kind = "Target" -> <<"jump", u.id>>
      [] u.kind = "Hole" -> hs[u.id + 1]

(* The places of a narrow stencil can hold the values.                     *)
NarrowHolds(s, hs) ==
    \A h \in 1..Family(s.name).holes :
       supports_value(NarrowOf(s, h), (hs[h] + NarrowOf(s, h).addend) % Bit[WordBits])

(* What a use finds, by the relocation of the use.                         *)
LEMMA FindsIs ==
    ASSUME NEW s, NEW list, NEW fam, NEW ls, NEW hs, NEW wide \in BOOLEAN, NEW u, NEW r,
           s.wide = wide,
           {q \in Range(list) : compiled[s][q.offset] = u} # {},
           r = CHOOSE q \in {q \in Range(list) : compiled[s][q.offset] = u} : TRUE,
           u.kind = r.kind, u.kind \in {"Hole", "Stack", "Target"}
    PROVE  Finds(s, list, fam, ls, hs, wide, u) = Patched(r, fam, ls, hs, wide, u.kind)
<1>1. CASE u.kind = "Stack"
  BY <1>1 DEF Finds, Patched
<1>2. CASE u.kind = "Target"
  BY <1>2 DEF Finds, Patched
<1>3. CASE u.kind = "Hole" /\ wide
  BY <1>3 DEF Finds, Patched
<1>4. CASE u.kind = "Hole" /\ ~ wide
  BY <1>4 DEF Finds, Patched
<1> QED BY <1>1, <1>2, <1>3, <1>4

(* A hole finds its value, a stack use its slot, a jump its target.        *)
LEMMA FindsAre ==
    ASSUME lib \in Libraries, ExtractInv, NEW s \in DOMAIN compiled, NEW b, NEW e, NEW list,
           Stencil(s, b, e, compiled[s], list), NEW fam, fam = Family(s.name),
           NEW ls, NEW hs \in HoleValues(fam), NEW wide \in BOOLEAN, s.wide = wide,
           ~ wide => NarrowHolds(s, hs),
           NEW u \in HoleUse(fam) \cup StackUse \cup TargetUse(fam), u \in Range(compiled[s])
    PROVE  Finds(s, list, fam, ls, hs, wide, u) = Wanted(fam, ls, hs, u)
<1>1. PICK uses : uses = compiled[s]
  OBVIOUS
<1>2. /\ Len(list) = Len(uses) /\ DOMAIN list = 1..Len(uses) /\ Len(uses) \in Nat
      /\ Range(list) = {list[o] : o \in 1..Len(uses)}
      /\ \A o \in 1..Len(uses) :
            /\ list[o].offset = o
            /\ uses[o].kind # "Call" =>
                  /\ list[o].kind = uses[o].kind /\ list[o].id = uses[o].id
                  /\ list[o] = NewRelocation(s, uses[o], o, uses[o].kind, uses[o].id)
  BY <1>1, RelocationsAre
<1>3. /\ uses \in Seq(AnyUse(fam)) /\ SymbolOK(s)
  BY <1>1 DEF Stencil
<1>4. u.kind \in {"Hole", "Stack", "Target"} /\ u.kind # "Call"
      /\ (u.kind = "Hole" => u.id \in 0..(fam.holes - 1))
  BY DEF HoleUse, StackUse, TargetUse
<1>5. PICK k \in 1..Len(uses) : uses[k] = u
  BY <1>1, <1>3, ValuesOf
<1>6. PICK at : at = {q \in Range(list) : compiled[s][q.offset] = u}
  OBVIOUS
<1>7. list[k] \in at
  BY <1>1, <1>2, <1>5, <1>6
<1>8. PICK r : r = CHOOSE q \in at : TRUE
  OBVIOUS
<1>9. r \in at
  BY <1>7, <1>8
<1>10. PICK o \in 1..Len(uses) : r = list[o] /\ uses[o] = u
  <2>1. PICK o \in 1..Len(uses) : r = list[o] /\ compiled[s][r.offset] = u
    BY <1>2, <1>6, <1>9
  <2> QED BY <1>1, <1>2, <2>1
<1>11. r.kind = u.kind /\ r.id = u.id /\ r = NewRelocation(s, u, o, u.kind, u.id)
  BY <1>2, <1>4, <1>10
<1>12. Finds(s, list, fam, ls, hs, wide, u) = Patched(r, fam, ls, hs, wide, u.kind)
  <2>1. {q \in Range(list) : compiled[s][q.offset] = u} # {}
    BY <1>6, <1>7
  <2>2. r = CHOOSE q \in {q \in Range(list) : compiled[s][q.offset] = u} : TRUE
    BY <1>6, <1>8, Zenon
  <2>3. u.kind = r.kind
    BY <1>11
  <2> QED BY <1>4, <2>1, <2>2, <2>3, FindsIs
<1>13. ASSUME u.kind = "Hole", ~ wide
       PROVE  (Widened(r, apply_raw(r, hs[u.id + 1])) - r.addend) % Bit[WordBits] = hs[u.id + 1]
  <2>1. PICK h, place : h = u.id + 1 /\ place = NarrowOf(s, h)
    OBVIOUS
  <2>2. s.name \in DOMAIN lib.families /\ fam.holes \in Nat
    BY <1>3, Families DEF SymbolOK
  <2>3. h \in 1..fam.holes
    <3>1. u.id \in 0..(fam.holes - 1) /\ h = u.id + 1 /\ fam.holes \in Nat
      BY <1>4, <1>13, <2>1, <2>2
    <3> QED BY <3>1
  <2>4. /\ place.encoding \in {"Generic", "X86Signed"} /\ place.size \in 1..WordBits
        /\ place.addend \in Int
    <3>1. u.id \in 0..(Family(s.name).holes - 1)
      BY <1>4, <1>13
    <3>2. place \in PlaceShape
      BY <1>3, <2>1, <3>1, NarrowIs DEF NarrowOf
    <3> QED BY <3>2 DEF PlaceShape
  <2>5. hs[h] \in Words /\ supports_value(place, (hs[h] + place.addend) % Bit[WordBits])
    BY <1>13, <2>1, <2>3 DEF HoleValues, NarrowHolds
  <2>6. /\ r.encoding = place.encoding /\ r.size = place.size /\ r.addend = place.addend
    <3>1. Shape(s, u) = place
      BY <1>13, <2>1 DEF Shape, NarrowOf
    <3> QED BY <1>11, <3>1 DEF NewRelocation
  <2>7. PICK v \in Words : v = hs[h]
    BY <2>5
  <2>8. apply_raw(r, v) = apply_raw(place, v)
    BY <2>6 DEF apply_raw
  <2>9. Widened(r, apply_raw(r, v)) = Widened(place, apply_raw(place, v))
    BY <2>6, <2>8 DEF Widened
  <2>10. (Widened(place, apply_raw(place, v)) - place.addend) % Bit[WordBits] = v
    BY <2>4, <2>5, <2>7, PlaceHolds
  <2> QED BY <2>1, <2>6, <2>7, <2>9, <2>10
<1> QED BY <1>4, <1>11, <1>12, <1>13 DEF Patched, Wanted

(* The uses of a function's own places, with or without calls.             *)
LEMMA OwnUses ==
    ASSUME lib \in Libraries, NEW s, SymbolOK(s), NEW calls \in Callings, NEW fam,
           fam = Family(s.name), NEW c, c = s.placement
    PROVE  /\ \A h \in 1..fam.holes :
                 /\ Use("Hole", h - 1) \in HoleUse(fam)
                 /\ Use("Hole", h - 1) \in Range(Uses(fam, c, calls))
           /\ \A i \in 1..Values(fam) : c[i] = 0 =>
                 /\ Use("Stack", StackId(c, i)) \in StackUse
                 /\ Use("Stack", StackId(c, i)) \in Range(Uses(fam, c, calls))
           /\ \A t \in 1..Metadata(fam).jumps :
                 /\ Use("Target", t - 1) \in TargetUse(fam)
                 /\ Use("Target", t - 1) \in Range(Uses(fam, c, calls))
<1>1. Range(Uses(fam, c, calls))
        = HoleUse(fam) \cup PlacedUse(fam, c) \cup CalledUse(calls) \cup TargetUse(fam)
  BY UsesTyped DEF UsesOf
<1>2. fam.holes \in Nat /\ Metadata(fam).jumps \in Nat /\ Values(fam) \in Nat
  <2>1. FamilyOK(fam) /\ Values(fam) \in Nat
    BY Families DEF SymbolOK
  <2> QED BY <2>1, AnnouncedIs DEF FamilyOK, Announced
<1>3. \A h \in 1..fam.holes : Use("Hole", h - 1) \in HoleUse(fam)
  BY <1>2 DEF Use, HoleUse
<1>4. \A t \in 1..Metadata(fam).jumps : Use("Target", t - 1) \in TargetUse(fam)
  BY <1>2 DEF Use, TargetUse
<1>5. ASSUME NEW i \in 1..Values(fam), c[i] = 0
      PROVE  Use("Stack", StackId(c, i)) \in StackUse /\ Use("Stack", StackId(c, i)) \in PlacedUse(fam, c)
  <2>1. StackId(c, i) \in Nat
    BY StackIdIs
  <2> QED BY <1>5, <2>1 DEF Use, StackUse, PlacedUse, PartUse
<1> QED BY <1>1, <1>3, <1>4, <1>5

(* A hole whose place can take the value, but not together with what the   *)
(* compiler folded into it.                                                *)
Carries(n, c, hs, h) ==
    /\ supports_value(lib.narrow[n][c][h], hs[h])
    /\ ~ supports_value(lib.narrow[n][c][h],
                        (hs[h] + lib.narrow[n][c][h].addend) % Bit[WordBits])

(* What the uses of a stencil's code find, when it is run.                 *)
FieldOf(s, list, fam, ls, hs, wide) ==
    [u \in Range(Uses(fam, s.placement, <<>>)) |-> Finds(s, list, fam, ls, hs, wide, u)]

(* What is selected runs the function of one placement.                    *)
LEMMA RanIs ==
    ASSUME NEW n, NEW ls, NEW hs, NEW e, e = Select(n, ls, hs), NEW fam, fam = Family(n),
           NEW s, s = CodeOf(e)[1][1],
           NEW list, list = ListAt(tables.families[n], e.relocation_index),
           NEW w, w = Wide(n, ls, hs), NEW c, c = s.placement
    PROVE  Ran(n, ls, hs) = Body(fam, c, Regs(fam), Stack, FieldOf(s, list, fam, ls, hs, w))
<1> DEFINE e0 == Select(n, ls, hs)
           f0 == Family(n)
           s0 == CodeOf(e0)[1][1]
           l0 == ListAt(tables.families[n], e0.relocation_index)
           w0 == Wide(n, ls, hs)
<1>1. Ran(n, ls, hs)
        = Body(f0, s0.placement, Regs(f0), Stack, FieldOf(s0, l0, f0, ls, hs, w0))
  BY Zenon DEF Ran, FieldOf
<1>2. e = e0 /\ fam = f0 /\ w = w0
  OBVIOUS
<1>3. s = s0 /\ list = l0
  BY <1>2, Zenon
<1>4. c = s0.placement
  BY <1>3, Zenon
<1> QED BY <1>1, <1>2, <1>3, <1>4, Zenon

(* What is selected and patched does what the emission is for.             *)
LEMMA RanIsMeant ==
    ASSUME Inv, phase = "library", NEW n \in DOMAIN tables.families,
           NEW ls \in Operands(Family(n)), NEW hs \in HoleValues(Family(n)),
           Found(n, ls, hs), \A h \in DOMAIN hs : ~ Carries(n, Bits(ls), hs, h)
    PROVE  Ran(n, ls, hs) = Meant(n, ls, hs)
<1>1. /\ lib \in Libraries /\ ExtractInv /\ n \in DOMAIN lib.families
      /\ n \in DOMAIN builders /\ tables.families[n] = builders[n]
  BY DEF Inv, LibraryInv, ExtractInv, TablesInv
<1>2. PICK fam, c, b : fam = Family(n) /\ c = Bits(ls) /\ b = builders[n]
  OBVIOUS
<1>3. PICK w \in BOOLEAN : (w <=> Wide(n, ls, hs)) /\ Select(n, ls, hs) = Entry(n, ls, w)
  BY SelectIs
<1>4. w = Wide(n, ls, hs)
  <2>1. Wide(n, ls, hs) \in BOOLEAN
    BY Zenon DEF Wide
  <2> QED BY <1>3, <2>1
<1>5. PICK e : e = Entry(n, ls, w) /\ e = Select(n, ls, hs)
  BY <1>3
<1>6. /\ Symbol(n, Bits(ls), FALSE) \in DOMAIN compiled =>
            (Wide(n, ls, hs) <=> NeedsWide(n, Bits(ls), hs))
      /\ w => Family(n).holes > 0
  BY <1>3, WideIs
<1>7. Entry(n, ls, w).code_len # 0
  BY <1>5 DEF Found
<1>8. PICK s, list :
         /\ s = Symbol(n, Bits(ls), w) /\ s \in DOMAIN compiled
         /\ Stencil(s, builders[n], Entry(n, ls, w), compiled[s], list)
         /\ CodeOf(Entry(n, ls, w))[1][1] = s
  BY <1>6, <1>7, FoundIs
<1>9. s.name = n /\ s.placement = c /\ s.wide = w
  BY <1>2, <1>8 DEF Symbol
<1>10. Stencil(s, b, e, compiled[s], list) /\ s = CodeOf(e)[1][1]
  BY <1>2, <1>5, <1>8
<1>11. list = ListAt(tables.families[n], e.relocation_index)
  BY <1>1, <1>2, <1>10 DEF Stencil
<1>12. SymbolOK(s) /\ FamilyOK(fam) /\ Values(fam) \in Nat
  BY <1>1, <1>2, <1>10, Families DEF Stencil
<1>13. PICK field : field = FieldOf(s, list, fam, ls, hs, w)
  OBVIOUS
<1>14. Ran(n, ls, hs) = Body(fam, c, Regs(fam), Stack, field)
  <2>1. c = s.placement
    BY <1>9
  <2>2. Ran(n, ls, hs) = Body(fam, c, Regs(fam), Stack, FieldOf(s, list, fam, ls, hs, w))
    BY <1>2, <1>4, <1>5, <1>10, <1>11, <2>1, RanIs
  <2> QED BY <1>13, <2>2, Zenon
<1>15. ~ w => NarrowHolds(s, hs)
  <2> SUFFICES ASSUME w = FALSE PROVE NarrowHolds(s, hs)
    OBVIOUS
  <2>1. DOMAIN hs = 1..fam.holes /\ fam = Family(s.name)
    BY <1>2, <1>9 DEF HoleValues
  <2>2. Symbol(n, c, FALSE) \in DOMAIN compiled
    BY <1>2, <1>8, Zenon
  <2>3. ~ NeedsWide(n, c, hs)
    BY <1>2, <1>3, <1>6, <2>2
  <2>4. \A h \in DOMAIN hs : ~ Carries(n, c, hs, h)
    BY <1>2
  <2> QED BY <1>9, <2>1, <2>3, <2>4 DEF NeedsWide, Carries, NarrowHolds, NarrowOf
<1>16. ASSUME NEW u \in HoleUse(fam) \cup StackUse \cup TargetUse(fam),
              u \in Range(Uses(fam, c, <<>>)), u \in Range(compiled[s])
       PROVE  field[u] = Wanted(fam, ls, hs, u)
  <2>1. field[u] = Finds(s, list, fam, ls, hs, w, u)
    BY <1>9, <1>13, <1>16, Zenon DEF FieldOf
  <2>2. fam = Family(s.name) /\ hs \in HoleValues(fam)
    BY <1>2, <1>9
  <2>3. Finds(s, list, fam, ls, hs, w, u) = Wanted(fam, ls, hs, u)
    <3>1. lib \in Libraries /\ ExtractInv /\ s \in DOMAIN compiled /\ s.wide = w
      BY <1>1, <1>8, <1>9
    <3>2. u \in Range(compiled[s]) /\ u \in HoleUse(fam) \cup StackUse \cup TargetUse(fam)
      BY <1>16
    <3> QED BY <1>10, <1>15, <2>2, <3>1, <3>2, FindsAre
  <2> QED BY <2>1, <2>3
<1>17. PICK calls \in Callings : compiled[s] = Uses(fam, c, calls)
  BY <1>2, <1>9, <1>10 DEF Stencil, UsesOf
<1>18. /\ \A h \in 1..fam.holes :
             /\ Use("Hole", h - 1) \in HoleUse(fam)
             /\ Use("Hole", h - 1) \in Range(Uses(fam, c, <<>>))
             /\ Use("Hole", h - 1) \in Range(compiled[s])
       /\ \A i \in 1..Values(fam) : c[i] = 0 =>
             /\ Use("Stack", StackId(c, i)) \in StackUse
             /\ Use("Stack", StackId(c, i)) \in Range(Uses(fam, c, <<>>))
             /\ Use("Stack", StackId(c, i)) \in Range(compiled[s])
       /\ \A t \in 1..Metadata(fam).jumps :
             /\ Use("Target", t - 1) \in TargetUse(fam)
             /\ Use("Target", t - 1) \in Range(Uses(fam, c, <<>>))
             /\ Use("Target", t - 1) \in Range(compiled[s])
  <2>1. <<>> \in Callings
    BY DEF Callings
  <2>2. fam = Family(s.name) /\ c = s.placement
    BY <1>2, <1>9
  <2> QED BY <1>1, <1>12, <1>17, <2>1, <2>2, OwnUses
<1>19. \A k, x : Use(k, x).kind = k /\ Use(k, x).id = x
  BY DEF Use
<1>20. ASSUME NEW h \in 1..fam.holes
       PROVE  field[Use("Hole", h - 1)] = hs[h]
  <2>1. PICK u : u = Use("Hole", h - 1)
    OBVIOUS
  <2>2. /\ u \in HoleUse(fam) /\ u \in Range(Uses(fam, c, <<>>)) /\ u \in Range(compiled[s])
        /\ u.kind = "Hole" /\ u.id = h - 1
    BY <1>18, <1>19, <2>1
  <2>3. field[u] = hs[u.id + 1]
    BY <1>16, <2>2 DEF Wanted
  <2>4. (h - 1) + 1 = h
    OBVIOUS
  <2> QED BY <2>1, <2>2, <2>3, <2>4
<1>21. ASSUME NEW t \in 1..Metadata(fam).jumps
       PROVE  field[Use("Target", t - 1)] = <<"jump", t - 1>>
  <2>1. PICK u : u = Use("Target", t - 1)
    OBVIOUS
  <2>2. /\ u \in TargetUse(fam) /\ u \in Range(Uses(fam, c, <<>>)) /\ u \in Range(compiled[s])
        /\ u.kind = "Target" /\ u.id = t - 1
    BY <1>18, <1>19, <2>1
  <2>3. field[u] = <<"jump", u.id>>
    BY <1>16, <2>2 DEF Wanted
  <2> QED BY <2>1, <2>2, <2>3
<1>22. ASSUME NEW i \in 1..Values(fam), c[i] = 0
       PROVE  OffsetOf(c, field, i) = ls[i].index
  <2>1. PICK u : u = Use("Stack", StackId(c, i))
    OBVIOUS
  <2>2. /\ u \in StackUse /\ u \in Range(Uses(fam, c, <<>>)) /\ u \in Range(compiled[s])
        /\ u.kind = "Stack" /\ u.id = StackId(c, i)
    BY <1>18, <1>19, <1>22, <2>1
  <2>3. field[u] = StackVars(fam, ls)[u.id + 1]
    BY <1>16, <2>2 DEF Wanted
  <2>4. /\ DOMAIN ls = 1..Values(fam)
        /\ \A j \in 1..Values(fam) : ls[j].index \in Nat /\ (c[j] = 0 <=> ls[j].kind = "Stack")
    <3>1. ls \in Operands(fam)
      BY <1>2
    <3>2. BitsTell(fam, ls, c)
      BY <1>1, <1>2, <3>1, OperandsAre
    <3> QED BY <3>2 DEF BitsTell
  <2>5. StackVars(fam, ls)[StackId(c, i) + 1] = ls[i].index
    BY <1>12, <1>22, <2>4, StackVarsAre
  <2> QED BY <2>1, <2>2, <2>3, <2>5 DEF OffsetOf
<1>23. Body(fam, c, Regs(fam), Stack, field) = Meant(n, ls, hs)
  BY <1>1, <1>2, <1>20, <1>21, <1>22, BodyMeans
<1> QED BY <1>14, <1>23

(* The selected stencil does what the emission is for.                     *)
THEOREM Computes ==
    Spec => []StencilComputes
<1>1. Inv => StencilComputes
  BY RanIsMeant DEF StencilComputes, Carries
<1> QED BY <1>1, Invariance, PTL

=============================================================================
