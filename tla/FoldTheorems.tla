---------------------------- MODULE FoldTheorems ----------------------------
(***************************************************************************)
(* Induction along a fold.  The models fold an operator over a sequence    *)
(* with FoldLeft of the community modules; a proof about such a fold       *)
(* instantiates this module with the operator and with what holds of the   *)
(* result after the first n elements.                                      *)
(***************************************************************************)
EXTENDS Integers, Sequences, WellFoundedInduction, TLAPS

CONSTANTS
    Op(_, _, _),      \* context, result so far, next element
    Inv(_, _, _, _)   \* context, sequence, how many elements, result so far

Largest(S) == CHOOSE x \in S : \A y \in S : x >= y

(* FoldLeft of SequencesExt, as MapThenFoldSet of Folds defines it: iter   *)
(* is the result for every set of positions.                               *)
Solves(iter, ctx, base, seq, positions) ==
    iter = [s \in SUBSET positions |->
              IF s = {} THEN base
              ELSE Op(ctx, iter[s \ {Largest(s)}], seq[Largest(s)])]

Folded(ctx, base, seq) == CHOOSE iter : Solves(iter, ctx, base, seq, DOMAIN seq)

Fold(ctx, base, seq) == Folded(ctx, base, seq)[DOMAIN seq]

-----------------------------------------------------------------------------

(* A set of natural numbers that is not empty has a least element.         *)
LEMMA Least ==
    ASSUME NEW T \in SUBSET Nat, T # {}
    PROVE  \E n \in T : \A m \in T : n <= m
<1> DEFINE Below == {ss \in Nat \X Nat : ss[1] < ss[2]}
<1>1. IsWellFoundedOn(Below, Nat)
  BY NatLessThanWellFounded DEF OpToRel
<1>2. \A m, n \in Nat : m < n => <<m, n>> \in Below
  OBVIOUS
<1> HIDE DEF Below
<1>3. PICK n \in T : \A m \in T : ~ (<<m, n>> \in Below)
  BY <1>1, WFMin
<1>4. \A m \in T : n <= m
  <2> SUFFICES ASSUME NEW m \in T PROVE n <= m
    OBVIOUS
  <2>1. m \in Nat /\ n \in Nat
    OBVIOUS
  <2>2. ~ (m < n)
    BY <1>2, <1>3, <2>1
  <2> QED BY <2>1, <2>2
<1> QED BY <1>4

LEMMA LargestOf ==
    ASSUME NEW n \in Nat, NEW s \in SUBSET (1..(n + 1)), n + 1 \in s
    PROVE  Largest(s) = n + 1
<1>1. \A y \in s : n + 1 >= y
  OBVIOUS
<1>2. \A x \in s : (\A y \in s : x >= y) => x = n + 1
  <2> SUFFICES ASSUME NEW x \in s, x >= n + 1 PROVE x = n + 1
    OBVIOUS
  <2>1. x \in 1..(n + 1)
    OBVIOUS
  <2> QED BY <2>1
<1> QED BY <1>1, <1>2 DEF Largest

(* The recursion has a solution on the sets of the first n positions.      *)
LEMMA FoldedExists ==
    ASSUME NEW ctx, NEW base, NEW seq, NEW N \in Nat
    PROVE  \E iter : Solves(iter, ctx, base, seq, 1..N)
<1> DEFINE Sol(iter, n) == Solves(iter, ctx, base, seq, 1..n)
           Unsolved == {n \in Nat : ~ \E iter : Sol(iter, n)}
<1>1. \E iter : Sol(iter, 0)
  <2> DEFINE g == [s \in SUBSET (1..0) |-> base]
  <2>1. \A s \in SUBSET (1..0) : s = {}
    <3>1. 1..0 = {}
      OBVIOUS
    <3> QED BY <3>1
  <2>2. Sol(g, 0)
    BY <2>1, Zenon DEF Solves
  <2> QED BY <2>2
<1>2. ASSUME NEW n \in Nat, \E iter : Sol(iter, n)
      PROVE  \E iter : Sol(iter, n + 1)
  <2>1. PICK g : Sol(g, n)
    BY <1>2
  <2> DEFINE rest(s) == s \ {n + 1}
             h == [s \in SUBSET (1..(n + 1)) |->
                     IF n + 1 \in s THEN Op(ctx, g[rest(s)], seq[n + 1]) ELSE g[s]]
  <2>2. \A s \in SUBSET (1..(n + 1)) : rest(s) \in SUBSET (1..n) /\ n + 1 \notin rest(s)
    OBVIOUS
  <2>3. ASSUME NEW s \in SUBSET (1..(n + 1)), n + 1 \notin s
        PROVE  s \in SUBSET (1..n)
    <3>1. \A k \in 1..(n + 1) : k # n + 1 => k \in 1..n
      OBVIOUS
    <3> QED BY <2>3, <3>1
  <2>4. 1..n \subseteq 1..(n + 1)
    OBVIOUS
  <2> HIDE DEF rest
  <2>5. ASSUME NEW s \in SUBSET (1..(n + 1))
        PROVE  h[s] = IF s = {} THEN base
                      ELSE Op(ctx, h[s \ {Largest(s)}], seq[Largest(s)])
    <3>1. CASE n + 1 \in s
      <4>1. Largest(s) = n + 1
        BY <3>1, LargestOf
      <4>2. rest(s) \in SUBSET (1..(n + 1)) /\ h[rest(s)] = g[rest(s)]
        BY <2>2, <2>4
      <4>3. h[s] = Op(ctx, g[rest(s)], seq[n + 1]) /\ s # {}
        BY <3>1
      <4> HIDE DEF h
      <4> QED BY <4>1, <4>2, <4>3 DEF rest
    <3>2. CASE n + 1 \notin s
      <4>1. s \in SUBSET (1..n)
        BY <2>3, <3>2
      <4>2. h[s] = g[s]
        BY <3>2
      <4>3. s \ {Largest(s)} \in SUBSET (1..n) /\ n + 1 \notin s \ {Largest(s)}
        BY <3>2, <4>1
      <4>4. s \ {Largest(s)} \in SUBSET (1..(n + 1))
        BY <2>4, <4>3
      <4>5. h[s \ {Largest(s)}] = g[s \ {Largest(s)}]
        BY <4>3, <4>4
      <4>6. g[s] = IF s = {} THEN base
                   ELSE Op(ctx, g[s \ {Largest(s)}], seq[Largest(s)])
        BY <2>1, <4>1, Zenon DEF Solves
      <4> HIDE DEF h
      <4> QED BY <4>2, <4>5, <4>6
    <3> QED BY <3>1, <3>2
  <2>6. h = [s \in SUBSET (1..(n + 1)) |-> h[s]]
    OBVIOUS
  <2> HIDE DEF h
  <2>7. Sol(h, n + 1)
    BY <2>5, <2>6, Zenon DEF Solves
  <2> QED BY <2>7
<1> HIDE DEF Sol
<1>3. Unsolved = {}
  <2> SUFFICES ASSUME Unsolved # {} PROVE FALSE
    OBVIOUS
  <2>1. PICK n \in Unsolved : \A m \in Unsolved : n <= m
    BY Least
  <2>2. n # 0
    BY <1>1
  <2>3. n - 1 \in Nat /\ ~ (n <= n - 1) /\ (n - 1) + 1 = n
    BY <2>2
  <2>4. \E iter : Sol(iter, n - 1)
    BY <2>1, <2>3
  <2> QED BY <1>2, <2>3, <2>4
<1>4. \E iter : Sol(iter, N)
  BY <1>3
<1> QED BY <1>4 DEF Sol

(* What the fold is after the first n elements.                            *)
Prefix(ctx, base, seq, n) == Folded(ctx, base, seq)[1..n]

Stepwise(ctx, base, seq, N) ==
    /\ Prefix(ctx, base, seq, 0) = base
    /\ \A n \in 1..N :
          Prefix(ctx, base, seq, n) = Op(ctx, Prefix(ctx, base, seq, n - 1), seq[n])
    /\ Fold(ctx, base, seq) = Prefix(ctx, base, seq, N)

LEMMA FoldSteps ==
    ASSUME NEW ctx, NEW base, NEW seq, NEW N \in Nat, DOMAIN seq = 1..N
    PROVE  Stepwise(ctx, base, seq, N)
<1> DEFINE iter == Folded(ctx, base, seq)
<1>1. iter = [s \in SUBSET (1..N) |->
                IF s = {} THEN base
                ELSE Op(ctx, iter[s \ {Largest(s)}], seq[Largest(s)])]
  <2>1. \E g : Solves(g, ctx, base, seq, DOMAIN seq)
    BY FoldedExists
  <2>2. Solves(iter, ctx, base, seq, 1..N)
    BY <2>1 DEF Folded
  <2> HIDE DEF iter
  <2> QED BY <2>2, Zenon DEF Solves
<1> HIDE DEF iter
<1>2. iter[1..0] = base
  <2>1. 1..0 = {} /\ {} \in SUBSET (1..N)
    OBVIOUS
  <2> QED BY <1>1, <2>1, Zenon
<1>3. \A n \in 1..N : iter[1..n] = Op(ctx, iter[1..(n - 1)], seq[n])
  <2> SUFFICES ASSUME NEW n \in 1..N
               PROVE  iter[1..n] = Op(ctx, iter[1..(n - 1)], seq[n])
    OBVIOUS
  <2>1. n - 1 \in Nat /\ (n - 1) + 1 = n /\ n \in 1..n
    OBVIOUS
  <2>2. 1..n \in SUBSET (1..N) /\ 1..n # {}
    <3>1. 1..n # {}
      BY <2>1, Zenon
    <3>2. 1..n \in SUBSET (1..N)
      OBVIOUS
    <3> QED BY <3>1, <3>2
  <2>3. Largest(1..n) = n
    <3>1. 1..n \in SUBSET (1..((n - 1) + 1)) /\ (n - 1) + 1 \in 1..n
      BY <2>1
    <3>2. Largest(1..n) = (n - 1) + 1
      BY <2>1, <3>1, LargestOf
    <3> QED BY <2>1, <3>2
  <2>4. (1..n) \ {n} = 1..(n - 1)
    OBVIOUS
  <2>5. iter[1..n] = Op(ctx, iter[(1..n) \ {Largest(1..n)}], seq[Largest(1..n)])
    BY <1>1, <2>2, Zenon
  <2> QED BY <2>3, <2>4, <2>5
<1> QED BY <1>2, <1>3 DEF Stepwise, Prefix, Fold, iter

(* What holds of the base and is kept by every element holds of the fold.  *)
THEOREM FoldInduction ==
    ASSUME NEW ctx, NEW base, NEW seq, NEW N \in Nat, DOMAIN seq = 1..N,
           Inv(ctx, seq, 0, base),
           \A n \in 1..N : \A v :
              Inv(ctx, seq, n - 1, v) => Inv(ctx, seq, n, Op(ctx, v, seq[n]))
    PROVE  Inv(ctx, seq, N, Fold(ctx, base, seq))
<1> DEFINE P(n) == Prefix(ctx, base, seq, n)
<1>1. P(0) = base /\ Fold(ctx, base, seq) = P(N)
      /\ \A n \in 1..N : P(n) = Op(ctx, P(n - 1), seq[n])
  <2>1. Stepwise(ctx, base, seq, N)
    BY FoldSteps
  <2> QED BY <2>1 DEF Stepwise
<1> HIDE DEF P
<1> DEFINE Broken == {n \in Nat : n <= N /\ ~ Inv(ctx, seq, n, P(n))}
<1>2. Broken = {}
  <2> SUFFICES ASSUME Broken # {} PROVE FALSE
    OBVIOUS
  <2>1. PICK n \in Broken : \A m \in Broken : n <= m
    BY Least
  <2>2. n # 0
    BY <1>1
  <2>3. n \in 1..N /\ n - 1 \in Nat /\ ~ (n <= n - 1) /\ n - 1 <= N
    BY <2>2
  <2>4. Inv(ctx, seq, n - 1, P(n - 1))
    BY <2>1, <2>3
  <2>5. Inv(ctx, seq, n, P(n))
    BY <1>1, <2>3, <2>4
  <2> QED BY <2>5
<1>3. Inv(ctx, seq, N, P(N))
  BY <1>2
<1> QED BY <1>1, <1>3

=============================================================================
