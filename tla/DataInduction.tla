--------------------------- MODULE DataInduction ---------------------------
(* What the proofs need of the naturals: a set of them has a least one, so   *)
(* what is in a set with 0, and with n + 1 whenever with n, is all of them;  *)
(* and a function that is given by its value at 0 and by the step from each  *)
(* value to the next exists.  The sets and the steps are data here, so that  *)
(* the lemmas can be cited by first-order provers.                           *)
EXTENDS Integers, FiniteSets, FiniteSetsExt, FiniteSetTheorems, WellFoundedInduction, TLAPS

(* The sets 0..k for k in T, up to one of them, are finite sets, and strict  *)
(* inclusion is well-founded among these.                                    *)
LEMMA LeastOf ==
  ASSUME NEW T \in SUBSET Nat, T # {}
  PROVE  \E m \in T : \A k \in T : m <= k
<1>1. PICK x \in T : TRUE
  OBVIOUS
<1> DEFINE S == 0 .. x
           F == {0 .. k : k \in {j \in T : j <= x}}
<1>2. F \subseteq FiniteSubsetsOf(S)
  <2>1. ASSUME NEW k \in T, k <= x
        PROVE  (0 .. k) \subseteq S /\ IsFiniteSet(0 .. k)
    BY <2>1, FS_Interval
  <2> QED
    BY <2>1 DEF FiniteSubsetsOf
<1>3. IsWellFoundedOn(StrictSubsetOrdering(S), FiniteSubsetsOf(S))
  BY FS_StrictSubsetOrderingWellFounded
<1>4. PICK f \in F : \A g \in F : <<g, f>> \notin StrictSubsetOrdering(S)
  <2>1. F # {}
    OBVIOUS
  <2> HIDE DEF F, S
  <2> QED
    BY <1>2, <1>3, <2>1, WFMin
<1>5. PICK m \in T : m <= x /\ f = 0 .. m
  OBVIOUS
<1>6. ASSUME NEW k \in T, k < m
      PROVE  FALSE
  <2>1. (0 .. k) \in F
    BY <1>5, <1>6
  <2>2. m \in 0 .. m /\ m \notin 0 .. k
    BY <1>6
  <2>3. (0 .. k) \subseteq (0 .. m) /\ (0 .. k) # (0 .. m) /\ (0 .. m) \subseteq S
    BY <1>5, <1>6, <2>2
  <2>4. <<0 .. k, 0 .. m>> \in StrictSubsetOrdering(S)
    BY <2>3 DEF StrictSubsetOrdering
  <2> QED
    BY <1>4, <1>5, <2>1, <2>4
<1> QED
  BY <1>6

(* A finite set of naturals has a bound, and when it is not empty a greatest  *)
(* and a least.                                                              *)
LEMMA BoundOf ==
  ASSUME NEW S \in SUBSET Nat, IsFiniteSet(S)
  PROVE  \E n \in Nat : \A x \in S : x <= n
<1> DEFINE F == {S \ (0 .. k) : k \in Nat}
<1>1. F # {} /\ F \subseteq FiniteSubsetsOf(S)
  <2>1. S \ (0 .. 0) \in F
    OBVIOUS
  <2>2. \A k \in Nat : S \ (0 .. k) \subseteq S /\ IsFiniteSet(S \ (0 .. k))
    BY FS_Subset
  <2> QED
    BY <2>1, <2>2 DEF FiniteSubsetsOf
<1>2. IsWellFoundedOn(StrictSubsetOrdering(S), FiniteSubsetsOf(S))
  BY FS_StrictSubsetOrderingWellFounded
<1>3. PICK f \in F : \A g \in F : <<g, f>> \notin StrictSubsetOrdering(S)
  <2> HIDE DEF F
  <2> QED
    BY <1>1, <1>2, WFMin
<1>4. PICK m \in Nat : f = S \ (0 .. m)
  BY <1>3
<1>5. ASSUME NEW x \in S, ~(x <= m)
      PROVE  FALSE
  <2>1. x \in f /\ x \notin S \ (0 .. x) /\ S \ (0 .. x) \subseteq f
    BY <1>4, <1>5
  <2>2. S \ (0 .. x) \in F /\ f \subseteq S
    BY <1>4
  <2>3. <<S \ (0 .. x), f>> \in StrictSubsetOrdering(S)
    BY <2>1, <2>2 DEF StrictSubsetOrdering
  <2> QED
    BY <1>3, <2>2, <2>3
<1> QED
  BY <1>5

LEMMA GreatestOf ==
  ASSUME NEW S \in SUBSET Nat, S # {}, NEW n \in Nat, \A x \in S : x <= n
  PROVE  Max(S) \in S /\ \A x \in S : Max(S) >= x
<1> DEFINE T == {k \in Nat : \A x \in S : x <= k}
<1>1. PICK m \in T : \A k \in T : m <= k
  <2>1. T # {} /\ T \subseteq Nat
    OBVIOUS
  <2> HIDE DEF T
  <2> QED
    BY <2>1, LeastOf
<1>2. m \in S
  <2> SUFFICES ASSUME m \notin S PROVE FALSE
    OBVIOUS
  <2>1. m \in Nat /\ \A x \in S : x \in Nat /\ x <= m /\ x # m
    BY <1>1
  <2>2. m # 0
    <3>1. PICK x \in S : TRUE
      OBVIOUS
    <3> QED
      BY <2>1, <3>1
  <2>3. m - 1 \in T
    BY <1>1, <2>1, <2>2
  <2> QED
    BY <1>1, <2>3
<1>3. m \in S /\ \A x \in S : m >= x
  BY <1>1, <1>2
<1> HIDE DEF T
<1>4. \E x \in S : \A y \in S : x >= y
  BY <1>3
<1> QED
  BY <1>4 DEF Max

LEMMA SmallestOf ==
  ASSUME NEW S \in SUBSET Nat, S # {}
  PROVE  Min(S) \in S /\ \A x \in S : Min(S) <= x
<1>1. \E x \in S : \A y \in S : x =< y
  BY LeastOf
<1> QED
  BY <1>1 DEF Min

LEMMA NatByStep ==
  ASSUME NEW T, 0 \in T, \A n \in Nat : n \in T => n + 1 \in T
  PROVE  Nat \subseteq T
<1> SUFFICES ASSUME Nat \ T # {}
             PROVE  FALSE
  OBVIOUS
<1>1. PICK m \in Nat \ T : \A k \in Nat \ T : m <= k
  BY LeastOf
<1>2. m # 0 /\ m - 1 \in Nat /\ m - 1 \in T
  BY <1>1
<1> QED
  BY <1>1, <1>2

(* f is x0 at 0, and D[n] leads from its value at n - 1 to that at n.        *)
IsFold(f, N, x0, D) == f[0] = x0 /\ \A n \in 1 .. N : f[n] = D[n][f[n - 1]]

LEMMA FoldExists ==
  ASSUME NEW N \in Nat, NEW X, NEW x0 \in X, NEW D \in [1 .. N -> [X -> X]]
  PROVE  \E f \in [0 .. N -> X] : IsFold(f, N, x0, D)
<1> DEFINE Upto(n) == \E f \in [0 .. n -> X] :
                         f[0] = x0 /\ \A k \in 1 .. n : f[k] = D[k][f[k - 1]]
           T       == {n \in Nat : n <= N => Upto(n)}
<1>1. 0 \in T
  <2> DEFINE g == [k \in 0 .. 0 |-> x0]
  <2>1. g \in [0 .. 0 -> X] /\ g[0] = x0
    OBVIOUS
  <2>2. \A k \in 1 .. 0 : FALSE
    OBVIOUS
  <2> HIDE DEF g
  <2>3. Upto(0)
    BY <2>1, <2>2
  <2> QED
    BY <2>3
<1>2. ASSUME NEW n \in Nat, n \in T
      PROVE  n + 1 \in T
  <2> SUFFICES ASSUME n + 1 <= N
               PROVE  Upto(n + 1)
    OBVIOUS
  <2>1. PICK f \in [0 .. n -> X] : f[0] = x0 /\ \A k \in 1 .. n : f[k] = D[k][f[k - 1]]
    BY <1>2
  <2> DEFINE g == [k \in 0 .. n + 1 |-> IF k = n + 1 THEN D[n + 1][f[n]] ELSE f[k]]
  <2>2. D[n + 1][f[n]] \in X
    BY <2>1
  <2>3. g \in [0 .. n + 1 -> X] /\ g[0] = x0
    BY <2>1, <2>2
  <2>4. \A k \in 1 .. n + 1 : g[k] = D[k][g[k - 1]]
    BY <2>1
  <2> QED
    BY <2>3, <2>4
<1>3. Nat \subseteq T
  <2> HIDE DEF T
  <2> QED
    BY <1>1, <1>2, NatByStep
<1>4. Upto(N)
  BY <1>3
<1> QED
  BY <1>4 DEF IsFold

-----------------------------------------------------------------------------
(* Places and sums: how many of a finite set come before one of them, and   *)
(* what the values of its members add up to, however they are taken.         *)

(* When before[x] is what comes before x in a finite set that has an order,  *)
(* each place from 0 is taken by one of the set, and places tell the order.  *)
LEMMA Places ==
  ASSUME NEW S, IsFiniteSet(S), NEW before \in [S -> SUBSET S],
         \A x \in S : x \notin before[x],
         \A x, y \in S : y \in before[x] => before[y] \subseteq before[x],
         \A x, y \in S : x = y \/ x \in before[y] \/ y \in before[x]
  PROVE  /\ Cardinality(S) \in Nat
         /\ \A x \in S : Cardinality(before[x]) \in 0 .. Cardinality(S) - 1
         /\ \A x, y \in S : x \in before[y] <=> Cardinality(before[x]) < Cardinality(before[y])
         /\ \A k \in 1 .. Cardinality(S) : \E x \in S : Cardinality(before[x]) = k - 1
<1> DEFINE N == Cardinality(S)
           place == [x \in S |-> Cardinality(before[x])]
<1>1. N \in Nat
  BY FS_CardinalityType
<1>2. ASSUME NEW x \in S
      PROVE  IsFiniteSet(before[x]) /\ place[x] \in Nat /\ place[x] < N
  <2>1. before[x] \subseteq S /\ before[x] # S
    OBVIOUS
  <2>2. IsFiniteSet(before[x]) /\ Cardinality(before[x]) <= N /\ Cardinality(before[x]) # N
    BY <2>1, FS_Subset
  <2>3. Cardinality(before[x]) \in Nat
    BY <2>2, FS_CardinalityType
  <2> QED
    BY <1>1, <2>2, <2>3
<1>3. ASSUME NEW x \in S, NEW y \in S, x \in before[y]
      PROVE  place[x] < place[y]
  <2>1. before[x] \subseteq before[y] /\ before[x] # before[y]
    BY <1>3
  <2>2. Cardinality(before[x]) <= Cardinality(before[y]) /\ Cardinality(before[x]) # Cardinality(before[y])
    BY <1>2, <2>1, FS_Subset
  <2> QED
    BY <1>2, <2>2
<1>4. place \in [S -> 0 .. N - 1]
  BY <1>1, <1>2
<1> HIDE DEF place
<1>5. \A x, y \in S : x # y => place[x] # place[y]
  BY <1>3, <1>2
<1>6. place \in Injection(S, 0 .. N - 1)
  BY <1>4, <1>5 DEF Injection, IsInjective
<1>7. IsFiniteSet(0 .. N - 1) /\ Cardinality(0 .. N - 1) = N
  BY <1>1, FS_Interval
<1>8. place \in Surjection(S, 0 .. N - 1)
  BY <1>6, <1>7, FS_Injection
<1>9. \A k \in 0 .. N - 1 : \E x \in S : place[x] = k
  BY <1>8 DEF Surjection
<1>10. \A x, y \in S : x \in before[y] <=> place[x] < place[y]
  BY <1>2, <1>3
<1>11. \A k \in 1 .. N : \E x \in S : place[x] = k - 1
  BY <1>1, <1>9
<1> QED
  BY <1>1, <1>4, <1>10, <1>11 DEF place

OneOf(R) == CHOOSE y \in R : TRUE

(* How the sums of f over all parts of S come from each other, when one of a *)
(* part is taken away.                                                       *)
SumStep(f, S, sums) ==
  [R \in SUBSET S |-> IF R = {} THEN 0 ELSE f[OneOf(R)] + sums[R \ {OneOf(R)}]]

AreSums(f, S, sums) == sums = SumStep(f, S, sums)

IsSum(f, S, n) == \E sums : AreSums(f, S, sums) /\ n = sums[S]

LEMMA PartsAreFinite ==
  ASSUME NEW S, IsFiniteSet(S), NEW R \in SUBSET S
  PROVE  /\ IsFiniteSet(R) /\ Cardinality(R) \in 0 .. Cardinality(S) /\ Cardinality(S) \in Nat
         /\ R = {} <=> Cardinality(R) = 0
         /\ \A x \in R : R \ {x} \in SUBSET S /\ Cardinality(R \ {x}) = Cardinality(R) - 1
<1>1. IsFiniteSet(R) /\ Cardinality(R) <= Cardinality(S) /\ Cardinality(R) \in Nat /\ Cardinality(S) \in Nat
  BY FS_Subset, FS_CardinalityType
<1>2. \A x \in R : Cardinality(R \ {x}) = Cardinality(R) - 1
  BY <1>1, FS_RemoveElement
<1>3. R = {} <=> Cardinality(R) = 0
  BY <1>1, FS_EmptySet
<1> QED
  BY <1>1, <1>2, <1>3

LEMMA SumsExist ==
  ASSUME NEW S, IsFiniteSet(S), NEW f \in [S -> Int]
  PROVE  \E sums : AreSums(f, S, sums)
<1> DEFINE X == [SUBSET S -> Int]
           N == Cardinality(S)
           none == [R \in SUBSET S |-> 0]
           D == [n \in 1 .. N + 1 |-> [g \in X |-> SumStep(f, S, g)]]
<1>1. N \in Nat
  BY FS_CardinalityType
<1>2. ASSUME NEW g \in X
      PROVE  /\ SumStep(f, S, g) \in X /\ SumStep(f, S, g)[{}] = 0
             /\ \A R \in SUBSET S : R # {} => SumStep(f, S, g)[R] = f[OneOf(R)] + g[R \ {OneOf(R)}]
  <2>1. \A R \in SUBSET S : R # {} => OneOf(R) \in R
    BY DEF OneOf
  <2> QED
    BY <2>1 DEF SumStep
<1>3. none \in X /\ none[{}] = 0
  OBVIOUS
<1> HIDE DEF X, N, none
<1>4. D \in [1 .. N + 1 -> [X -> X]]
  BY <1>2
<1>5. \A n \in 1 .. N + 1, g \in X : D[n][g] = SumStep(f, S, g)
  OBVIOUS
<1> HIDE DEF D
<1>6. PICK F \in [0 .. N + 1 -> X] : IsFold(F, N + 1, none, D)
  BY <1>1, <1>3, <1>4, FoldExists
<1>7. F[0] = none /\ \A k \in 0 .. N + 1 : F[k] \in X
  BY <1>1, <1>6 DEF IsFold
<1>8. ASSUME NEW k \in 0 .. N
      PROVE  F[k + 1] = SumStep(f, S, F[k])
  <2>1. k + 1 \in 1 .. N + 1 /\ (k + 1) - 1 = k /\ F[k] \in X
    BY <1>1, <1>7
  <2>2. F[k + 1] = D[k + 1][F[(k + 1) - 1]]
    BY <1>6, <2>1 DEF IsFold
  <2> QED
    BY <1>5, <2>1, <2>2
<1> DEFINE T == {k \in Nat : k <= N => \A R \in SUBSET S : Cardinality(R) <= k => F[k + 1][R] = F[k][R]}
<1>9. 0 \in T
  <2> SUFFICES ASSUME NEW R \in SUBSET S, Cardinality(R) <= 0 PROVE F[0 + 1][R] = F[0][R]
    OBVIOUS
  <2>1. R = {}
    BY PartsAreFinite
  <2>2. F[0 + 1] = SumStep(f, S, F[0]) /\ F[0] \in X
    BY <1>1, <1>7, <1>8
  <2> QED
    BY <1>2, <1>3, <1>7, <2>1, <2>2
<1>10. ASSUME NEW k \in Nat, k \in T
       PROVE  k + 1 \in T
  <2> SUFFICES ASSUME k + 1 <= N, NEW R \in SUBSET S, Cardinality(R) <= k + 1
               PROVE  F[(k + 1) + 1][R] = F[k + 1][R]
    OBVIOUS
  <2>1. k \in 0 .. N /\ k + 1 \in 0 .. N /\ F[k] \in X /\ F[k + 1] \in X
    BY <1>1, <1>7
  <2>2. F[k + 1] = SumStep(f, S, F[k]) /\ F[(k + 1) + 1] = SumStep(f, S, F[k + 1])
    BY <1>8, <2>1
  <2>3. CASE R = {}
    BY <1>2, <2>1, <2>2, <2>3
  <2>4. CASE R # {}
    <3> DEFINE c == OneOf(R)
    <3>1. c \in R
      BY <2>4 DEF OneOf
    <3> HIDE DEF c
    <3>2. R \ {c} \in SUBSET S /\ Cardinality(R \ {c}) <= k
      BY <3>1, PartsAreFinite
    <3>3. F[k + 1][R \ {c}] = F[k][R \ {c}]
      BY <1>10, <2>1, <3>2
    <3>4. F[(k + 1) + 1][R] = f[c] + F[k + 1][R \ {c}]
      BY <1>2, <2>1, <2>2, <2>4 DEF c
    <3>5. F[k + 1][R] = f[c] + F[k][R \ {c}]
      BY <1>2, <2>1, <2>2, <2>4 DEF c
    <3> QED
      BY <3>3, <3>4, <3>5
  <2> QED
    BY <2>3, <2>4
<1>11. N \in T
  <2> HIDE DEF T
  <2>1. Nat \subseteq T
    BY <1>9, <1>10, NatByStep
  <2> QED
    BY <1>1, <2>1
<1>12. F[N + 1] = F[N]
  <2>1. \A R \in SUBSET S : F[N + 1][R] = F[N][R]
    BY <1>1, <1>11, PartsAreFinite DEF N
  <2>2. F[N] \in X /\ F[N + 1] \in X
    BY <1>1, <1>7
  <2> QED
    BY <2>1, <2>2 DEF X
<1>13. F[N] = SumStep(f, S, F[N])
  BY <1>1, <1>8, <1>12
<1> QED
  BY <1>13 DEF AreSums

(* Whichever one is taken away.                                              *)
AddUp(f, S, sums) ==
  /\ sums[{}] = 0
  /\ \A R \in SUBSET S : sums[R] \in Int /\ \A x \in R : sums[R] = f[x] + sums[R \ {x}]

LEMMA SumsAre ==
  ASSUME NEW S, IsFiniteSet(S), NEW f \in [S -> Int], NEW sums, AreSums(f, S, sums)
  PROVE  AddUp(f, S, sums)
<1> DEFINE Fine(R) == sums[R] \in Int /\ \A x \in R : sums[R] = f[x] + sums[R \ {x}]
           T == {k \in Nat : \A R \in SUBSET S : Cardinality(R) <= k => Fine(R)}
<1>1. sums[{}] = 0
  BY DEF AreSums, SumStep
<1>2. \A R \in SUBSET S : R # {} => sums[R] = f[OneOf(R)] + sums[R \ {OneOf(R)}]
  <2> DEFINE h == SumStep(f, S, sums)
  <2>1. sums = h /\ \A R \in SUBSET S : R # {} => h[R] = f[OneOf(R)] + sums[R \ {OneOf(R)}]
    BY DEF AreSums, SumStep
  <2> HIDE DEF h
  <2> QED
    BY <2>1
<1>3. 0 \in T
  <2> SUFFICES ASSUME NEW R \in SUBSET S, Cardinality(R) <= 0 PROVE Fine(R)
    OBVIOUS
  <2>1. R = {}
    BY PartsAreFinite
  <2> QED
    BY <1>1, <2>1
<1>4. ASSUME NEW k \in Nat, k \in T
      PROVE  k + 1 \in T
  <2> SUFFICES ASSUME NEW R \in SUBSET S, Cardinality(R) = k + 1 PROVE Fine(R)
    BY <1>4, PartsAreFinite
  <2> DEFINE c == OneOf(R)
  <2>1. R # {} /\ c \in R
    BY PartsAreFinite DEF OneOf
  <2>2. sums[R] = f[c] + sums[R \ {c}]
    BY <1>2, <2>1
  <2> HIDE DEF c
  <2>3. \A x \in R : R \ {x} \in SUBSET S /\ Cardinality(R \ {x}) <= k
    BY PartsAreFinite
  <2>4. \A x \in R : sums[R \ {x}] \in Int /\ \A y \in R \ {x} : sums[R \ {x}] = f[y] + sums[(R \ {x}) \ {y}]
    BY <1>4, <2>3
  <2>5. \A x \in R : f[x] \in Int
    OBVIOUS
  <2>6. sums[R] \in Int
    <3>1. sums[R \ {c}] \in Int /\ f[c] \in Int
      BY <2>1, <2>4, <2>5
    <3> QED
      BY <2>2, <3>1
  <2>7. ASSUME NEW x \in R, x # c
        PROVE  sums[R] = f[x] + sums[R \ {x}]
    <3>1. sums[R \ {c}] = f[x] + sums[(R \ {c}) \ {x}] /\ sums[R \ {x}] = f[c] + sums[(R \ {x}) \ {c}]
      BY <2>1, <2>4, <2>7
    <3>2. (R \ {c}) \ {x} = (R \ {x}) \ {c} /\ (R \ {c}) \ {x} \in SUBSET S
      OBVIOUS
    <3>3. sums[(R \ {c}) \ {x}] \in Int
      <4>1. Cardinality((R \ {c}) \ {x}) <= k
        <5>1. R \ {c} \in SUBSET S /\ Cardinality(R \ {c}) <= k /\ x \in R \ {c}
          BY <2>1, <2>3, <2>7
        <5> DEFINE Q == R \ {c}
        <5>2. Cardinality(Q \ {x}) = Cardinality(Q) - 1 /\ Cardinality(Q) \in Nat
          <6> HIDE DEF Q
          <6>1. Q \in SUBSET S /\ x \in Q
            BY <5>1 DEF Q
          <6> QED
            BY <6>1, PartsAreFinite
        <5> QED
          BY <5>1, <5>2
      <4> QED
        BY <1>4, <3>2, <4>1
    <3>4. f[x] \in Int /\ f[c] \in Int
      BY <2>1, <2>5
    <3> DEFINE rest == sums[(R \ {c}) \ {x}]
    <3>5. sums[R \ {c}] = f[x] + rest /\ sums[R \ {x}] = f[c] + rest /\ rest \in Int
      BY <3>1, <3>2, <3>3
    <3> HIDE DEF rest
    <3> QED
      BY <2>2, <3>4, <3>5
  <2> QED
    BY <2>2, <2>6, <2>7
<1> HIDE DEF T
<1>5. Nat \subseteq T
  BY <1>3, <1>4, NatByStep
<1> QED
  BY <1>1, <1>5, PartsAreFinite DEF T, AddUp

Image(m, R) == {m[x] : x \in R}

LEMMA ImageFacts ==
  ASSUME NEW S, NEW Q, NEW m \in [S -> Q], \A x, y \in S : m[x] = m[y] => x = y, NEW R \in SUBSET S
  PROVE  /\ Image(m, R) \in SUBSET Q
         /\ \A x \in R : m[x] \in Image(m, R) /\ Image(m, R \ {x}) = Image(m, R) \ {m[x]}
         /\ IsFiniteSet(R) => IsFiniteSet(Image(m, R)) /\ Cardinality(Image(m, R)) = Cardinality(R)
<1>1. Image(m, R) \in SUBSET Q /\ \A x \in R : m[x] \in Image(m, R)
  BY DEF Image
<1>2. \A x \in R : Image(m, R \ {x}) = Image(m, R) \ {m[x]}
  BY DEF Image
<1>3. ASSUME IsFiniteSet(R)
      PROVE  IsFiniteSet(Image(m, R)) /\ Cardinality(Image(m, R)) = Cardinality(R)
  <2> DEFINE h == [x \in R |-> m[x]]
  <2>1. h \in Injection(R, Image(m, R)) /\ h \in Surjection(R, Image(m, R))
    BY DEF Injection, Surjection, IsInjective, Image
  <2> HIDE DEF h
  <2> QED
    BY <1>3, <2>1, FS_Surjection
<1> QED
  BY <1>1, <1>2, <1>3

(* A sum is the same of things that stand for the others one by one.         *)
LEMMA SumMoved ==
  ASSUME NEW S, IsFiniteSet(S), NEW f \in [S -> Int], NEW n, IsSum(f, S, n),
         NEW Q, NEW g \in [Q -> Int], NEW k, IsSum(g, Q, k),
         NEW m \in [S -> Q], \A x, y \in S : m[x] = m[y] => x = y, Image(m, S) = Q,
         \A x \in S : g[m[x]] = f[x]
  PROVE  n = k /\ n \in Int
<1>1. PICK sums : AreSums(f, S, sums) /\ n = sums[S]
  BY DEF IsSum
<1>2. PICK others : AreSums(g, Q, others) /\ k = others[Q]
  BY DEF IsSum
<1>3. IsFiniteSet(Q)
  BY ImageFacts
<1>4. AddUp(f, S, sums)
  BY <1>1, SumsAre
<1>5. AddUp(g, Q, others)
  BY <1>2, <1>3, SumsAre
<1> DEFINE T == {j \in Nat : \A R \in SUBSET S : Cardinality(R) = j => others[Image(m, R)] = sums[R]}
<1>6. 0 \in T
  <2> SUFFICES ASSUME NEW R \in SUBSET S, Cardinality(R) = 0 PROVE others[Image(m, R)] = sums[R]
    OBVIOUS
  <2>1. R = {} /\ Image(m, R) = {}
    BY PartsAreFinite DEF Image
  <2> QED
    BY <1>4, <1>5, <2>1 DEF AddUp
<1>7. ASSUME NEW j \in Nat, j \in T
      PROVE  j + 1 \in T
  <2> SUFFICES ASSUME NEW R \in SUBSET S, Cardinality(R) = j + 1 PROVE others[Image(m, R)] = sums[R]
    OBVIOUS
  <2>1. PICK x \in R : TRUE
    BY PartsAreFinite
  <2>2. R \ {x} \in SUBSET S /\ Cardinality(R \ {x}) = j
    BY PartsAreFinite
  <2>3. others[Image(m, R \ {x})] = sums[R \ {x}]
    BY <1>7, <2>2
  <2>4. Image(m, R) \in SUBSET Q /\ m[x] \in Image(m, R) /\ Image(m, R \ {x}) = Image(m, R) \ {m[x]}
    <3>1. Image(m, R) \in SUBSET Q /\ m[x] \in Image(m, R)
      BY DEF Image
    <3>2. Image(m, R \ {x}) = Image(m, R) \ {m[x]}
      BY DEF Image
    <3> QED
      BY <3>1, <3>2
  <2>5. others[Image(m, R)] = g[m[x]] + others[Image(m, R) \ {m[x]}]
    BY <1>5, <2>4 DEF AddUp
  <2>6. sums[R] = f[x] + sums[R \ {x}]
    BY <1>4 DEF AddUp
  <2> QED
    BY <2>3, <2>4, <2>5, <2>6
<1> HIDE DEF T
<1>8. Nat \subseteq T
  BY <1>6, <1>7, NatByStep
<1>9. others[Image(m, S)] = sums[S]
  BY <1>8, PartsAreFinite DEF T
<1> QED
  BY <1>1, <1>2, <1>4, <1>9 DEF AddUp

(* There is one sum, and it is the same whether a part is added up by itself *)
(* or in a larger set.                                                       *)
LEMMA SumIsOne ==
  ASSUME NEW S, IsFiniteSet(S), NEW f \in [S -> Int], NEW n, IsSum(f, S, n), NEW k, IsSum(f, S, k)
  PROVE  n = k /\ n \in Int
<1> DEFINE m == [x \in S |-> x]
<1>1. m \in [S -> S] /\ (\A x, y \in S : m[x] = m[y] => x = y) /\ (\A x \in S : f[m[x]] = f[x]) /\ Image(m, S) = S
  BY DEF Image
<1> HIDE DEF m
<1> QED
  BY <1>1, SumMoved

LEMMA SumIs ==
  ASSUME NEW S, IsFiniteSet(S), NEW f \in [S -> Int]
  PROVE  \E n \in Int : IsSum(f, S, n)
<1>1. PICK sums : AreSums(f, S, sums)
  BY SumsExist
<1>2. IsSum(f, S, sums[S])
  BY <1>1 DEF IsSum
<1> QED
  BY <1>2, SumIsOne

LEMMA SumWithin ==
  ASSUME NEW S, IsFiniteSet(S), NEW f \in [S -> Int], NEW sums, AreSums(f, S, sums),
         NEW R \in SUBSET S
  PROVE  /\ IsSum([x \in R |-> f[x]], R, sums[R])
         /\ \A n : IsSum([x \in R |-> f[x]], R, n) => n = sums[R]
<1> DEFINE g == [x \in R |-> f[x]]
           others == [Q \in SUBSET R |-> sums[Q]]
<1>1. AreSums(g, R, others)
  <2>1. ASSUME NEW Q \in SUBSET R
        PROVE  others[Q] = IF Q = {} THEN 0 ELSE g[OneOf(Q)] + others[Q \ {OneOf(Q)}]
    <3>1. Q \in SUBSET S /\ others[Q] = sums[Q] /\ others[Q \ {OneOf(Q)}] = sums[Q \ {OneOf(Q)}]
      OBVIOUS
    <3>2. Q # {} => OneOf(Q) \in Q
      BY DEF OneOf
    <3>3. Q # {} => g[OneOf(Q)] = f[OneOf(Q)]
      BY <3>2
    <3>4. sums[Q] = IF Q = {} THEN 0 ELSE f[OneOf(Q)] + sums[Q \ {OneOf(Q)}]
      <4> DEFINE h == SumStep(f, S, sums)
      <4>1. sums = h /\ h[Q] = IF Q = {} THEN 0 ELSE f[OneOf(Q)] + sums[Q \ {OneOf(Q)}]
        BY <3>1 DEF AreSums, SumStep
      <4> HIDE DEF h
      <4> QED
        BY <4>1
    <3> HIDE DEF g, others
    <3> QED
      BY <3>1, <3>3, <3>4
  <2>2. others = [Q \in SUBSET R |-> others[Q]]
    OBVIOUS
  <2> HIDE DEF g, others
  <2> QED
    BY <2>1, <2>2 DEF AreSums, SumStep
<1>2. others[R] = sums[R] /\ g \in [R -> Int]
  OBVIOUS
<1>3. IsFiniteSet(R)
  BY FS_Subset
<1> HIDE DEF g, others
<1>4. IsSum(g, R, sums[R])
  BY <1>1, <1>2 DEF IsSum
<1>5. \A n : IsSum(g, R, n) => n = sums[R]
  BY <1>2, <1>3, <1>4, SumIsOne
<1> QED
  BY <1>4, <1>5 DEF g

LEMMA SumOfTwo ==
  ASSUME NEW S, IsFiniteSet(S), NEW f \in [S -> Int], NEW sums, AreSums(f, S, sums)
  PROVE  \A A, B \in SUBSET S : A \cap B = {} =>
           sums[A \cup B] = sums[A] + sums[B] /\ sums[A] \in Int /\ sums[B] \in Int
<1> SUFFICES ASSUME NEW A \in SUBSET S, NEW B \in SUBSET S, A \cap B = {}
             PROVE  sums[A \cup B] = sums[A] + sums[B] /\ sums[A] \in Int /\ sums[B] \in Int
  OBVIOUS
<1>1. AddUp(f, S, sums)
  BY SumsAre
<1> DEFINE T == {j \in Nat : \A R \in SUBSET A : Cardinality(R) = j => sums[R \cup B] = sums[R] + sums[B]}
<1>2. sums[A] \in Int /\ sums[B] \in Int
  BY <1>1 DEF AddUp
<1>3. 0 \in T
  <2> SUFFICES ASSUME NEW R \in SUBSET A, Cardinality(R) = 0 PROVE sums[R \cup B] = sums[R] + sums[B]
    OBVIOUS
  <2>1. R = {} /\ R \cup B = B
    BY PartsAreFinite
  <2> QED
    BY <1>1, <1>2, <2>1 DEF AddUp
<1>4. ASSUME NEW j \in Nat, j \in T
      PROVE  j + 1 \in T
  <2> SUFFICES ASSUME NEW R \in SUBSET A, Cardinality(R) = j + 1 PROVE sums[R \cup B] = sums[R] + sums[B]
    BY <1>4
  <2>1. PICK x \in R : TRUE
    BY PartsAreFinite
  <2>2. R \ {x} \in SUBSET A /\ Cardinality(R \ {x}) = j
    BY PartsAreFinite
  <2>3. sums[(R \ {x}) \cup B] = sums[R \ {x}] + sums[B]
    BY <1>4, <2>2
  <2>4. (R \cup B) \ {x} = (R \ {x}) \cup B
    BY <2>1
  <2>5. sums[R \cup B] = f[x] + sums[(R \cup B) \ {x}]
    BY <1>1 DEF AddUp
  <2>6. sums[R] = f[x] + sums[R \ {x}]
    BY <1>1 DEF AddUp
  <2>7. f[x] \in Int /\ sums[R \ {x}] \in Int
    BY <1>1 DEF AddUp
  <2>8. sums[R \cup B] = f[x] + sums[(R \ {x}) \cup B]
    BY <2>4, <2>5
  <2> QED
    BY <1>2, <2>3, <2>6, <2>7, <2>8
<1> HIDE DEF T
<1>5. Nat \subseteq T
  BY <1>3, <1>4, NatByStep
<1>6. sums[A \cup B] = sums[A] + sums[B]
  BY <1>5, PartsAreFinite DEF T
<1> QED
  BY <1>2, <1>6

(* The members of S that c puts into one of the classes J. *)
Classed(S, c, J) == {x \in S : c[x] \in J}

(* g tells what f adds up to in each of the parts.                           *)
PartSums(S, f, I, c, g) ==
  \A i \in I : IsSum([x \in Classed(S, c, {i}) |-> f[x]], Classed(S, c, {i}), g[i])

(* The sums of the parts add up to the sum of the whole.                     *)
LEMMA SumOfParts ==
  ASSUME NEW S, IsFiniteSet(S), NEW f \in [S -> Int], NEW n, IsSum(f, S, n),
         NEW I, IsFiniteSet(I), NEW c \in [S -> I], NEW g \in [I -> Int], PartSums(S, f, I, c, g),
         NEW k, IsSum(g, I, k)
  PROVE  n = k /\ n \in Int
<1>1. PICK sums : AreSums(f, S, sums) /\ n = sums[S]
  BY DEF IsSum
<1>2. PICK others : AreSums(g, I, others) /\ k = others[I]
  BY DEF IsSum
<1>3. AddUp(f, S, sums)
  BY <1>1, SumsAre
<1>4. ASSUME NEW i \in I
      PROVE  g[i] = sums[Classed(S, c, {i})]
  <2> DEFINE R == Classed(S, c, {i})
  <2>1. R \in SUBSET S
    BY DEF Classed
  <2>2. IsSum([x \in R |-> f[x]], R, g[i])
    BY DEF PartSums
  <2> HIDE DEF R
  <2>3. g[i] = sums[R]
    BY <1>1, <2>1, <2>2, SumWithin
  <2> QED
    BY <2>3 DEF R
<1>5. \A Q, R \in SUBSET S : Q \cap R = {} => sums[Q \cup R] = sums[Q] + sums[R]
  <2>1. \A Q, R \in SUBSET S : Q \cap R = {} =>
          sums[Q \cup R] = sums[Q] + sums[R] /\ sums[Q] \in Int /\ sums[R] \in Int
    BY <1>1, SumOfTwo
  <2> QED
    BY <2>1
<1>6. AddUp(g, I, others)
  BY <1>2, SumsAre
<1> DEFINE T == {j \in Nat : \A J \in SUBSET I : Cardinality(J) = j => others[J] = sums[Classed(S, c, J)]}
<1>7. 0 \in T
  <2> SUFFICES ASSUME NEW J \in SUBSET I, Cardinality(J) = 0 PROVE others[J] = sums[Classed(S, c, J)]
    OBVIOUS
  <2>1. J = {} /\ Classed(S, c, J) = {}
    BY PartsAreFinite DEF Classed
  <2> QED
    BY <1>3, <1>6, <2>1 DEF AddUp
<1>8. ASSUME NEW j \in Nat, j \in T
      PROVE  j + 1 \in T
  <2> SUFFICES ASSUME NEW J \in SUBSET I, Cardinality(J) = j + 1 PROVE others[J] = sums[Classed(S, c, J)]
    OBVIOUS
  <2>1. PICK i \in J : TRUE
    BY PartsAreFinite
  <2>2. J \ {i} \in SUBSET I /\ Cardinality(J \ {i}) = j
    BY PartsAreFinite
  <2>3. others[J \ {i}] = sums[Classed(S, c, J \ {i})]
    BY <1>8, <2>2
  <2>4. others[J] = g[i] + others[J \ {i}]
    BY <1>6 DEF AddUp
  <2>5. g[i] = sums[Classed(S, c, {i})]
    BY <1>4
  <2>6. /\ Classed(S, c, J) = Classed(S, c, {i}) \cup Classed(S, c, J \ {i})
        /\ Classed(S, c, {i}) \cap Classed(S, c, J \ {i}) = {}
        /\ Classed(S, c, {i}) \in SUBSET S /\ Classed(S, c, J \ {i}) \in SUBSET S
    BY DEF Classed
  <2>7. sums[Classed(S, c, J)] = sums[Classed(S, c, {i})] + sums[Classed(S, c, J \ {i})]
    BY <1>5, <2>6
  <2> QED
    BY <2>3, <2>4, <2>5, <2>7
<1> HIDE DEF T
<1>9. Nat \subseteq T
  BY <1>7, <1>8, NatByStep
<1>10. others[I] = sums[Classed(S, c, I)]
  BY <1>9, PartsAreFinite DEF T
<1>11. Classed(S, c, I) = S
  BY DEF Classed
<1> QED
  BY <1>1, <1>2, <1>3, <1>10, <1>11 DEF AddUp

(* Counting is adding up ones.                                               *)
LEMMA CountIsSum ==
  ASSUME NEW S, IsFiniteSet(S), NEW n, IsSum([x \in S |-> 1], S, n)
  PROVE  n = Cardinality(S)
<1> DEFINE f == [x \in S |-> 1]
<1>1. PICK sums : AreSums(f, S, sums) /\ n = sums[S]
  BY DEF IsSum
<1>2. f \in [S -> Int] /\ \A x \in S : f[x] = 1
  OBVIOUS
<1> HIDE DEF f
<1>3. AddUp(f, S, sums)
  BY <1>1, <1>2, SumsAre
<1> DEFINE T == {j \in Nat : \A R \in SUBSET S : Cardinality(R) = j => sums[R] = j}
<1>4. 0 \in T
  <2> SUFFICES ASSUME NEW R \in SUBSET S, Cardinality(R) = 0 PROVE sums[R] = 0
    OBVIOUS
  <2>1. R = {}
    BY PartsAreFinite
  <2> QED
    BY <1>3, <2>1 DEF AddUp
<1>5. ASSUME NEW j \in Nat, j \in T
      PROVE  j + 1 \in T
  <2> SUFFICES ASSUME NEW R \in SUBSET S, Cardinality(R) = j + 1 PROVE sums[R] = j + 1
    OBVIOUS
  <2>1. PICK x \in R : TRUE
    BY PartsAreFinite
  <2>2. R \ {x} \in SUBSET S /\ Cardinality(R \ {x}) = j
    BY PartsAreFinite
  <2>3. sums[R \ {x}] = j
    BY <1>5, <2>2
  <2>4. sums[R] = f[x] + sums[R \ {x}]
    BY <1>3 DEF AddUp
  <2> QED
    BY <1>2, <2>3, <2>4
<1> HIDE DEF T
<1>6. Nat \subseteq T
  BY <1>4, <1>5, NatByStep
<1>7. Cardinality(S) \in Nat
  BY FS_CardinalityType
<1>8. Cardinality(S) \in T
  BY <1>6, <1>7
<1> QED
  BY <1>1, <1>8 DEF T

(* What is nowhere less adds up to no less.                                  *)
LEMMA SumOfLess ==
  ASSUME NEW S, IsFiniteSet(S), NEW f \in [S -> Int], NEW g \in [S -> Int], \A x \in S : f[x] <= g[x],
         NEW n, IsSum(f, S, n), NEW k, IsSum(g, S, k)
  PROVE  n <= k
<1>1. PICK sums : AreSums(f, S, sums) /\ n = sums[S]
  BY DEF IsSum
<1>2. PICK others : AreSums(g, S, others) /\ k = others[S]
  BY DEF IsSum
<1>3. AddUp(f, S, sums) /\ AddUp(g, S, others)
  BY <1>1, <1>2, SumsAre
<1> DEFINE T == {j \in Nat : \A R \in SUBSET S : Cardinality(R) = j => sums[R] <= others[R]}
<1>4. 0 \in T
  <2> SUFFICES ASSUME NEW R \in SUBSET S, Cardinality(R) = 0 PROVE sums[R] <= others[R]
    OBVIOUS
  <2>1. R = {}
    BY PartsAreFinite
  <2> QED
    BY <1>3, <2>1 DEF AddUp
<1>5. ASSUME NEW j \in Nat, j \in T
      PROVE  j + 1 \in T
  <2> SUFFICES ASSUME NEW R \in SUBSET S, Cardinality(R) = j + 1 PROVE sums[R] <= others[R]
    OBVIOUS
  <2>1. PICK x \in R : TRUE
    BY PartsAreFinite
  <2>2. R \ {x} \in SUBSET S /\ Cardinality(R \ {x}) = j
    BY PartsAreFinite
  <2>3. sums[R \ {x}] <= others[R \ {x}]
    BY <1>5, <2>2
  <2>4. sums[R] = f[x] + sums[R \ {x}] /\ others[R] = g[x] + others[R \ {x}]
    BY <1>3 DEF AddUp
  <2>5. sums[R \ {x}] \in Int /\ others[R \ {x}] \in Int /\ f[x] \in Int /\ g[x] \in Int /\ f[x] <= g[x]
    BY <1>3 DEF AddUp
  <2> QED
    BY <2>3, <2>4, <2>5
<1> HIDE DEF T
<1>6. Nat \subseteq T
  BY <1>4, <1>5, NatByStep
<1>7. sums[S] <= others[S]
  BY <1>6, PartsAreFinite DEF T
<1> QED
  BY <1>1, <1>2, <1>7
=============================================================================
