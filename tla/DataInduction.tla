---------------------------- MODULE DataInduction ----------------------------
(***************************************************************************)
(* Induction over data, for the proofs about what a fold computes.  The    *)
(* induction theorems of the library quantify over a predicate, which none *)
(* of the provers instantiates; here it is a set, the set of the numbers   *)
(* that have the property, and the step function of a fold is a function.  *)
(* With it, what the folds of tensor shapes come to, Product and Offset.   *)
(***************************************************************************)
EXTENDS TensorOps, WellFoundedInduction, TLAPS

\* A set of natural numbers has a least element, unless it is empty.
LEMMA LeastNatural ==
  ASSUME NEW T, T \subseteq Nat, T # {}
  PROVE  \E m \in T : \A n \in T : m <= n
<1>0. \A n \in T : n \in Nat
  OBVIOUS
<1> DEFINE R == OpToRel(<, Nat)
<1>1. IsWellFoundedOn(R, Nat)
  BY NatLessThanWellFounded
<1>2. \A m, n \in Nat : n < m => <<n, m>> \in R
  BY DEF OpToRel
<1> HIDE DEF R
<1>3. PICK m \in T : \A n \in T : ~(<<n, m>> \in R)
  BY <1>1, WFMin
<1>4. ASSUME NEW n \in T PROVE m <= n
  <2>1. m \in Nat /\ n \in Nat /\ ~(<<n, m>> \in R)
    BY <1>0, <1>3
  <2>2. ~(n < m)
    BY <1>2, <2>1
  <2> QED BY <2>1, <2>2
<1> QED BY <1>4

\* Induction up to n.
LEMMA IntervalInduction ==
  ASSUME NEW n \in Nat, NEW T, 0 \in T, \A i \in 0 .. n-1 : i \in T => i + 1 \in T
  PROVE  0 .. n \subseteq T
<1> DEFINE missing == (0 .. n) \ T
<1> SUFFICES ASSUME missing # {} PROVE FALSE
  OBVIOUS
<1>1. missing \subseteq Nat
  OBVIOUS
<1> HIDE DEF missing
<1>2. PICK m \in missing : \A k \in missing : m <= k
  BY <1>1, LeastNatural
<1> USE DEF missing
<1>3. m # 0 /\ m - 1 \in 0 .. n-1 /\ m - 1 \notin missing
  BY <1>2
<1> QED BY <1>3

\* The Max of the community modules is the element above all others.
LEMMA MaxIs ==
  ASSUME NEW S, S \subseteq Int, NEW m \in S, \A x \in S : x <= m
  PROVE  Max(S) = m
<1>1. \E y \in S : \A x \in S : x <= y
  OBVIOUS
<1>2. Max(S) \in S /\ \A x \in S : x <= Max(S)
  BY <1>1 DEF Max
<1>3. Max(S) \in Int /\ m \in Int /\ m <= Max(S) /\ Max(S) <= m
  BY <1>2
<1> QED BY <1>3

\* Some numbers up to n have a largest one.
LEMMA MaxExists ==
  ASSUME NEW n \in Nat, NEW S \in SUBSET (1 .. n), S # {}
  PROVE  Max(S) \in S /\ \A x \in S : x <= Max(S)
<1> DEFINE T == {n - x : x \in S}
<1>0. \A x \in S : x \in 1 .. n
  OBVIOUS
<1>1. T \subseteq Nat /\ T # {}
  <2>1. \A x \in S : n - x \in Nat
    BY <1>0
  <2> QED BY <2>1
<1> HIDE DEF T
<1>2. PICK t \in T : \A u \in T : t <= u
  BY <1>1, LeastNatural
<1> USE DEF T
<1>3. PICK m \in S : t = n - m
  BY <1>2
<1>4. \A x \in S : x <= m
  BY <1>0, <1>2, <1>3
<1>5. S \subseteq Int
  BY <1>0
<1>6. Max(S) = m
  BY <1>4, <1>5, MaxIs
<1> QED BY <1>4, <1>6

\* The largest of the first numbers, and those below it.
LEMMA IntervalTop ==
  ASSUME NEW n \in Nat, NEW k \in 0 .. n-1
  PROVE  /\ 1 .. k+1 \in SUBSET (1 .. n) /\ 1 .. k+1 # {} /\ k + 1 \in 1 .. n
         /\ Max(1 .. k+1) = k + 1
         /\ (1 .. k+1) \ {k+1} = 1 .. k
<1>1. 1 .. k+1 \subseteq Int /\ k+1 \in 1 .. k+1 /\ \A x \in 1 .. k+1 : x <= k+1
  OBVIOUS
<1>2. Max(1 .. k+1) = k + 1
  BY <1>1, MaxIs
<1>3. 1 .. k+1 \in SUBSET (1 .. n) /\ k + 1 \in 1 .. n
  OBVIOUS
<1>4. (1 .. k+1) \ {k+1} = 1 .. k
  OBVIOUS
<1> QED BY <1>1, <1>2, <1>3, <1>4

\* The equation by which a fold over 1..n is defined, from the largest element
\* down: F[i] is the step with element i.
IsFold(g, n, A, base, F) ==
  /\ g \in [SUBSET (1 .. n) -> A]
  /\ \A s \in SUBSET (1 .. n) :
       g[s] = IF s = {} THEN base ELSE F[Max(s)][g[s \ {Max(s)}]]

\* It has a solution.
LEMMA SubsetFold ==
  ASSUME NEW n \in Nat, NEW A, NEW base \in A, NEW F \in [1 .. n -> [A -> A]]
  PROVE  \E g : IsFold(g, n, A, base, F)
<1> DEFINE T == {k \in 0 .. n : \E g : IsFold(g, k, A, base, F)}
<1>1. 0 \in T
  <2> DEFINE g == [s \in SUBSET (1 .. 0) |-> base]
  <2>1. g \in [SUBSET (1 .. 0) -> A] /\ \A s \in SUBSET (1 .. 0) : s = {} /\ g[s] = base
    OBVIOUS
  <2> HIDE DEF g
  <2>2. IsFold(g, 0, A, base, F)
    BY <2>1 DEF IsFold
  <2>3. 0 \in 0 .. n
    OBVIOUS
  <2> QED BY <2>2, <2>3
<1>2. ASSUME NEW k \in 0 .. n-1, k \in T PROVE k + 1 \in T
  <2>1. PICK g : IsFold(g, k, A, base, F)
    BY <1>2
  <2> DEFINE h == [s \in SUBSET (1 .. k+1) |-> IF k + 1 \in s THEN F[k+1][g[s \ {k+1}]] ELSE g[s]]
  <2>2. \A s \in SUBSET (1 .. k+1) : s \ {k+1} \in SUBSET (1 .. k)
    OBVIOUS
  <2>3. h \in [SUBSET (1 .. k+1) -> A]
    BY <2>1, <2>2 DEF IsFold
  <2>4. \A s \in SUBSET (1 .. k) : h[s] = g[s]
    OBVIOUS
  <2>5. ASSUME NEW s \in SUBSET (1 .. k+1)
        PROVE  h[s] = IF s = {} THEN base ELSE F[Max(s)][h[s \ {Max(s)}]]
    <3>1. CASE k + 1 \in s
      <4>2. s \subseteq Int /\ \A x \in s : x <= k + 1
        OBVIOUS
      <4>1. Max(s) = k + 1
        BY <3>1, <4>2, MaxIs
      <4> QED BY <3>1, <4>1, <2>2, <2>4
    <3>2. CASE k + 1 \notin s
      <4>1. s \in SUBSET (1 .. k) /\ s \ {Max(s)} \in SUBSET (1 .. k)
        BY <3>2, <2>2
      <4> QED BY <4>1, <2>1, <2>4 DEF IsFold
    <3> QED BY <3>1, <3>2
  <2> HIDE DEF h
  <2>6. IsFold(h, k + 1, A, base, F)
    BY <2>3, <2>5 DEF IsFold
  <2>7. k + 1 \in 0 .. n
    OBVIOUS
  <2> QED BY <2>6, <2>7
<1> HIDE DEF T
<1>3. 0 .. n \subseteq T
  BY <1>1, <1>2, IntervalInduction
<1>4. n \in T
  BY <1>3
<1> QED BY <1>4 DEF T

-----------------------------------------------------------------------------
(***************************************************************************)
(* Shapes: the places of a number in a mixed radix, and what the folds of  *)
(* Product and Offset come to, dimension by dimension.                     *)
(***************************************************************************)

\* Places of a number in a mixed radix.
LEMMA ProductNat ==
  ASSUME NEW a \in Nat, NEW b \in Nat
  PROVE  a * b \in Nat
OBVIOUS

\* Multiplication is monotone.
LEMMA ProductMonotone ==
  ASSUME NEW a \in Nat, NEW b \in Nat, NEW c \in Nat, a <= b
  PROVE  a * c <= b * c
<1>1. (b - a) * c \in Nat
  BY ProductNat
<1>2. b * c = a * c + (b - a) * c
  OBVIOUS
<1> QED BY <1>1, <1>2, ProductNat

\* The place of column c of row x is one of a * b places.
LEMMA DigitBounds ==
  ASSUME NEW a \in Nat, NEW b \in Nat, NEW x \in 0 .. a-1, NEW c \in 0 .. b-1
  PROVE  x * b + c \in 0 .. a * b - 1
<1>1. (x + 1) * b <= a * b
  BY ProductMonotone
<1>2. (x + 1) * b = x * b + b
  OBVIOUS
<1> QED BY <1>1, <1>2, ProductNat

\* Every place is in one row and one column,
LEMMA DigitsUnique ==
  ASSUME NEW b \in Nat, NEW x \in Nat, NEW y \in Nat, NEW c \in 0 .. b-1, NEW d \in 0 .. b-1,
         x * b + c = y * b + d
  PROVE  x = y /\ c = d
<1>1. ASSUME NEW u \in Nat, NEW v \in Nat, u < v, NEW m \in 0 .. b-1, NEW n \in 0 .. b-1,
             u * b + m = v * b + n
      PROVE  FALSE
  <2>1. (u + 1) * b <= v * b
    BY <1>1, ProductMonotone
  <2>2. (u + 1) * b = u * b + b
    OBVIOUS
  <2>3. u * b \in Nat /\ v * b \in Nat
    BY ProductNat
  <2> QED BY <1>1, <2>1, <2>2, <2>3
<1>2. ~(x < y) /\ ~(y < x)
  BY <1>1
<1>3. x = y
  BY <1>2
<1> QED BY <1>3, ProductNat

\* which division and remainder find.
LEMMA DigitOf ==
  ASSUME NEW b \in Nat, NEW x \in Nat, NEW c \in 0 .. b-1
  PROVE  (x * b + c) \div b = x /\ (x * b + c) % b = c
<1> DEFINE n == x * b + c
<1>1. n \in Nat /\ b > 0
  BY ProductNat
<1> HIDE DEF n
<1>2. n \div b \in Nat /\ n % b \in 0 .. b-1 /\ n = b * (n \div b) + (n % b)
  BY <1>1
<1>3. n = (n \div b) * b + (n % b)
  BY <1>1, <1>2
<1>4. n \div b = x /\ n % b = c
  BY <1>2, <1>3, DigitsUnique DEF n
<1> QED BY <1>4 DEF n

-----------------------------------------------------------------------------
\* The number of elements, dimension by dimension.
LEMMA ProductSteps ==
  ASSUME NEW s \in Seq(Nat)
  PROVE  \E f : f[0] = 1 /\ f[Len(s)] = Product(s) /\ \A k \in 0 .. Len(s)-1 : f[k+1] = f[k] * s[k+1]
<1> DEFINE n == Len(s)
           F == [k \in 1 .. n |-> [p \in Nat |-> p * s[k]]]
           Eq(g) == g = [t \in SUBSET DOMAIN s |->
                           IF t = {} THEN 1 ELSE g[t \ {Max(t)}] * s[Max(t)]]
<1>1. Product(s) = (CHOOSE g : Eq(g))[DOMAIN s]
  BY DEF Product, FoldLeft, MapThenFoldSet
<1>2. n \in Nat /\ DOMAIN s = 1 .. n /\ \A k \in 1 .. n : s[k] \in Nat
  OBVIOUS
<1>3. F \in [1 .. n -> [Nat -> Nat]] /\ 1 \in Nat
  <2>1. \A k \in 1 .. n, p \in Nat : p * s[k] \in Nat
    BY <1>2, ProductNat
  <2> HIDE DEF n
  <2> QED BY <2>1
<1>4. \A k \in 1 .. n, p \in Nat : F[k][p] = p * s[k]
  OBVIOUS
<1>5. PICK h : IsFold(h, n, Nat, 1, F)
  <2> HIDE DEF F, n
  <2> QED BY <1>2, <1>3, SubsetFold
<1>6. \E g : Eq(g)
  <2> DEFINE here(t) == IF t = {} THEN 1 ELSE h[t \ {Max(t)}] * s[Max(t)]
  <2>1. ASSUME NEW t \in SUBSET (1 .. n) PROVE h[t] = here(t)
    <3>1. t \ {Max(t)} \in SUBSET (1 .. n)
      OBVIOUS
    <3>2. t # {} => Max(t) \in 1 .. n
      BY <1>2, MaxExists
    <3> HIDE DEF F, n
    <3> QED BY <1>4, <1>5, <3>1, <3>2 DEF IsFold
  <2>2. h = [t \in SUBSET (1 .. n) |-> h[t]]
    BY <1>5 DEF IsFold
  <2> HIDE DEF n, here, F
  <2>3. h = [t \in SUBSET (1 .. n) |-> here(t)]
    BY <2>1, <2>2
  <2> QED BY <1>2, <2>3 DEF here
<1>7. PICK g : Eq(g) /\ Product(s) = g[1 .. n]
  <2> HIDE DEF n
  <2>1. Eq(CHOOSE g : Eq(g))
    BY <1>6
  <2> HIDE DEF Eq
  <2> QED BY <1>1, <1>2, <2>1
<1> DEFINE f == [k \in 0 .. n |-> g[1 .. k]]
<1>8. f[0] = 1 /\ f[n] = Product(s)
  <2>1. 1 .. 0 = {} /\ 0 \in 0 .. n /\ n \in 0 .. n /\ {} \in SUBSET (1 .. n)
    BY <1>2
  <2> QED BY <1>2, <1>7, <2>1
<1>9. ASSUME NEW k \in 0 .. n-1 PROVE f[k+1] = f[k] * s[k+1]
  <2> HIDE DEF n
  <2>1. k \in 0 .. n /\ k + 1 \in 0 .. n
    BY <1>2
  <2>2. /\ 1 .. k+1 \in SUBSET (1 .. n) /\ 1 .. k+1 # {}
        /\ Max(1 .. k+1) = k + 1
        /\ (1 .. k+1) \ {k+1} = 1 .. k
    BY <1>2, IntervalTop
  <2>3. f[k+1] = g[1 .. k+1] /\ f[k] = g[1 .. k]
    BY <2>1
  <2>4. g[1 .. k+1] = g[(1 .. k+1) \ {Max(1 .. k+1)}] * s[Max(1 .. k+1)]
    BY <1>2, <1>7, <2>2
  <2> HIDE DEF f
  <2> QED BY <2>2, <2>3, <2>4
<1> HIDE DEF f
<1> QED BY <1>8, <1>9

\* An offset, dimension by dimension.
LEMMA OffsetSteps ==
  ASSUME NEW n \in Nat, NEW strides \in [1 .. n -> Nat], NEW index \in [1 .. n -> Nat]
  PROVE  \E f : /\ f[0] = 0 /\ f[n] = Offset(index, strides)
               /\ \A k \in 0 .. n-1 : f[k+1] = f[k] + index[k+1] * strides[k+1]
<1> DEFINE ks == [i \in DOMAIN strides |-> i]
           F == [k \in 1 .. n |-> [p \in Nat |-> p + index[k] * strides[k]]]
           Eq(g) == g = [t \in SUBSET DOMAIN ks |->
                           IF t = {} THEN 0
                           ELSE g[t \ {Max(t)}] + index[ks[Max(t)]] * strides[ks[Max(t)]]]
<1>1. Offset(index, strides) = (CHOOSE g : Eq(g))[DOMAIN ks]
  BY DEF Offset, FoldLeftDomain, FoldLeft, MapThenFoldSet
<1>2. /\ DOMAIN ks = 1 .. n /\ \A t \in SUBSET (1 .. n) : t # {} => ks[Max(t)] = Max(t)
      /\ \A k \in 1 .. n : index[k] * strides[k] \in Nat
  BY MaxExists, ProductNat
<1>3. F \in [1 .. n -> [Nat -> Nat]] /\ 0 \in Nat
  <2>1. \A k \in 1 .. n, p \in Nat : p + index[k] * strides[k] \in Nat
    BY <1>2
  <2> QED BY <2>1
<1>4. \A k \in 1 .. n, p \in Nat : F[k][p] = p + index[k] * strides[k]
  OBVIOUS
<1> HIDE DEF ks
<1>5. PICK h : IsFold(h, n, Nat, 0, F)
  <2> HIDE DEF F
  <2> QED BY <1>3, SubsetFold
<1>6. \E g : Eq(g)
  <2> DEFINE here(t) == IF t = {} THEN 0 ELSE h[t \ {Max(t)}] + index[ks[Max(t)]] * strides[ks[Max(t)]]
  <2>1. ASSUME NEW t \in SUBSET (1 .. n) PROVE h[t] = here(t)
    <3>1. t \ {Max(t)} \in SUBSET (1 .. n)
      OBVIOUS
    <3>2. t # {} => Max(t) \in 1 .. n /\ ks[Max(t)] = Max(t)
      BY <1>2, MaxExists
    <3> HIDE DEF F
    <3> QED BY <1>4, <1>5, <3>1, <3>2 DEF IsFold
  <2>2. h = [t \in SUBSET (1 .. n) |-> h[t]]
    BY <1>5 DEF IsFold
  <2> HIDE DEF here, F
  <2>3. h = [t \in SUBSET (1 .. n) |-> here(t)]
    BY <2>1, <2>2
  <2> QED BY <1>2, <2>3 DEF here
<1>7. PICK g : Eq(g) /\ Offset(index, strides) = g[1 .. n]
  <2>1. Eq(CHOOSE g : Eq(g))
    BY <1>6
  <2> HIDE DEF Eq
  <2> QED BY <1>1, <1>2, <2>1
<1> DEFINE f == [k \in 0 .. n |-> g[1 .. k]]
<1>8. f[0] = 0 /\ f[n] = Offset(index, strides)
  <2>1. 1 .. 0 = {} /\ 0 \in 0 .. n /\ n \in 0 .. n /\ {} \in SUBSET (1 .. n)
    OBVIOUS
  <2> QED BY <1>2, <1>7, <2>1
<1>9. ASSUME NEW k \in 0 .. n-1 PROVE f[k+1] = f[k] + index[k+1] * strides[k+1]
  <2>1. k \in 0 .. n /\ k + 1 \in 0 .. n
    OBVIOUS
  <2>2. /\ 1 .. k+1 \in SUBSET (1 .. n) /\ 1 .. k+1 # {}
        /\ Max(1 .. k+1) = k + 1
        /\ (1 .. k+1) \ {k+1} = 1 .. k
    BY IntervalTop
  <2>3. f[k+1] = g[1 .. k+1] /\ f[k] = g[1 .. k]
    BY <2>1
  <2>4. ks[Max(1 .. k+1)] = k + 1
    BY <1>2, <2>2
  <2>5. g[1 .. k+1] = g[(1 .. k+1) \ {Max(1 .. k+1)}]
                       + index[ks[Max(1 .. k+1)]] * strides[ks[Max(1 .. k+1)]]
    BY <1>2, <1>7, <2>2
  <2> HIDE DEF f
  <2> QED BY <2>2, <2>3, <2>4, <2>5
<1> HIDE DEF f
<1> QED BY <1>8, <1>9

\* Products of up to four dimensions.
LEMMA ProductNone == Product(<<>>) = 1
<1>1. <<>> \in Seq(Nat) /\ Len(<<>>) = 0
  OBVIOUS
<1> QED BY <1>1, ProductSteps

LEMMA ProductOne ==
  ASSUME NEW a \in Nat
  PROVE  Product(<<a>>) = a
<1> DEFINE s == <<a>>
<1>1. s \in Seq(Nat) /\ Len(s) = 1 /\ s[1] = a
  OBVIOUS
<1> HIDE DEF s
<1>2. PICK f : f[0] = 1 /\ f[Len(s)] = Product(s) /\ \A k \in 0 .. Len(s)-1 : f[k+1] = f[k] * s[k+1]
  BY <1>1, ProductSteps
<1>3. f[0+1] = f[0] * s[0+1]
  BY <1>1, <1>2
<1>4. Product(s) = a
  BY <1>1, <1>2, <1>3
<1> QED BY <1>4 DEF s

LEMMA ProductTwo ==
  ASSUME NEW a \in Nat, NEW b \in Nat
  PROVE  Product(<<a, b>>) = a * b
<1> DEFINE s == <<a, b>>
<1>1. s \in Seq(Nat) /\ Len(s) = 2 /\ s[1] = a /\ s[2] = b
  OBVIOUS
<1> HIDE DEF s
<1>2. PICK f : f[0] = 1 /\ f[Len(s)] = Product(s) /\ \A k \in 0 .. Len(s)-1 : f[k+1] = f[k] * s[k+1]
  BY <1>1, ProductSteps
<1>3. f[0+1] = f[0] * s[0+1] /\ f[1+1] = f[1] * s[1+1]
  BY <1>1, <1>2
<1>4. Product(s) = a * b
  BY <1>1, <1>2, <1>3
<1> QED BY <1>4 DEF s

LEMMA ProductThree ==
  ASSUME NEW a \in Nat, NEW b \in Nat, NEW c \in Nat
  PROVE  Product(<<a, b, c>>) = a * b * c
<1> DEFINE s == <<a, b, c>>
<1>1. s \in Seq(Nat) /\ Len(s) = 3 /\ s[1] = a /\ s[2] = b /\ s[3] = c
  OBVIOUS
<1> HIDE DEF s
<1>2. PICK f : f[0] = 1 /\ f[Len(s)] = Product(s) /\ \A k \in 0 .. Len(s)-1 : f[k+1] = f[k] * s[k+1]
  BY <1>1, ProductSteps
<1>3. f[0+1] = f[0] * s[0+1] /\ f[1+1] = f[1] * s[1+1] /\ f[2+1] = f[2] * s[2+1]
  BY <1>1, <1>2
<1>4. Product(s) = a * b * c
  BY <1>1, <1>2, <1>3
<1> QED BY <1>4 DEF s

LEMMA ProductFour ==
  ASSUME NEW a \in Nat, NEW b \in Nat, NEW c \in Nat, NEW d \in Nat
  PROVE  Product(<<a, b, c, d>>) = a * b * c * d
<1> DEFINE s == <<a, b, c, d>>
<1>1. s \in Seq(Nat) /\ Len(s) = 4 /\ s[1] = a /\ s[2] = b /\ s[3] = c /\ s[4] = d
  OBVIOUS
<1> HIDE DEF s
<1>2. PICK f : f[0] = 1 /\ f[Len(s)] = Product(s) /\ \A k \in 0 .. Len(s)-1 : f[k+1] = f[k] * s[k+1]
  BY <1>1, ProductSteps
<1>3. f[0+1] = f[0] * s[0+1] /\ f[1+1] = f[1] * s[1+1] /\ f[2+1] = f[2] * s[2+1] /\ f[3+1] = f[3] * s[3+1]
  BY <1>1, <1>2
<1>4. Product(s) = a * b * c * d
  BY <1>1, <1>2, <1>3
<1> QED BY <1>4 DEF s
=============================================================================
