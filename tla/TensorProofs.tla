------------------------------ MODULE TensorProofs ------------------------------
(* Shapes and elements of any size: what products and sums of lists are, that    *)
(* coordinates and elements in row-major order stand for each other, and that    *)
(* the operators that move elements on the host read inside their operands.      *)
EXTENDS MovementKernels, TLAPS, WellFoundedInduction, SequenceTheorems, FiniteSetTheorems

----------------------------------------------------------------------------
(* Induction over naturals, and the largest position in a list.            *)

\* A set of naturals with a member has a least one: what loops leave is proved with the
\* first round that would leave something else.
LEMMA LeastNatural ==
  ASSUME NEW T \in SUBSET Nat, NEW n \in T
  PROVE  \E m \in T : \A k \in T : m <= k
<1> DEFINE R == {p \in Nat \X Nat : p[1] < p[2]}
<1>1. IsWellFoundedOn(R, Nat)
  BY NatLessThanWellFounded DEF OpToRel
<1> HIDE DEF R
<1>2. PICK m \in T : \A k \in T : ~(<<k, m>> \in R)
  BY <1>1, WFMin
<1>3. \A k \in T : ~(k < m)
  BY <1>2 DEF R
<1> QED BY <1>3

\* What is left of a list of n entries has a largest position.
LEMMA LargestIs ==
  ASSUME NEW m, NEW S, m \in S, \A k \in S : m >= k, \A k \in S : k \in Int
  PROVE  Max(S) = m
<1>1. Max(S) \in S /\ \A k \in S : Max(S) >= k
  BY Zenon DEF Max
<1> QED BY <1>1

----------------------------------------------------------------------------
(* Folds over lists: products and sums.                                    *)

Took(kind, a, b) ==
  CASE kind = "times"  -> a * b
    [] kind = "horner" -> a * b[1] + b[2]
    [] OTHER -> a + b

\* f is what a fold of the entries of s at the positions in a set makes of base.
FoldsBy(f, kind, base, s, n) ==
  f = [S \in SUBSET (1 .. n) |-> IF S = {} THEN base ELSE Took(kind, f[S \ {Max(S)}], s[Max(S)])]

\* p[k] is what a fold makes of the first k entries of s.
Partials(p, kind, base, s, n) ==
  p = [k \in 0 .. n |-> IF k = 0 THEN base ELSE Took(kind, p[k - 1], s[k])]

LEMMA FoldExists ==
  ASSUME NEW kind, NEW base, NEW s, NEW n \in Nat
  PROVE  \E f : FoldsBy(f, kind, base, s, n)
<1> DEFINE T == {m \in Nat : ~ \E f : FoldsBy(f, kind, base, s, m)}
<1>1. SUFFICES ASSUME n \in T
               PROVE  FALSE
  OBVIOUS
<1>2. PICK m \in T : \A k \in T : m <= k
  BY <1>1, LeastNatural
<1>3. m \in Nat /\ ~ \E f : FoldsBy(f, kind, base, s, m)
  BY <1>2
<1>4. CASE m = 0
  <2>1. FoldsBy([S \in SUBSET (1 .. 0) |-> base], kind, base, s, 0)
    <3>1. \A S \in SUBSET (1 .. 0) : S = {}
      OBVIOUS
    <3> QED BY <3>1 DEF FoldsBy
  <2> QED BY <1>3, <1>4, <2>1
<1>5. CASE m # 0
  <2>1. m - 1 \in Nat /\ m - 1 \notin T
    <3> HIDE DEF T
    <3> QED BY <1>2, <1>3, <1>5
  <2>2. PICK f : FoldsBy(f, kind, base, s, m - 1)
    BY <2>1, Zenon
  <2> DEFINE h == [S \in SUBSET (1 .. m) |-> IF m \in S THEN Took(kind, f[S \ {m}], s[m]) ELSE f[S]]
  <2>3. ASSUME NEW S \in SUBSET (1 .. m)
        PROVE  h[S] = IF S = {} THEN base ELSE Took(kind, h[S \ {Max(S)}], s[Max(S)])
    <3>1. CASE m \in S
      <4>0. \A k \in S : m >= k /\ k \in Int
        BY <1>3
      <4>1. Max(S) = m
        BY <3>1, <4>0, LargestIs
      <4>2. S \ {m} \in SUBSET (1 .. m) /\ m \notin S \ {m}
        OBVIOUS
      <4>3. h[S \ {m}] = f[S \ {m}] /\ h[S] = Took(kind, f[S \ {m}], s[m])
        BY <3>1, <4>2
      <4> HIDE DEF h
      <4> QED BY <3>1, <4>1, <4>3
    <3>2. CASE m \notin S
      <4>1. S \in SUBSET (1 .. m - 1)
        BY <1>3, <3>2
      <4>2. f[S] = IF S = {} THEN base ELSE Took(kind, f[S \ {Max(S)}], s[Max(S)])
        BY <2>2, <4>1, Zenon DEF FoldsBy
      <4>3. S \ {Max(S)} \in SUBSET (1 .. m) /\ m \notin S \ {Max(S)}
        BY <3>2
      <4>4. h[S] = f[S] /\ h[S \ {Max(S)}] = f[S \ {Max(S)}]
        BY <3>2, <4>3, Zenon
      <4> HIDE DEF h
      <4> QED BY <4>2, <4>4
    <3> QED BY <3>1, <3>2
  <2>4. FoldsBy(h, kind, base, s, m)
    <3>1. h = [S \in SUBSET (1 .. m) |-> h[S]]
      OBVIOUS
    <3> HIDE DEF h
    <3>2. [S \in SUBSET (1 .. m) |-> h[S]] =
          [S \in SUBSET (1 .. m) |->
             IF S = {} THEN base ELSE Took(kind, h[S \ {Max(S)}], s[Max(S)])]
      BY <2>3, Zenon
    <3> QED BY <3>1, <3>2 DEF FoldsBy
  <2> QED BY <1>3, <2>4
<1> QED BY <1>4, <1>5

\* A fold over all positions takes the entries one after the other.
LEMMA FoldIsPartials ==
  ASSUME NEW f, NEW kind, NEW base, NEW s, NEW n \in Nat, FoldsBy(f, kind, base, s, n)
  PROVE  Partials([k \in 0 .. n |-> f[1 .. k]], kind, base, s, n)
<1> DEFINE p == [k \in 0 .. n |-> f[1 .. k]]
<1>1. ASSUME NEW k \in 0 .. n
      PROVE  f[1 .. k] = IF k = 0 THEN base ELSE Took(kind, f[1 .. k - 1], s[k])
  <2>1. 1 .. k \in SUBSET (1 .. n)
    OBVIOUS
  <2>2. f[1 .. k] = IF 1 .. k = {} THEN base
                    ELSE Took(kind, f[(1 .. k) \ {Max(1 .. k)}], s[Max(1 .. k)])
    BY <2>1, Zenon DEF FoldsBy
  <2>3. CASE k = 0
    <3>1. 1 .. k = {}
      BY <2>3
    <3> QED BY <2>2, <2>3, <3>1
  <2>4. CASE k # 0
    <3>1. k \in 1 .. k /\ \A j \in 1 .. k : k >= j /\ j \in Int
      BY <2>4
    <3>2. Max(1 .. k) = k
      BY <3>1, LargestIs
    <3>3. (1 .. k) \ {k} = 1 .. k - 1
      OBVIOUS
    <3>4. 1 .. k # {}
      BY <3>1
    <3> QED BY <2>2, <2>4, <3>2, <3>3, <3>4
  <2> QED BY <2>3, <2>4
<1>2. ASSUME NEW k \in 0 .. n
      PROVE  p[k] = IF k = 0 THEN base ELSE Took(kind, p[k - 1], s[k])
  <2>1. p[k] = f[1 .. k]
    OBVIOUS
  <2>2. k # 0 => p[k - 1] = f[1 .. k - 1]
    OBVIOUS
  <2> HIDE DEF p
  <2> QED BY <1>1, <2>1, <2>2
<1> QED BY <1>2 DEF Partials

\* Product and Total by their first entries (the loops of shape.rs over dimensions).
LEMMA ProductIs ==
  ASSUME NEW s, NEW n \in Nat, DOMAIN s = 1 .. n
  PROVE  \E p : Partials(p, "times", 1, s, n) /\ Product(s) = p[n]
<1> DEFINE iter[S \in SUBSET (1 .. n)] == IF S = {} THEN 1 ELSE iter[S \ {Max(S)}] * s[Max(S)]
<1>1. Product(s) = iter[1 .. n]
  BY DEF Product, FoldLeft, MapThenFoldSet
<1>2. iter = [S \in SUBSET (1 .. n) |-> IF S = {} THEN 1 ELSE iter[S \ {Max(S)}] * s[Max(S)]]
  <2>1. PICK f : FoldsBy(f, "times", 1, s, n)
    BY FoldExists
  <2>2. f = [S \in SUBSET (1 .. n) |-> IF S = {} THEN 1 ELSE f[S \ {Max(S)}] * s[Max(S)]]
    BY <2>1 DEF FoldsBy, Took
  <2> QED BY <2>2
<1> HIDE DEF iter
<1>3. FoldsBy(iter, "times", 1, s, n)
  BY <1>2 DEF FoldsBy, Took
<1>4. Partials([k \in 0 .. n |-> iter[1 .. k]], "times", 1, s, n)
  BY <1>3, FoldIsPartials
<1> QED BY <1>1, <1>4

LEMMA TotalIs ==
  ASSUME NEW s, NEW n \in Nat, DOMAIN s = 1 .. n
  PROVE  \E p : Partials(p, "plus", 0, s, n) /\ Total(s) = p[n]
<1> DEFINE iter[S \in SUBSET (1 .. n)] == IF S = {} THEN 0 ELSE iter[S \ {Max(S)}] + s[Max(S)]
<1>1. Total(s) = iter[1 .. n]
  BY DEF Total, FoldLeft, MapThenFoldSet
<1>2. iter = [S \in SUBSET (1 .. n) |-> IF S = {} THEN 0 ELSE iter[S \ {Max(S)}] + s[Max(S)]]
  <2>1. PICK f : FoldsBy(f, "plus", 0, s, n)
    BY FoldExists
  <2>2. f = [S \in SUBSET (1 .. n) |-> IF S = {} THEN 0 ELSE f[S \ {Max(S)}] + s[Max(S)]]
    BY <2>1 DEF FoldsBy, Took
  <2> QED BY <2>2
<1> HIDE DEF iter
<1>3. FoldsBy(iter, "plus", 0, s, n)
  BY <1>2 DEF FoldsBy, Took
<1>4. Partials([k \in 0 .. n |-> iter[1 .. k]], "plus", 0, s, n)
  BY <1>3, FoldIsPartials
<1> QED BY <1>1, <1>4

----------------------------------------------------------------------------
(* Products of lists.                                                      *)

\* A function that is a list of naturals.
Lists(f, n) == f = [d \in 1 .. n |-> f[d]] /\ \A d \in 1 .. n : f[d] \in Nat

LEMMA ListIs ==
  ASSUME NEW f, NEW n \in Nat, Lists(f, n)
  PROVE  f \in Seq(Nat) /\ Len(f) = n
BY DEF Lists

LEMMA NatIsInt ==
  ASSUME NEW n \in Nat
  PROVE  n \in Int
OBVIOUS

LEMMA TimesSwap ==
  ASSUME NEW a \in Int, NEW b \in Int
  PROVE  a * b = b * a
OBVIOUS

LEMMA Assoc ==
  ASSUME NEW a \in Int, NEW b \in Int, NEW c \in Int
  PROVE  (a * b) * c = a * (b * c)
OBVIOUS

LEMMA MulNat ==
  ASSUME NEW a \in Nat, NEW b \in Nat
  PROVE  a * b \in Nat /\ (a * b >= 1 <=> a >= 1 /\ b >= 1)
OBVIOUS

LEMMA MulInt ==
  ASSUME NEW a \in Int, NEW b \in Int
  PROVE  a * b \in Int
OBVIOUS

\* The partial products of sizes are numbers.
LEMMA PartialsAre ==
  ASSUME NEW p, NEW s, NEW n \in Nat, Partials(p, "times", 1, s, n)
  PROVE  /\ (\A d \in 1 .. n : s[d] \in Int) => \A k \in 0 .. n : p[k] \in Int
         /\ (\A d \in 1 .. n : s[d] \in Nat) =>
              \A k \in 0 .. n : p[k] \in Nat /\ (p[k] >= 1 <=> \A d \in 1 .. k : s[d] >= 1)
<1>1. \A k \in 0 .. n : p[k] = IF k = 0 THEN 1 ELSE p[k - 1] * s[k]
  BY DEF Partials, Took
<1>2. ASSUME \A d \in 1 .. n : s[d] \in Int
      PROVE  \A k \in 0 .. n : p[k] \in Int
  <2> DEFINE T == {k \in 0 .. n : p[k] \notin Int}
  <2>1. SUFFICES ASSUME NEW j \in T
                 PROVE  FALSE
    OBVIOUS
  <2>2. PICK k \in T : \A i \in T : k <= i
    <3>1. T \in SUBSET Nat
      OBVIOUS
    <3> HIDE DEF T
    <3> QED BY <2>1, <3>1, LeastNatural
  <2>3. k \in 1 .. n
    BY <1>1, <2>2
  <2>4. k - 1 \in 0 .. n /\ p[k - 1] \in Int
    BY <2>2, <2>3
  <2> QED BY <1>1, <1>2, <2>2, <2>3, <2>4, MulInt
<1>3. ASSUME \A d \in 1 .. n : s[d] \in Nat
      PROVE  \A k \in 0 .. n : p[k] \in Nat /\ (p[k] >= 1 <=> \A d \in 1 .. k : s[d] >= 1)
  <2> DEFINE Good(k) == p[k] \in Nat /\ (p[k] >= 1 <=> \A d \in 1 .. k : s[d] >= 1)
             T == {k \in 0 .. n : ~Good(k)}
  <2>1. SUFFICES ASSUME NEW j \in T
                 PROVE  FALSE
    OBVIOUS
  <2>2. PICK k \in T : \A i \in T : k <= i
    <3>1. T \in SUBSET Nat
      OBVIOUS
    <3> HIDE DEF T
    <3> QED BY <2>1, <3>1, LeastNatural
  <2>3. k \in 1 .. n
    <3>1. k \in 0 .. n
      OBVIOUS
    <3>2. p[0] = 1
      BY <1>1
    <3>3. Good(0)
      BY <3>2
    <3> QED BY <3>1, <3>3
  <2>4. k - 1 \in 0 .. n /\ Good(k - 1)
    <3> HIDE DEF Good
    <3> QED BY <2>2, <2>3
  <2>5. /\ p[k] = p[k - 1] * s[k] /\ s[k] \in Nat
        /\ (p[k - 1] >= 1 <=> \A d \in 1 .. k - 1 : s[d] >= 1)
        /\ p[k - 1] \in Nat
    BY <1>1, <1>3, <2>3, <2>4
  <2>6. p[k] \in Nat /\ (p[k] >= 1 <=> p[k - 1] >= 1 /\ s[k] >= 1)
    BY <2>5, MulNat
  <2>7. (\A d \in 1 .. k : s[d] >= 1) <=> (\A d \in 1 .. k - 1 : s[d] >= 1) /\ s[k] >= 1
    <3>1. \A d \in 1 .. k : d = k \/ d \in 1 .. k - 1
      BY <2>3
    <3>2. k \in 1 .. k /\ 1 .. k - 1 \subseteq 1 .. k
      BY <2>3
    <3> QED BY <3>1, <3>2
  <2>8. Good(k)
    BY <2>5, <2>6, <2>7
  <2> QED BY <2>2, <2>8
<1> QED BY <1>2, <1>3

\* A list of m entries is what follows the first a of a list of n.
Continues(p, s, n, a, q, t, m) ==
  /\ Partials(p, "times", 1, s, n) /\ Partials(q, "times", 1, t, m) /\ n = a + m
  /\ \A d \in 1 .. n : s[d] \in Int
  /\ \A d \in 1 .. m : t[d] = s[a + d]

\* The partial products from a position on multiply those before it.
LEMMA PartialsTail ==
  ASSUME NEW p, NEW s, NEW n \in Nat, NEW a \in Nat, NEW q, NEW t, NEW m \in Nat,
         Continues(p, s, n, a, q, t, m)
  PROVE  p[a + m] = p[a] * q[m]
<1> DEFINE T == {k \in 0 .. m : p[a + k] # p[a] * q[k]}
<1>a. Partials(p, "times", 1, s, n) /\ Partials(q, "times", 1, t, m)
  BY Zenon DEF Continues
<1>b. n = a + m /\ (\A d \in 1 .. n : s[d] \in Int) /\ \A d \in 1 .. m : t[d] = s[a + d]
  BY Zenon DEF Continues
<1>1. \A k \in 0 .. n : p[k] \in Int /\ p[k] = IF k = 0 THEN 1 ELSE p[k - 1] * s[k]
  <2>1. \A k \in 0 .. n : p[k] \in Int
    BY <1>a, <1>b, PartialsAre
  <2> QED BY <1>a, <2>1 DEF Partials, Took
<1>2. \A k \in 0 .. m : q[k] \in Int /\ q[k] = IF k = 0 THEN 1 ELSE q[k - 1] * t[k]
  <2>1. \A d \in 1 .. m : t[d] \in Int
    BY <1>b
  <2>2. \A k \in 0 .. m : q[k] \in Int
    BY <1>a, <2>1, PartialsAre
  <2> QED BY <1>a, <2>2 DEF Partials, Took
<1>c. m \in 0 .. m
  OBVIOUS
<1>3. SUFFICES ASSUME NEW j \in T
               PROVE  FALSE
  BY <1>c
<1>4. PICK k \in T : \A i \in T : k <= i
  <2>1. T \in SUBSET Nat
    OBVIOUS
  <2> HIDE DEF T
  <2> QED BY <1>3, <2>1, LeastNatural
<1>5. CASE k = 0
  BY <1>1, <1>2, <1>b, <1>4, <1>5
<1>6. CASE k # 0
  <2>1. k \in 1 .. m /\ k - 1 \in 0 .. m /\ k - 1 \notin T
    BY <1>4, <1>6
  <2>2. p[a + (k - 1)] = p[a] * q[k - 1]
    BY <2>1
  <2>3. /\ p[a + k] = p[a + (k - 1)] * s[a + k]
        /\ q[k] = q[k - 1] * s[a + k]
        /\ p[a] \in Int /\ q[k - 1] \in Int /\ s[a + k] \in Int
    <3>1. a + k \in 1 .. n /\ a + k - 1 = a + (k - 1) /\ a \in 0 .. n /\ a + k \in 0 .. n
      BY <1>b, <2>1
    <3> HIDE DEF T
    <3> QED BY <1>1, <1>2, <1>b, <2>1, <3>1
  <2>4. p[a + k] = p[a] * q[k]
    BY <2>2, <2>3, Assoc
  <2> QED BY <1>4, <2>4
<1> QED BY <1>5, <1>6

\* Folds of the same first entries agree.
LEMMA PartialsAgree ==
  ASSUME NEW kind, NEW base, NEW p, NEW s, NEW n \in Nat, Partials(p, kind, base, s, n),
         NEW q, NEW t, NEW m \in Nat, m <= n, Partials(q, kind, base, t, m),
         \A d \in 1 .. m : t[d] = s[d]
  PROVE  \A k \in 0 .. m : p[k] = q[k]
<1> DEFINE T == {k \in 0 .. m : p[k] # q[k]}
<1>1. /\ \A k \in 0 .. n : p[k] = IF k = 0 THEN base ELSE Took(kind, p[k - 1], s[k])
      /\ \A k \in 0 .. m : q[k] = IF k = 0 THEN base ELSE Took(kind, q[k - 1], t[k])
  BY DEF Partials
<1>2. SUFFICES ASSUME NEW j \in T
               PROVE  FALSE
  OBVIOUS
<1>3. PICK k \in T : \A i \in T : k <= i
  <2>1. T \in SUBSET Nat
    OBVIOUS
  <2> HIDE DEF T
  <2> QED BY <1>2, <2>1, LeastNatural
<1>4. k # 0 => k - 1 \in 0 .. m /\ k - 1 \notin T
  BY <1>3
<1> QED BY <1>1, <1>3, <1>4

\* The products of the first entries and of those after them.
LEMMA PrefixProducts ==
  ASSUME NEW s \in Seq(Nat)
  PROVE  \E p : /\ Partials(p, "times", 1, s, Len(s)) /\ Product(s) = p[Len(s)]
                /\ \A k \in 0 .. Len(s) : /\ Product(SubSeq(s, 1, k)) = p[k]
                                          /\ Product(SubSeq(s, k + 1, Len(s))) \in Nat
                                          /\ Product(s) = p[k] * Product(SubSeq(s, k + 1, Len(s)))
<1> DEFINE n == Len(s)
<1>1. n \in Nat /\ DOMAIN s = 1 .. n /\ \A d \in 1 .. n : s[d] \in Nat /\ s[d] \in Int
  OBVIOUS
<1>2. PICK p : Partials(p, "times", 1, s, n) /\ Product(s) = p[n]
  BY <1>1, ProductIs
<1>3. \A k \in 0 .. n : p[k] \in Nat /\ p[k] = IF k = 0 THEN 1 ELSE p[k - 1] * s[k]
  <2> HIDE DEF n
  <2>1. \A k \in 0 .. n : p[k] \in Nat
    BY <1>1, <1>2, PartialsAre
  <2> QED BY <1>2, <2>1 DEF Partials, Took
<1>4. ASSUME NEW k \in 0 .. n
      PROVE  Product(SubSeq(s, 1, k)) = p[k]
  <2> DEFINE t == SubSeq(s, 1, k)
  <2>1. k \in Nat /\ k <= n /\ k \in 0 .. k /\ DOMAIN t = 1 .. k /\ \A d \in 1 .. k : t[d] = s[d]
    BY <1>1
  <2> HIDE DEF t
  <2>2. PICK q : Partials(q, "times", 1, t, k) /\ Product(t) = q[k]
    BY <2>1, ProductIs
  <2> HIDE DEF n
  <2>3. p[k] = q[k]
    BY <1>1, <1>2, <2>1, <2>2, PartialsAgree
  <2> QED BY <2>2, <2>3 DEF t
<1>5. ASSUME NEW k \in 0 .. n
      PROVE  Product(SubSeq(s, k + 1, n)) \in Nat /\ Product(s) = p[k] * Product(SubSeq(s, k + 1, n))
  <2> DEFINE t == SubSeq(s, k + 1, n)
  <2>1. /\ n - k \in Nat /\ DOMAIN t = 1 .. n - k /\ \A d \in 1 .. n - k : t[d] = s[k + d]
        /\ \A d \in 1 .. n - k : t[d] \in Nat
    BY <1>1
  <2> HIDE DEF t
  <2>2. PICK q : Partials(q, "times", 1, t, n - k) /\ Product(t) = q[n - k]
    BY <2>1, ProductIs
  <2> HIDE DEF n
  <2>3. n - k \in 0 .. n - k /\ k + (n - k) = n /\ k \in Nat
    BY <1>1
  <2>4. p[k + (n - k)] = p[k] * q[n - k]
    <3>1. Partials(p, "times", 1, s, n) /\ Partials(q, "times", 1, t, n - k)
      BY <1>2, <2>2
    <3>2. /\ n \in Nat /\ \A d \in 1 .. n : s[d] \in Int
          /\ \A d \in 1 .. n - k : t[d] = s[k + d]
      BY <1>1, <2>1
    <3>3. Continues(p, s, n, k, q, t, n - k)
      BY <2>3, <3>1, <3>2 DEF Continues
    <3>4. p[k + (n - k)] = p[k] * q[n - k]
      BY <2>1, <2>3, <3>2, <3>3, PartialsTail
    <3> QED BY <3>4, Zenon
  <2>5. q[n - k] \in Nat
    BY <2>1, <2>2, <2>3, PartialsAre
  <2> QED BY <1>2, <2>2, <2>3, <2>4, <2>5 DEF t
<1> QED BY <1>2, <1>4, <1>5

\* A tensor has elements if no dimension is empty.
LEMMA ProductNat ==
  ASSUME NEW s \in Seq(Nat)
  PROVE  Product(s) \in Nat /\ (Product(s) >= 1 <=> \A d \in 1 .. Len(s) : s[d] >= 1)
<1> DEFINE n == Len(s)
<1>1. n \in Nat /\ n \in 0 .. n /\ DOMAIN s = 1 .. n /\ \A d \in 1 .. n : s[d] \in Nat
  OBVIOUS
<1> HIDE DEF n
<1>2. PICK p : Partials(p, "times", 1, s, n) /\ Product(s) = p[n]
  BY <1>1, ProductIs
<1> QED BY <1>1, <1>2, PartialsAre DEF n

LEMMA Cancel ==
  ASSUME NEW a \in Nat, NEW b \in Nat, NEW c \in Nat, a >= 1, a * b = a * c
  PROVE  b = c
OBVIOUS

LEMMA DivExact ==
  ASSUME NEW a \in Nat, NEW b \in Nat, a >= 1
  PROVE  (a * b) \div a = b
OBVIOUS

\* The steps of a shape without an empty dimension: the elements behind an axis.
LEMMA StepsAre ==
  ASSUME NEW s \in Seq(Nat), Product(s) >= 1
  PROVE  \E r : /\ r = [d \in 0 .. Len(s) |-> Product(After(s, d))]
                /\ r[0] = Product(s) /\ r[Len(s)] = 1
                /\ \A d \in 0 .. Len(s) : r[d] \in Nat /\ r[d] >= 1
                /\ \A d \in 1 .. Len(s) :
                     /\ s[d] \in Nat /\ s[d] >= 1 /\ r[d - 1] = s[d] * r[d]
                     /\ Strides(s)[d] = r[d]
                     /\ Product(s) \div Product(SubSeq(s, 1, d)) = r[d]
<1> DEFINE n == Len(s)
           r == [d \in 0 .. n |-> Product(After(s, d))]
<1>1. n \in Nat /\ DOMAIN s = 1 .. n /\ \A d \in 1 .. n : s[d] \in Nat
  OBVIOUS
<1>2. PICK p : /\ Partials(p, "times", 1, s, n) /\ Product(s) = p[n]
               /\ \A k \in 0 .. n : /\ Product(SubSeq(s, 1, k)) = p[k]
                                    /\ Product(SubSeq(s, k + 1, n)) \in Nat
                                    /\ Product(s) = p[k] * Product(SubSeq(s, k + 1, n))
  BY PrefixProducts
<1>3. Product(s) \in Nat /\ \A d \in 1 .. n : s[d] >= 1
  BY ProductNat
<1>4. \A k \in 0 .. n : /\ p[k] \in Nat /\ p[k] >= 1
                        /\ p[k] = IF k = 0 THEN 1 ELSE p[k - 1] * s[k]
  <2> HIDE DEF n
  <2>0. Partials(p, "times", 1, s, n)
    BY <1>2
  <2>1. \A k \in 0 .. n : p[k] \in Nat /\ (p[k] >= 1 <=> \A d \in 1 .. k : s[d] >= 1)
    BY <1>1, <2>0, PartialsAre
  <2>2. \A k \in 0 .. n : p[k] = IF k = 0 THEN 1 ELSE p[k - 1] * s[k]
    BY <1>2 DEF Partials, Took
  <2> QED BY <1>1, <1>3, <2>1, <2>2
<1>5. \A k \in 0 .. n : r[k] \in Nat /\ Product(s) = p[k] * r[k]
  BY <1>2 DEF After
<1> HIDE DEF r, n
<1>6. \A k \in 0 .. n : r[k] >= 1
  BY <1>4, <1>5, <1>3, MulNat
<1>7. r[0] = Product(s)
  BY <1>1, <1>4, <1>5
<1>8. r[n] = 1
  <2>1. p[n] * r[n] = p[n] * 1 /\ p[n] \in Nat /\ p[n] >= 1 /\ r[n] \in Nat
    BY <1>1, <1>2, <1>4, <1>5
  <2> QED BY <2>1, Cancel
<1>9. ASSUME NEW d \in 1 .. n
      PROVE  /\ r[d - 1] = s[d] * r[d]
             /\ Strides(s)[d] = r[d]
             /\ Product(s) \div Product(SubSeq(s, 1, d)) = r[d]
  <2>1. d \in 0 .. n /\ d - 1 \in 0 .. n /\ d # 0
    BY <1>1
  <2>2. p[d - 1] * r[d - 1] = (p[d - 1] * s[d]) * r[d]
    BY <1>4, <1>5, <2>1
  <2>3. s[d] \in Nat /\ r[d] \in Nat /\ r[d - 1] \in Nat /\ p[d - 1] \in Nat /\ p[d - 1] >= 1
    BY <1>1, <1>4, <1>5, <2>1
  <2>4. p[d - 1] * r[d - 1] = p[d - 1] * (s[d] * r[d]) /\ s[d] * r[d] \in Nat
    <3>1. p[d - 1] \in Int /\ s[d] \in Int /\ r[d] \in Int
      BY <2>3
    <3>2. (p[d - 1] * s[d]) * r[d] = p[d - 1] * (s[d] * r[d])
      BY <3>1, Assoc, Zenon
    <3>3. s[d] * r[d] \in Nat
      BY <2>3, MulNat, Zenon
    <3> QED BY <2>2, <3>2, <3>3, Zenon
  <2>5. r[d - 1] = s[d] * r[d]
    BY <2>3, <2>4, Cancel
  <2>6. Strides(s)[d] = r[d]
    BY <1>1, <2>1 DEF Strides, r
  <2>7. p[d] \in Nat /\ p[d] >= 1 /\ r[d] \in Nat
    BY <1>4, <1>5, <2>1
  <2>8. Product(s) \div Product(SubSeq(s, 1, d)) = r[d]
    <3>1. Product(s) = p[d] * r[d] /\ Product(SubSeq(s, 1, d)) = p[d]
      BY <1>2, <1>5, <2>1
    <3> QED BY <2>7, <3>1, DivExact
  <2> QED BY <2>5, <2>6, <2>8
<1> QED BY <1>1, <1>3, <1>5, <1>6, <1>7, <1>8, <1>9 DEF n, r

LEMMA StridesAre ==
  ASSUME NEW s \in Seq(Nat), Product(s) >= 1
  PROVE  \A d \in 1 .. Len(s) : Strides(s)[d] \in Nat /\ Strides(s)[d] >= 1
<1>1. PICK r : /\ r = [d \in 0 .. Len(s) |-> Product(After(s, d))]
               /\ r[0] = Product(s) /\ r[Len(s)] = 1
               /\ \A d \in 0 .. Len(s) : r[d] \in Nat /\ r[d] >= 1
               /\ \A d \in 1 .. Len(s) :
                    /\ s[d] \in Nat /\ s[d] >= 1 /\ r[d - 1] = s[d] * r[d]
                    /\ Strides(s)[d] = r[d]
                    /\ Product(s) \div Product(SubSeq(s, 1, d)) = r[d]
  BY StepsAre
<1>2. \A d \in 1 .. Len(s) : d \in 0 .. Len(s)
  OBVIOUS
<1> QED BY <1>1, <1>2

----------------------------------------------------------------------------
(* Coordinates and elements in row-major order.                            *)

\* What holds of 0 and of a number with its predecessor holds up to n.
LEMMA CountsUpTo ==
  ASSUME NEW n \in Nat, NEW T \in SUBSET Nat, 0 \in T, \A k \in 1 .. n : k - 1 \in T => k \in T
  PROVE  0 .. n \subseteq T
<1> DEFINE F == {k \in 0 .. n : k \notin T}
<1>1. SUFFICES ASSUME NEW j \in F
               PROVE  FALSE
  OBVIOUS
<1>2. PICK k \in F : \A i \in F : k <= i
  <2>1. F \in SUBSET Nat
    OBVIOUS
  <2> HIDE DEF F
  <2> QED BY <1>1, <2>1, LeastNatural
<1>3. k \in 1 .. n /\ k - 1 \notin F
  BY <1>2
<1> QED BY <1>2, <1>3

LEMMA Division ==
  ASSUME NEW m \in Nat, NEW s \in Nat, s >= 1
  PROVE  /\ m \div s \in Nat /\ m % s \in 0 .. s - 1
         /\ m = (m \div s) * s + (m % s)
OBVIOUS

LEMMA DivisionIs ==
  ASSUME NEW m \in Nat, NEW s \in Nat, s >= 1, NEW q \in Nat, q * s <= m, m < (q + 1) * s
  PROVE  m \div s = q
OBVIOUS

LEMMA AddBelow ==
  ASSUME NEW a \in Nat, NEW b \in Nat, NEW m \in Nat, NEW t \in Nat, NEW e \in Nat,
         a <= b - e, m <= t - b
  PROVE  m + a \in Nat /\ m + a <= t - e
OBVIOUS

LEMMA Scaled ==
  ASSUME NEW a \in Int, NEW b \in Int, NEW c \in Nat, a <= b
  PROVE  a * c <= b * c
OBVIOUS

LEMMA Distributes ==
  ASSUME NEW a \in Int, NEW b \in Int, NEW c \in Int
  PROVE  (a + b) * c = a * c + b * c
OBVIOUS

LEMMA PredecessorTimes ==
  ASSUME NEW a \in Int, NEW c \in Nat
  PROVE  (a - 1) * c = a * c - c
OBVIOUS

\* Dividing by one step after the other divides by both.
LEMMA DivisionTwice ==
  ASSUME NEW o \in Nat, NEW r \in Nat, NEW s \in Nat, r >= 1, s >= 1
  PROVE  o \div (s * r) = (o \div r) \div s
<1> DEFINE m == o \div r
           q == m \div s
<1>1. m \in Nat /\ o % r \in 0 .. r - 1 /\ o = m * r + (o % r)
  BY Division
<1>2. m * r <= o /\ o < m * r + r
  BY <1>1, MulNat
<1> HIDE DEF m
<1>3. q \in Nat /\ m % s \in 0 .. s - 1 /\ m = q * s + (m % s)
  BY <1>1, Division
<1> HIDE DEF q
<1>4. q * s \in Nat /\ q * s <= m /\ m + 1 <= q * s + s /\ q * s + s = (q + 1) * s
  BY <1>3, MulNat
<1>5. (q * s) * r <= m * r /\ (m + 1) * r <= ((q + 1) * s) * r
  BY <1>1, <1>3, <1>4, Scaled
<1>6. (m + 1) * r = m * r + r
  BY <1>1
<1>7. (q * s) * r = q * (s * r) /\ ((q + 1) * s) * r = (q + 1) * (s * r)
  BY <1>3, Assoc
<1>8. s * r \in Nat /\ s * r >= 1
  BY MulNat
<1>9. q * (s * r) <= o /\ o < (q + 1) * (s * r)
  <2>1. q * (s * r) \in Int /\ (q + 1) * (s * r) \in Int /\ m * r \in Int
    BY <1>1, <1>3, <1>8, MulInt
  <2> QED BY <1>2, <1>5, <1>6, <1>7, <2>1
<1>10. o \div (s * r) = q
  BY <1>3, <1>8, <1>9, DivisionIs
<1> QED BY <1>10 DEF q, m

\* t[k] adds the products of the first k entries of f and g.
Sums(t, f, g, n) == t[0] = 0 /\ \A k \in 1 .. n : t[k] = t[k - 1] + f[k] * g[k]

\* A dot product adds one product per dimension.
LEMMA DotIs ==
  ASSUME NEW f, NEW g, NEW n \in Nat, DOMAIN f = 1 .. n
  PROVE  \E t : Sums(t, f, g, n) /\ Dot(f, g) = t[n]
<1> DEFINE e == [d \in DOMAIN f |-> f[d] * g[d]]
<1>1. DOMAIN e = 1 .. n /\ \A k \in 1 .. n : e[k] = f[k] * g[k]
  OBVIOUS
<1>2. Dot(f, g) = Total(e)
  BY DEF Dot
<1> HIDE DEF e
<1>3. PICK t : Partials(t, "plus", 0, e, n) /\ Total(e) = t[n]
  BY <1>1, TotalIs
<1>4. \A k \in 0 .. n : t[k] = IF k = 0 THEN 0 ELSE t[k - 1] + e[k]
  BY <1>3 DEF Partials, Took
<1>5. Sums(t, f, g, n)
  BY <1>1, <1>4 DEF Sums
<1> QED BY <1>2, <1>3, <1>5

\* Dot products that agree in every term agree.
LEMMA DotAgree ==
  ASSUME NEW f, NEW g, NEW u, NEW v, NEW n \in Nat, DOMAIN f = 1 .. n, DOMAIN u = 1 .. n,
         \A d \in 1 .. n : f[d] * g[d] = u[d] * v[d]
  PROVE  Dot(f, g) = Dot(u, v)
<1>1. [d \in DOMAIN f |-> f[d] * g[d]] = [d \in DOMAIN u |-> u[d] * v[d]]
  OBVIOUS
<1> QED BY <1>1 DEF Dot

\* The steps of a shape, and the coordinates of an element as quotients by them.
LEMMA WalkIs ==
  ASSUME NEW s \in Seq(Nat), NEW o \in 0 .. Product(s) - 1
  PROVE  \E r : /\ r[0] = Product(s) /\ r[Len(s)] = 1
                /\ \A d \in 0 .. Len(s) : r[d] \in Nat /\ r[d] >= 1
                /\ \A d \in 1 .. Len(s) :
                     /\ s[d] \in Nat /\ s[d] >= 1 /\ r[d - 1] = s[d] * r[d]
                     /\ Strides(s)[d] = r[d]
                     /\ Walk(s, o)[d] = (o \div r[d]) % s[d]
<1>1. Product(s) >= 1
  <2>1. Product(s) \in Nat
    BY ProductNat
  <2> QED BY <2>1
<1>2. PICK r : /\ r[0] = Product(s) /\ r[Len(s)] = 1
               /\ \A d \in 0 .. Len(s) : r[d] \in Nat /\ r[d] >= 1
               /\ \A d \in 1 .. Len(s) :
                    /\ s[d] \in Nat /\ s[d] >= 1 /\ r[d - 1] = s[d] * r[d]
                    /\ Strides(s)[d] = r[d]
                    /\ Product(s) \div Product(SubSeq(s, 1, d)) = r[d]
  BY <1>1, StepsAre
<1>3. ASSUME NEW d \in 1 .. Len(s)
      PROVE  Walk(s, o)[d] = (o \div r[d]) % s[d]
  <2>1. Walk(s, o)[d] = (o \div AtLeastOne(Product(s) \div Product(SubSeq(s, 1, d)))) % AtLeastOne(s[d])
    <3>1. d \in DOMAIN s
      OBVIOUS
    <3> QED BY <3>1, Zenon DEF Walk
  <2>2. d \in 0 .. Len(s)
    OBVIOUS
  <2>3. /\ Product(s) \div Product(SubSeq(s, 1, d)) = r[d]
        /\ r[d] \in Nat /\ r[d] >= 1 /\ s[d] \in Nat /\ s[d] >= 1
    BY <1>2, <2>2
  <2>4. AtLeastOne(r[d]) = r[d] /\ AtLeastOne(s[d]) = s[d]
    BY <2>3 DEF AtLeastOne
  <2> QED BY <2>1, <2>3, <2>4
<1> QED BY <1>2, <1>3, Zenon

\* The loops over dimensions (as in expand, tile and pad of host_ops.rs) find coordinates
\* that lie in the tensor.
THEOREM WalkInside ==
  ASSUME NEW s \in Seq(Nat), NEW o \in 0 .. Product(s) - 1
  PROVE  \A d \in 1 .. Len(s) : Walk(s, o)[d] \in 0 .. s[d] - 1
<1>1. Product(s) \in Nat
  BY ProductNat
<1>2. o \in Nat
  BY <1>1
<1>3. PICK r : /\ r[0] = Product(s) /\ r[Len(s)] = 1
               /\ \A d \in 0 .. Len(s) : r[d] \in Nat /\ r[d] >= 1
               /\ \A d \in 1 .. Len(s) :
                     /\ s[d] \in Nat /\ s[d] >= 1 /\ r[d - 1] = s[d] * r[d]
                     /\ Strides(s)[d] = r[d]
                     /\ Walk(s, o)[d] = (o \div r[d]) % s[d]
  BY WalkIs, Zenon
<1> SUFFICES ASSUME NEW d \in 1 .. Len(s)
             PROVE  Walk(s, o)[d] \in 0 .. s[d] - 1
  OBVIOUS
<1>4. d \in 0 .. Len(s)
  OBVIOUS
<1>5. r[d] \in Nat /\ r[d] >= 1 /\ s[d] \in Nat /\ s[d] >= 1 /\ Walk(s, o)[d] = (o \div r[d]) % s[d]
  BY <1>3, <1>4
<1>6. o \div r[d] \in Nat
  BY <1>2, <1>5, Division
<1> QED BY <1>5, <1>6, Division

\* Those coordinates, taken by the row-major steps, are the element again: an operator
\* that moves nothing reads every element where it lies.
THEOREM WalkFinds ==
  ASSUME NEW s \in Seq(Nat), NEW o \in 0 .. Product(s) - 1
  PROVE  Dot(Walk(s, o), Strides(s)) = o
<1> DEFINE n == Len(s)
           w == Walk(s, o)
           g == Strides(s)
<1>1. Product(s) \in Nat
  BY ProductNat
<1>2. o \in Nat /\ o < Product(s)
  BY <1>1
<1>0. n \in Nat
  OBVIOUS
<1>3. PICK r : /\ r[0] = Product(s) /\ r[n] = 1
               /\ \A d \in 0 .. n : r[d] \in Nat /\ r[d] >= 1
               /\ \A d \in 1 .. n :
                     /\ s[d] \in Nat /\ s[d] >= 1 /\ r[d - 1] = s[d] * r[d]
                     /\ g[d] = r[d] /\ w[d] = (o \div r[d]) % s[d]
  BY WalkIs
<1>4. DOMAIN w = 1 .. n
  BY DEF Walk
<1> HIDE DEF n, w, g
<1>11. PICK t : Sums(t, w, g, n) /\ Dot(w, g) = t[n]
  BY <1>0, <1>4, DotIs, Zenon
<1>5. t[0] = 0 /\ \A k \in 1 .. n : t[k] = t[k - 1] + w[k] * g[k]
  BY <1>11 DEF Sums
<1> DEFINE T == {k \in Nat : k \in 0 .. n => t[k] = (o \div r[k]) * r[k]}
<1>6. 0 \in T
  <2>1. 0 \in 0 .. n
    BY <1>0
  <2>2. r[0] \in Nat /\ r[0] >= 1 /\ o < r[0]
    BY <1>2, <1>3, <2>1
  <2>3. o \div r[0] = 0
    BY <1>2, <2>2, DivisionIs
  <2>4. (o \div r[0]) * r[0] = 0
    BY <2>2, <2>3
  <2> QED BY <1>5, <2>4
<1>7. ASSUME NEW k \in 1 .. n, k - 1 \in T
      PROVE  k \in T
  <2>1. k \in 0 .. n /\ k - 1 \in 0 .. n /\ k \in Nat
    BY <1>0
  <2>2. t[k - 1] = (o \div r[k - 1]) * r[k - 1]
    BY <1>7, <2>1
  <2>3. r[k] \in Nat /\ r[k] >= 1 /\ s[k] \in Nat /\ s[k] >= 1 /\ r[k - 1] = s[k] * r[k]
    BY <1>3, <2>1
  <2>4. t[k] = t[k - 1] + ((o \div r[k]) % s[k]) * r[k]
    BY <1>3, <1>5
  <2> DEFINE m == o \div r[k]
             q == m \div s[k]
             c == m % s[k]
  <2>5. m \in Nat
    BY <1>2, <2>3, Division
  <2>6. o \div r[k - 1] = q
    <3>1. o \div (s[k] * r[k]) = (o \div r[k]) \div s[k]
      BY <1>2, <2>3, DivisionTwice, Zenon
    <3> QED BY <2>3, <3>1, Zenon
  <2>7. t[k] = q * (s[k] * r[k]) + c * r[k]
    BY <2>2, <2>3, <2>4, <2>6
  <2> HIDE DEF m
  <2>8. q \in Nat /\ c \in Nat /\ m = q * s[k] + c
    <3>1. q \in Nat /\ c \in 0 .. s[k] - 1 /\ m = q * s[k] + c
      BY <2>3, <2>5, Division, Zenon
    <3> HIDE DEF T, q, c
    <3> QED BY <2>3, <3>1
  <2> HIDE DEF q, c
  <2>9. q * (s[k] * r[k]) = (q * s[k]) * r[k] /\ q * s[k] \in Int
    <3>1. q \in Int /\ s[k] \in Int /\ r[k] \in Int
      BY <2>3, <2>8
    <3> HIDE DEF T
    <3>2. (q * s[k]) * r[k] = q * (s[k] * r[k])
      BY <3>1, Assoc, Zenon
    <3>3. q * s[k] \in Int
      BY <3>1, MulInt, Zenon
    <3> QED BY <3>2, <3>3, Zenon
  <2>10. (q * s[k] + c) * r[k] = (q * s[k]) * r[k] + c * r[k]
    <3> HIDE DEF T
    <3>1. q * s[k] \in Int /\ c \in Int /\ r[k] \in Int
      BY <2>3, <2>8, <2>9, NatIsInt, Zenon
    <3> QED BY <3>1, Distributes, Zenon
  <2>11. t[k] = m * r[k]
    BY <2>7, <2>8, <2>9, <2>10, Zenon
  <2> QED BY <2>1, <2>11 DEF m
<1>8. 0 .. n \subseteq T
  <2>1. T \in SUBSET Nat
    OBVIOUS
  <2> HIDE DEF T
  <2> QED BY <1>0, <1>6, <1>7, <2>1, CountsUpTo
<1>9. n \in 0 .. n
  BY <1>0
<1>10. t[n] = (o \div r[n]) * r[n]
  BY <1>8, <1>9
<1>12. t[n] = o
  BY <1>2, <1>3, <1>10
<1> QED BY <1>11, <1>12 DEF w, g

\* Coordinates inside a tensor name an element of it.
THEOREM OffsetInside ==
  ASSUME NEW s \in Seq(Nat), NEW c, DOMAIN c = 1 .. Len(s),
         \A d \in 1 .. Len(s) : c[d] \in 0 .. s[d] - 1
  PROVE  Dot(c, Strides(s)) \in 0 .. Product(s) - 1
<1> DEFINE n == Len(s)
           g == Strides(s)
<1>1. n \in Nat /\ \A d \in 1 .. n : s[d] \in Nat /\ s[d] >= 1 /\ c[d] \in Nat /\ c[d] <= s[d] - 1
  OBVIOUS
<1>2. Product(s) \in Nat /\ Product(s) >= 1
  BY <1>1, ProductNat
<1>3. PICK r : /\ r[0] = Product(s) /\ r[n] = 1
               /\ \A d \in 0 .. n : r[d] \in Nat /\ r[d] >= 1
               /\ \A d \in 1 .. n : r[d - 1] = s[d] * r[d] /\ g[d] = r[d]
  BY <1>2, StepsAre
<1>0. n \in Nat /\ DOMAIN c = 1 .. n
  OBVIOUS
<1> HIDE DEF n, g
<1>10. PICK t : Sums(t, c, g, n) /\ Dot(c, g) = t[n]
  BY <1>0, DotIs, Zenon
<1>4. t[0] = 0 /\ \A k \in 1 .. n : t[k] = t[k - 1] + c[k] * g[k]
  BY <1>10 DEF Sums
<1> DEFINE T == {k \in Nat : k \in 0 .. n => t[k] \in Nat /\ t[k] <= r[0] - r[k]}
<1>5. 0 \in T
  <2>1. 0 \in 0 .. n
    BY <1>1
  <2> QED BY <1>3, <1>4, <2>1
<1>6. ASSUME NEW k \in 1 .. n, k - 1 \in T
      PROVE  k \in T
  <2>1. k \in 0 .. n /\ k - 1 \in 0 .. n /\ k \in Nat /\ 0 \in 0 .. n
    BY <1>1
  <2>2. t[k - 1] \in Nat /\ t[k - 1] <= r[0] - r[k - 1]
    BY <1>6, <2>1
  <2>3. r[0] \in Nat /\ r[k] \in Nat /\ s[k] \in Nat /\ r[k - 1] = s[k] * r[k]
    BY <1>1, <1>3, <2>1
  <2>4. t[k] = t[k - 1] + c[k] * r[k]
    BY <1>3, <1>4
  <2>5. c[k] \in Nat /\ s[k] >= 1 /\ c[k] <= s[k] - 1
    BY <1>1
  <2>6. c[k] * r[k] \in Nat /\ s[k] * r[k] \in Nat
    BY <2>3, <2>5, MulNat
  <2>7. c[k] * r[k] <= (s[k] - 1) * r[k] /\ (s[k] - 1) * r[k] = s[k] * r[k] - r[k]
    <3>1. c[k] \in Int /\ s[k] - 1 \in Int /\ r[k] \in Nat /\ c[k] <= s[k] - 1 /\ s[k] \in Int
      BY <2>3, <2>5
    <3>2. c[k] * r[k] <= (s[k] - 1) * r[k]
      BY <3>1, Scaled, Zenon
    <3> QED BY <3>1, <3>2, PredecessorTimes
  <2>8. t[k] \in Nat /\ t[k] <= r[0] - r[k]
    <3> HIDE DEF T
    <3> DEFINE a == c[k] * r[k]
               b == s[k] * r[k]
    <3>1. a \in Nat /\ b \in Nat
      BY <2>6
    <3>2. a <= (s[k] - 1) * r[k] /\ (s[k] - 1) * r[k] = b - r[k]
      BY <2>7, Zenon
    <3>3. t[k] = t[k - 1] + a
      BY <2>4, Zenon
    <3>4. t[k - 1] <= r[0] - b
      BY <2>2, <2>3, Zenon
    <3>5. t[k - 1] \in Nat /\ r[0] \in Nat /\ r[k] \in Nat
      BY <2>2, <2>3
    <3> HIDE DEF a, b
    <3>6. a <= b - r[k]
      BY <3>2, Zenon
    <3>7. t[k - 1] + a \in Nat /\ t[k - 1] + a <= r[0] - r[k]
      BY <3>1, <3>4, <3>5, <3>6, AddBelow, Zenon
    <3> QED BY <3>3, <3>7, Zenon
  <2> QED BY <2>1, <2>8
<1>7. 0 .. n \subseteq T
  <2>1. T \in SUBSET Nat
    OBVIOUS
  <2> HIDE DEF T
  <2> QED BY <1>1, <1>5, <1>6, <2>1, CountsUpTo
<1>8. n \in 0 .. n
  BY <1>1
<1>9. t[n] \in Nat /\ t[n] <= r[0] - r[n]
  BY <1>7, <1>8
<1> QED BY <1>2, <1>3, <1>9, <1>10 DEF g

----------------------------------------------------------------------------
(* The operators that move elements: whatever the elements of the operands *)
(* are, the elements of the result are among them, so nothing is read      *)
(* outside an operand.                                                     *)

\* A tensor with elements in E.
TensorOf(E, x) == x.shape \in Seq(Nat) /\ x.data \in [0 .. Count(x) - 1 -> E]

LEMMA NewTensor ==
  ASSUME NEW E, NEW dtype, NEW shape \in Seq(Nat), NEW data \in [0 .. Product(shape) - 1 -> E]
  PROVE  TensorOf(E, New(dtype, shape, data))
BY DEF TensorOf, New, Count

\* Tiling reads coordinates by their remainder.
THEOREM TileWithin ==
  ASSUME NEW E, NEW x, TensorOf(E, x), NEW repeats \in Seq(Int), Tile(x, repeats) # Refused
  PROVE  TensorOf(E, Tile(x, repeats))
<1> DEFINE s == x.shape
           out == [d \in DOMAIN repeats |-> x.shape[d] * repeats[d]]
           at(o) == [d \in DOMAIN out |-> Walk(out, o)[d] % AtLeastOne(x.shape[d])]
           data == [o \in 0 .. Product(out) - 1 |-> x.data[Dot(at(o), Strides(x.shape))]]
<1>1. /\ Len(repeats) = Len(s) /\ Concrete(repeats)
      /\ Tile(x, repeats) = New(x.dtype, out, data)
  BY Zenon DEF Tile, Moved, Rank
<1>2. s \in Seq(Nat) /\ x.data \in [0 .. Product(s) - 1 -> E]
  BY DEF TensorOf, Count
<1>3. DOMAIN repeats = 1 .. Len(s) /\ \A d \in 1 .. Len(s) : repeats[d] \in Nat /\ s[d] \in Nat
  <2>0. Len(repeats) = Len(s)
    BY <1>1, Zenon
  <2>1. DOMAIN repeats = 1 .. Len(s) /\ \A d \in 1 .. Len(s) : repeats[d] \in Int /\ s[d] \in Nat
    <3> HIDE DEF out, data
    <3> QED BY <1>2, <2>0
  <2>2. \A d \in 1 .. Len(s) : repeats[d] >= 0
    BY <1>1, <2>1, Zenon DEF Concrete
  <2> QED BY <2>1, <2>2
<1>4. \A d \in 1 .. Len(s) : out[d] \in Nat /\ (out[d] >= 1 => s[d] >= 1)
  BY <1>3, MulNat
<1>5. out \in Seq(Nat) /\ Len(out) = Len(s) /\ DOMAIN out = 1 .. Len(s)
  <2>1. DOMAIN out = 1 .. Len(s) /\ out = [d \in 1 .. Len(s) |-> out[d]] /\ Len(s) \in Nat
    BY <1>2, <1>3
  <2> HIDE DEF out, s
  <2> QED BY <1>4, <2>1
<1>6. ASSUME NEW o \in 0 .. Product(out) - 1
      PROVE  Dot(at(o), Strides(s)) \in 0 .. Product(s) - 1
  <2> DEFINE c == at(o)
  <2>1. DOMAIN c = 1 .. Len(s) /\ \A d \in 1 .. Len(s) : c[d] = Walk(out, o)[d] % AtLeastOne(s[d])
    BY <1>5
  <2> HIDE DEF c, at, out, data, s
  <2>2. \A d \in 1 .. Len(s) : Walk(out, o)[d] \in 0 .. out[d] - 1
    BY <1>5, WalkInside
  <2>3. ASSUME NEW d \in 1 .. Len(s)
        PROVE  c[d] \in 0 .. s[d] - 1
    <3>1. Walk(out, o)[d] \in Nat /\ s[d] \in Nat /\ s[d] >= 1
      BY <1>3, <1>4, <2>2
    <3>2. AtLeastOne(s[d]) = s[d]
      BY <3>1 DEF AtLeastOne
    <3>3. Walk(out, o)[d] % s[d] \in 0 .. s[d] - 1
      BY <3>1, Division, Zenon
    <3> QED BY <2>1, <3>2, <3>3
  <2> QED BY <1>2, <2>1, <2>3, OffsetInside DEF c
<1>7. data \in [0 .. Product(out) - 1 -> E]
  <2> HIDE DEF out, at
  <2> QED BY <1>2, <1>6
<1> HIDE DEF out, data
<1> QED BY <1>1, <1>5, <1>7, NewTensor

\* Padding puts the value where coordinates fall outside, whether it adds or cuts.
THEOREM PadWithin ==
  ASSUME NEW E, NEW x, TensorOf(E, x), NEW begins \in Seq(Int), NEW ends \in Seq(Int),
         NEW value \in E, Pad(x, begins, ends, value) # Refused
  PROVE  TensorOf(E, Pad(x, begins, ends, value))
<1> DEFINE s == x.shape
           out == [d \in DOMAIN begins |-> x.shape[d] + begins[d] + ends[d]]
           at(o) == [d \in DOMAIN out |-> Walk(out, o)[d] - begins[d]]
           out_of(o) == \E d \in DOMAIN out : at(o)[d] \notin 0 .. x.shape[d] - 1
           data == [o \in 0 .. Product(out) - 1 |->
                      IF out_of(o) THEN value ELSE x.data[Dot(at(o), Strides(x.shape))]]
<1>1. /\ Len(begins) = Len(s) /\ Len(ends) = Len(s) /\ Concrete(out)
      /\ Pad(x, begins, ends, value) = New(x.dtype, out, data)
  BY Zenon DEF Pad, Rank
<1>2. s \in Seq(Nat) /\ x.data \in [0 .. Product(s) - 1 -> E]
  BY DEF TensorOf, Count
<1>3. /\ DOMAIN begins = 1 .. Len(s) /\ Len(s) \in Nat
      /\ \A d \in 1 .. Len(s) : begins[d] \in Int /\ ends[d] \in Int /\ s[d] \in Nat
  <2>1. Len(begins) = Len(s) /\ Len(ends) = Len(s) /\ s \in Seq(Nat)
    BY <1>1, <1>2, Zenon
  <2> HIDE DEF out, data, s
  <2> QED BY <2>1
<1>4. \A d \in 1 .. Len(s) : out[d] \in Nat
  <2>1. \A d \in 1 .. Len(s) : out[d] \in Int
    <3>1. SUFFICES ASSUME NEW d \in 1 .. Len(s)
                   PROVE  out[d] \in Int
      OBVIOUS
    <3>2. out[d] = s[d] + begins[d] + ends[d]
      BY <1>3, Zenon
    <3> HIDE DEF out, data, s
    <3>3. s[d] \in Int /\ begins[d] \in Int /\ ends[d] \in Int
      BY <1>3, <3>1, NatIsInt, Zenon
    <3> QED BY <3>2, <3>3
  <2>2. DOMAIN out = 1 .. Len(s)
    BY <1>3
  <2>3. \A d \in 1 .. Len(s) : out[d] >= 0
    <3> HIDE DEF out
    <3> QED BY <1>1, <2>2, Zenon DEF Concrete
  <2> HIDE DEF out
  <2> QED BY <2>1, <2>3
<1>5. out \in Seq(Nat) /\ DOMAIN out = 1 .. Len(s)
  <2>1. DOMAIN out = 1 .. Len(s) /\ out = [d \in 1 .. Len(s) |-> out[d]]
    BY <1>3
  <2> HIDE DEF out, s
  <2> QED BY <1>3, <1>4, <2>1
<1>6. ASSUME NEW o \in 0 .. Product(out) - 1, ~out_of(o)
      PROVE  Dot(at(o), Strides(s)) \in 0 .. Product(s) - 1
  <2> DEFINE c == at(o)
  <2>1. DOMAIN c = 1 .. Len(s) /\ \A d \in 1 .. Len(s) : c[d] \in 0 .. s[d] - 1
    BY <1>5, <1>6
  <2> HIDE DEF c, at, out, data, s
  <2> QED BY <1>2, <2>1, OffsetInside DEF c
<1>7. data \in [0 .. Product(out) - 1 -> E]
  <2> HIDE DEF out, at, out_of
  <2> QED BY <1>2, <1>6
<1> HIDE DEF out, data
<1> QED BY <1>1, <1>5, <1>7, NewTensor

LEMMA CeilWalk ==
  ASSUME NEW m \in Nat, m >= 1, NEW t \in Nat, t >= 1
  PROVE  CeilDiv(m, t) \in Nat /\ \A w \in 0 .. CeilDiv(m, t) - 1 : w * t \in 0 .. m - 1
<1> DEFINE c == CeilDiv(m, t)
<1>1. c = (m + t - 1) \div t /\ m + t - 1 \in Nat
  BY DEF CeilDiv
<1>2. c \in Nat /\ (m + t - 1) % t \in 0 .. t - 1 /\ m + t - 1 = c * t + ((m + t - 1) % t)
  BY <1>1, Division
<1> HIDE DEF c
<1>3. c * t \in Nat /\ c * t <= m + t - 1
  BY <1>2, MulNat
<1>4. ASSUME NEW w \in 0 .. c - 1
      PROVE  w * t \in 0 .. m - 1
  <2>1. w \in Nat /\ w <= c - 1 /\ c - 1 \in Int
    BY <1>2
  <2>2. w * t <= (c - 1) * t /\ w * t \in Nat
    BY <2>1, Scaled, MulNat
  <2>3. (c - 1) * t = c * t - t
    BY <1>2, PredecessorTimes
  <2> QED BY <1>3, <2>2, <2>3
<1> QED BY <1>2, <1>4 DEF c

\* The positions a slice visits along an axis are in it.  An empty axis is not walked
\* backwards: the clamp of host_ops.rs panics there.
LEMMA SliceVisits ==
  ASSUME NEW dim \in Nat, NEW start \in Int, NEW end \in Int, NEW step \in Int, step # 0,
         dim = 0 => step > 0
  PROVE  LET b == SliceBounds(dim, start, end, step) IN
         /\ SliceCount(b, step) \in Nat
         /\ \A w \in 0 .. SliceCount(b, step) - 1 : b[1] + w * step \in 0 .. dim - 1
<1> DEFINE b == SliceBounds(dim, start, end, step)
           c == SliceCount(b, step)
<1>1. Wrapped(start, dim) \in Int /\ Wrapped(end, dim) \in Int
  BY DEF Wrapped
<1>2. CASE step > 0
  <2>1. b = <<Clamp(Wrapped(start, dim), 0, dim), Clamp(Wrapped(end, dim), 0, dim)>>
    BY <1>2 DEF SliceBounds
  <2>2. b[1] \in 0 .. dim /\ b[2] \in 0 .. dim
    BY <1>1, <2>1 DEF Clamp
  <2> HIDE DEF b
  <2>3. CASE b[2] > b[1]
    <3>1. c = CeilDiv(b[2] - b[1], step)
      BY <1>2, <2>2, <2>3 DEF SliceCount
    <3>2. b[2] - b[1] \in Nat /\ b[2] - b[1] >= 1 /\ step \in Nat /\ step >= 1
      BY <1>2, <2>2, <2>3
    <3> HIDE DEF c
    <3>3. c \in Nat /\ \A w \in 0 .. c - 1 : w * step \in 0 .. b[2] - b[1] - 1
      BY <3>1, <3>2, CeilWalk
    <3>4. \A w \in 0 .. c - 1 : b[1] + w * step \in 0 .. dim - 1
      BY <2>2, <3>3
    <3> QED BY <3>3, <3>4 DEF b, c
  <2>4. CASE ~(b[2] > b[1])
    <3>1. c = 0
      BY <1>2, <2>2, <2>4 DEF SliceCount
    <3> QED BY <3>1 DEF b
  <2> QED BY <2>3, <2>4
<1>3. CASE step < 0
  <2>1. b = <<Clamp(Wrapped(start, dim), 0, dim - 1), Clamp(Wrapped(end, dim), -1, dim - 1)>>
    BY <1>3 DEF SliceBounds
  <2>2. b[1] \in 0 .. dim - 1 /\ b[2] \in -1 .. dim - 1
    BY <1>1, <1>3, <2>1 DEF Clamp
  <2> HIDE DEF b
  <2>3. CASE b[1] > b[2]
    <3>1. c = CeilDiv(b[1] - b[2], -step)
      BY <1>3, <2>2, <2>3 DEF SliceCount
    <3>2. b[1] - b[2] \in Nat /\ b[1] - b[2] >= 1 /\ -step \in Nat /\ -step >= 1
      BY <1>3, <2>2, <2>3
    <3> HIDE DEF c
    <3>3. c \in Nat /\ \A w \in 0 .. c - 1 : w * (-step) \in 0 .. b[1] - b[2] - 1
      BY <3>1, <3>2, CeilWalk
    <3>4. ASSUME NEW w \in 0 .. c - 1
          PROVE  b[1] + w * step \in 0 .. dim - 1
      <4>1. w \in Int /\ w * step \in Int /\ w * (-step) = -(w * step)
        BY <3>3
      <4> QED BY <2>2, <3>3, <4>1
    <3> QED BY <3>3, <3>4 DEF b, c
  <2>4. CASE ~(b[1] > b[2])
    <3>1. c = 0
      BY <1>3, <2>2, <2>4 DEF SliceCount
    <3> QED BY <3>1 DEF b
  <2> QED BY <2>3, <2>4
<1> QED BY <1>2, <1>3

\* A set of numbers up to n has a largest, and Max is it.
LEMMA LargestOf ==
  ASSUME NEW n \in Nat, NEW S \in SUBSET (0 .. n), S # {}
  PROVE  Max(S) \in S /\ \A k \in S : k <= Max(S)
<1> DEFINE T == {m \in Nat : n - m \in S}
<1>1. PICK k \in S : TRUE
  OBVIOUS
<1>2. n - k \in T
  OBVIOUS
<1>3. PICK m \in T : \A i \in T : m <= i
  <2>1. T \in SUBSET Nat
    OBVIOUS
  <2> HIDE DEF T
  <2> QED BY <1>2, <2>1, LeastNatural
<1>4. n - m \in S /\ m \in Nat
  OBVIOUS
<1>5. \A i \in S : i \in Nat /\ n - i \in T
  OBVIOUS
<1>6. \A i \in S : n - m >= i /\ i \in Int
  <2> HIDE DEF T
  <2> QED BY <1>3, <1>4, <1>5
<1>7. Max(S) = n - m
  BY <1>4, <1>6, LargestIs
<1> QED BY <1>4, <1>6, <1>7

\* What a slice reads is inside the operand: what its parameters say of every axis, of
\* entries that name one axis the last, whatever the sign of its step.
LEMMA SliceReads ==
  ASSUME NEW x, x.shape \in Seq(Nat), NEW starts \in Seq(Int), NEW ends \in Seq(Int),
         NEW axes \in Seq(Int), NEW steps \in Seq(Int),
         \A i \in DOMAIN axes : x.shape[Axis(axes[i], Rank(x))] = 0 => steps[i] > 0,
         SliceParams(x.shape, starts, ends, axes, steps) # Refused
  PROVE  LET params == SliceParams(x.shape, starts, ends, axes, steps) IN
         /\ params.out \in Seq(Nat)
         /\ \A o \in 0 .. Product(params.out) - 1 :
              SliceFrom(x, params, o) \in 0 .. Product(x.shape) - 1
<1> DEFINE s == x.shape
           n == Len(s)
           params == SliceParams(s, starts, ends, axes, steps)
           on(d) == {i \in DOMAIN axes : Axis(axes[i], n) = d}
           b(d) == SliceBounds(s[d], starts[Max(on(d))], ends[Max(on(d))], steps[Max(on(d))])
           out == [d \in DOMAIN s |-> IF on(d) = {} THEN s[d] ELSE SliceCount(b(d), steps[Max(on(d))])]
           first == [d \in DOMAIN s |-> IF on(d) = {} THEN 0 ELSE b(d)[1]]
           by == [d \in DOMAIN s |-> IF on(d) = {} THEN 1 ELSE steps[Max(on(d))]]
           at(o) == [d \in DOMAIN s |-> first[d] + Walk(out, o)[d] * by[d]]
<1>1. s \in Seq(Nat) /\ n \in Nat /\ DOMAIN s = 1 .. n
  OBVIOUS
<1>2. params # Refused
  OBVIOUS
<1>3. /\ Len(starts) = Len(ends) /\ Len(axes) = Len(starts) /\ Len(steps) = Len(starts)
      /\ \A i \in DOMAIN axes : steps[i] # 0
      /\ params = [out |-> out, start |-> first, step |-> by]
  BY <1>2, Zenon DEF SliceParams
<1>4. params.out = out /\ params.start = first /\ params.step = by
  <2> HIDE DEF out, first, by, params
  <2> QED BY <1>3
<1>5. ASSUME NEW o
      PROVE  SliceFrom(x, params, o) = Dot(at(o), Strides(s))
  <2> HIDE DEF out, first, by, params
  <2> QED BY <1>4, Zenon DEF SliceFrom, at, s
<1>6. ASSUME NEW d \in 1 .. n
      PROVE  /\ out[d] \in Nat
             /\ \A w \in 0 .. out[d] - 1 : first[d] + w * by[d] \in 0 .. s[d] - 1
  <2>1. CASE on(d) = {}
    <3>1. d \in DOMAIN s /\ s[d] \in Nat
      BY <1>1
    <3>2. out[d] = s[d] /\ first[d] = 0 /\ by[d] = 1
      BY <2>1, <3>1, Zenon
    <3> HIDE DEF out, first, by, s
    <3>3. \A w \in 0 .. out[d] - 1 : first[d] + w * by[d] = w
      BY <3>1, <3>2
    <3> QED BY <3>1, <3>2, <3>3
  <2>2. CASE on(d) # {}
    <3> DEFINE i == Max(on(d))
    <3>1. on(d) \in SUBSET (0 .. Len(axes)) /\ Len(axes) \in Nat
      OBVIOUS
    <3>2. i \in on(d)
      <4> HIDE DEF on
      <4> QED BY <2>2, <3>1, LargestOf
    <3>3. i \in DOMAIN axes /\ Axis(axes[i], n) = d
      <4> HIDE DEF i
      <4> QED BY <3>2
    <3>4. out[d] = SliceCount(b(d), steps[i]) /\ first[d] = b(d)[1] /\ by[d] = steps[i]
      BY <1>1, <2>2
    <3>5. b(d) = SliceBounds(s[d], starts[i], ends[i], steps[i])
      OBVIOUS
    <3> HIDE DEF out, first, by, b, on, i
    <3>6. s[d] \in Nat /\ starts[i] \in Int /\ ends[i] \in Int /\ steps[i] \in Int /\ steps[i] # 0
      <4>1. Len(starts) = Len(ends) /\ Len(axes) = Len(starts) /\ Len(steps) = Len(starts)
        BY <1>3, Zenon
      <4>2. steps[i] # 0
        BY <1>3, <3>3, Zenon
      <4>3. i \in 1 .. Len(starts) /\ i \in 1 .. Len(ends) /\ i \in 1 .. Len(steps)
        <5>1. i \in 1 .. Len(axes)
          BY <3>3
        <5> QED BY <4>1, <5>1, Zenon
      <4>4. s[d] \in Nat
        BY <1>1
      <4> HIDE DEF params, s
      <4>5. starts[i] \in Int /\ ends[i] \in Int /\ steps[i] \in Int
        BY <4>3
      <4> QED BY <4>2, <4>4, <4>5
    <3>7. s[d] = 0 => steps[i] > 0
      BY <3>3 DEF Rank
    <3>8. /\ SliceCount(b(d), steps[i]) \in Nat
          /\ \A w \in 0 .. SliceCount(b(d), steps[i]) - 1 : b(d)[1] + w * steps[i] \in 0 .. s[d] - 1
      BY <3>5, <3>6, <3>7, SliceVisits
    <3> QED BY <3>4, <3>8
  <2> QED BY <2>1, <2>2
<1>7. out \in Seq(Nat) /\ DOMAIN out = 1 .. n
  <2>1. DOMAIN out = 1 .. n /\ out = [d \in 1 .. n |-> out[d]]
    BY <1>1
  <2> HIDE DEF out, s
  <2> QED BY <1>1, <1>6, <2>1
<1>8. ASSUME NEW o \in 0 .. Product(out) - 1
      PROVE  Dot(at(o), Strides(s)) \in 0 .. Product(s) - 1
  <2> DEFINE c == at(o)
  <2>1. DOMAIN c = 1 .. n /\ \A d \in 1 .. n : c[d] = first[d] + Walk(out, o)[d] * by[d]
    BY <1>1
  <2> HIDE DEF c, at, out, first, by
  <2>2. Len(out) = n
    BY <1>1, <1>7
  <2>3. \A d \in 1 .. n : Walk(out, o)[d] \in 0 .. out[d] - 1
    BY <1>7, <2>2, WalkInside
  <2>4. \A d \in 1 .. n : c[d] \in 0 .. s[d] - 1
    BY <1>6, <2>1, <2>3
  <2> HIDE DEF s
  <2> QED BY <1>1, <2>1, <2>4, OffsetInside DEF c, n
<1> HIDE DEF out, at, params, first, by
<1>9. \A o \in 0 .. Product(out) - 1 : SliceFrom(x, params, o) \in 0 .. Product(s) - 1
  BY <1>5, <1>8
<1> QED BY <1>4, <1>7, <1>9, Zenon DEF params, s

\* A slice on the host takes elements of its operand.
THEOREM SliceWithin ==
  ASSUME NEW E, NEW x, TensorOf(E, x), NEW starts \in Seq(Int), NEW ends \in Seq(Int),
         NEW axes \in Seq(Int), NEW steps \in Seq(Int),
         \A i \in DOMAIN axes : x.shape[Axis(axes[i], Rank(x))] = 0 => steps[i] > 0,
         Slice(x, SliceParams(x.shape, starts, ends, axes, steps)) # Refused
  PROVE  TensorOf(E, Slice(x, SliceParams(x.shape, starts, ends, axes, steps)))
<1> DEFINE params == SliceParams(x.shape, starts, ends, axes, steps)
           data == [o \in 0 .. Product(params.out) - 1 |-> x.data[SliceFrom(x, params, o)]]
<1>1. x.shape \in Seq(Nat) /\ x.data \in [0 .. Product(x.shape) - 1 -> E]
  BY DEF TensorOf, Count
<1>2. params # Refused /\ Slice(x, params) = New(x.dtype, params.out, data)
  <2> HIDE DEF params
  <2> QED BY Zenon DEF Slice, Moved, SliceFrom, params
<1>3. /\ params.out \in Seq(Nat)
      /\ \A o \in 0 .. Product(params.out) - 1 : SliceFrom(x, params, o) \in 0 .. Product(x.shape) - 1
  BY <1>1, <1>2, SliceReads, Zenon
<1> HIDE DEF params
<1>4. data \in [0 .. Product(params.out) - 1 -> E]
  BY <1>1, <1>3
<1> HIDE DEF data
<1> QED BY <1>2, <1>3, <1>4, NewTensor DEF params

----------------------------------------------------------------------------
(* Tensors that are stretched to a shape.                                  *)

\* Ones before a shape change neither what it counts nor its dimensions.
LEMMA AlignedIs ==
  ASSUME NEW s \in Seq(Nat), NEW rank \in Nat, Len(s) <= rank
  PROVE  LET x == Aligned(s, rank) IN
         /\ x \in Seq(Nat) /\ Len(x) = rank /\ DOMAIN x = 1 .. rank
         /\ \A d \in 1 .. rank :
              /\ d <= rank - Len(s) => x[d] = 1
              /\ d > rank - Len(s) => d - (rank - Len(s)) \in 1 .. Len(s)
              /\ d > rank - Len(s) => x[d] = s[d - (rank - Len(s))]
         /\ Product(x) = Product(s)
<1> DEFINE n == Len(s)
           a == rank - n
           x == Aligned(s, rank)
<1>1. n \in Nat /\ a \in Nat /\ rank = a + n /\ DOMAIN s = 1 .. n /\ \A d \in 1 .. n : s[d] \in Nat
  OBVIOUS
<1>2. x = [d \in 1 .. rank |-> IF d <= a THEN 1 ELSE s[d - a]]
  BY DEF Aligned
<1> HIDE DEF n, a
<1>3. \A d \in 1 .. rank : /\ d <= a => x[d] = 1
                           /\ d > a => d - a \in 1 .. n /\ x[d] = s[d - a]
                           /\ x[d] \in Nat
  BY <1>1, <1>2
<1>4. x \in Seq(Nat) /\ DOMAIN x = 1 .. rank /\ Len(x) = rank
  <2>1. DOMAIN x = 1 .. rank /\ x = [d \in 1 .. rank |-> x[d]]
    BY <1>2
  <2> HIDE DEF x
  <2> QED BY <1>3, <2>1
<1> HIDE DEF x
<1>5. PICK p : Partials(p, "times", 1, x, rank) /\ Product(x) = p[rank]
  BY <1>4, ProductIs
<1>6. PICK q : Partials(q, "times", 1, s, n) /\ Product(s) = q[n]
  BY <1>1, ProductIs
<1>7. p[a] = 1
  <2> DEFINE T == {k \in Nat : k \in 0 .. a => p[k] = 1}
  <2>1. \A k \in 0 .. rank : p[k] = IF k = 0 THEN 1 ELSE p[k - 1] * x[k]
    BY <1>5 DEF Partials, Took
  <2>2. 0 \in T
    BY <1>1, <2>1
  <2>3. \A k \in 1 .. a : k - 1 \in T => k \in T
    BY <1>1, <1>3, <2>1
  <2>4. T \in SUBSET Nat /\ a \in 0 .. a
    BY <1>1
  <2>5. a \in T
    <3> HIDE DEF T
    <3> QED BY <1>1, <2>2, <2>3, <2>4, CountsUpTo
  <2> QED BY <2>4, <2>5
<1>8. p[a + n] = p[a] * q[n]
  <2>1. Partials(p, "times", 1, x, rank) /\ Partials(q, "times", 1, s, n)
    BY <1>5, <1>6
  <2>2. /\ rank \in Nat /\ a \in Nat /\ n \in Nat /\ rank = a + n /\ n \in 0 .. n
        /\ \A d \in 1 .. rank : x[d] \in Int
        /\ \A d \in 1 .. n : s[d] = x[a + d]
    BY <1>1, <1>3
  <2>3. Continues(p, x, rank, a, q, s, n)
    BY <2>1, <2>2, Zenon DEF Continues
  <2> QED BY <2>2, <2>3, PartialsTail
<1>9. Product(x) = Product(s)
  <2>1. Product(s) \in Nat
    BY ProductNat
  <2> QED BY <1>1, <1>5, <1>6, <1>7, <1>8, <2>1
<1> QED BY <1>1, <1>3, <1>4, <1>9 DEF n, a, x

\* Elements of a tensor that is stretched to a shape are read inside it.
LEMMA StretchedInside ==
  ASSUME NEW s \in Seq(Nat), NEW out \in Seq(Nat), Len(s) <= Len(out),
         NEW o \in 0 .. Product(out) - 1,
         \A d \in 1 .. Len(out) : Aligned(s, Len(out))[d] # 0
  PROVE  Dot(Walk(out, o), BcastStrides(s, out)) \in 0 .. Product(s) - 1
<1> DEFINE n == Len(out)
           x == Aligned(s, n)
           w == Walk(out, o)
           moves(d) == d > n - Len(s) /\ x[d] = out[d] /\ x[d] # 1
           c == [d \in 1 .. n |-> IF moves(d) THEN w[d] ELSE 0]
           g == BcastStrides(s, out)
           f == Strides(x)
<1>1. n \in Nat /\ DOMAIN out = 1 .. n
  OBVIOUS
<1>2. x \in Seq(Nat) /\ Len(x) = n /\ DOMAIN x = 1 .. n /\ Product(x) = Product(s)
  <2> HIDE DEF n
  <2> QED BY <1>1, AlignedIs DEF n
<1>3. \A d \in 1 .. n : w[d] \in 0 .. out[d] - 1
  BY WalkInside
<1>4. DOMAIN w = 1 .. n
  BY DEF Walk
<1>5. \A d \in 1 .. n : g[d] = IF moves(d) THEN Product(After(x, d)) ELSE 0
  BY <1>1 DEF BcastStrides
<1>6. \A d \in 1 .. n : f[d] = Product(After(x, d))
  BY <1>2 DEF Strides
<1>7. \A d \in 1 .. n : x[d] \in Nat /\ x[d] >= 1
  <2>1. \A d \in 1 .. n : x[d] # 0
    OBVIOUS
  <2> HIDE DEF x, n
  <2> QED BY <1>2, <2>1
<1>8. Product(x) >= 1
  <2> HIDE DEF x, n
  <2> QED BY <1>2, <1>7, ProductNat
<1>9. \A d \in 1 .. n : f[d] \in Nat
  <2> HIDE DEF x, n
  <2>1. x \in Seq(Nat) /\ Len(x) = n
    BY <1>2
  <2>2. \A d \in 1 .. Len(x) : Strides(x)[d] \in Nat
    BY <1>8, <2>1, StridesAre
  <2> QED BY <2>1, <2>2 DEF f
<1>10. DOMAIN c = 1 .. n /\ \A d \in 1 .. n : c[d] = IF moves(d) THEN w[d] ELSE 0
  OBVIOUS
<1> HIDE DEF c, w, g, f
<1>11. ASSUME NEW d \in 1 .. n
       PROVE  c[d] \in 0 .. x[d] - 1
  <2> HIDE DEF x, n, moves
  <2>1. /\ w[d] \in 0 .. out[d] - 1 /\ x[d] \in Nat /\ x[d] >= 1
        /\ c[d] = IF moves(d) THEN w[d] ELSE 0
    BY <1>3, <1>7, <1>10, Zenon
  <2>2. moves(d) => x[d] = out[d]
    BY Zenon DEF moves
  <2> QED BY <2>1, <2>2
<1>12. ASSUME NEW d \in 1 .. n
       PROVE  w[d] * g[d] = c[d] * f[d]
  <2>1. w[d] \in Nat
    BY <1>3
  <2> HIDE DEF x, n, moves
  <2>2. /\ g[d] = IF moves(d) THEN Product(After(x, d)) ELSE 0
        /\ f[d] = Product(After(x, d)) /\ f[d] \in Nat
        /\ c[d] = IF moves(d) THEN w[d] ELSE 0
    BY <1>5, <1>6, <1>9, <1>10, Zenon
  <2>3. CASE moves(d)
    BY <2>2, <2>3, Zenon
  <2>4. CASE ~moves(d)
    <3>1. g[d] = 0 /\ c[d] = 0
      BY <2>2, <2>4, Zenon
    <3> QED BY <2>1, <2>2, <3>1
  <2> QED BY <2>3, <2>4
<1>13. Dot(w, g) = Dot(c, f)
  <2> HIDE DEF x, n
  <2>1. [d \in DOMAIN w |-> w[d] * g[d]] = [d \in DOMAIN c |-> c[d] * f[d]]
    BY <1>4, <1>10, <1>12
  <2> QED BY <2>1, Zenon DEF Dot
<1>14. Dot(c, f) \in 0 .. Product(x) - 1
  <2> HIDE DEF x, n
  <2> QED BY <1>2, <1>10, <1>11, OffsetInside DEF f
<1> QED BY <1>2, <1>13, <1>14 DEF w, g

LEMMA LargerIs ==
  ASSUME NEW m \in Nat, NEW n \in Nat
  PROVE  Max({m, n}) = IF m > n THEN m ELSE n
<1> DEFINE k == IF m > n THEN m ELSE n
<1>1. k \in {m, n} /\ (\A i \in {m, n} : k >= i) /\ \A i \in {m, n} : i \in Int
  OBVIOUS
<1> HIDE DEF k
<1>2. Max({m, n}) = k
  BY <1>1, LargestIs
<1> QED BY <1>2 DEF k

\* The shape that two shapes stretch to.
LEMMA JoinedIs ==
  ASSUME NEW a \in Seq(Int), NEW b \in Seq(Int), Broadcastable(a, b)
  PROVE  LET rank == IF Len(a) > Len(b) THEN Len(a) ELSE Len(b)
             x    == Aligned(a, rank)
             y    == Aligned(b, rank)
         IN /\ rank \in Nat /\ Joined(a, b) \in Seq(Nat) /\ Len(Joined(a, b)) = rank
            /\ DOMAIN x = 1 .. rank /\ DOMAIN y = 1 .. rank
            /\ \A d \in 1 .. rank : /\ x[d] \in Nat /\ y[d] \in Nat
                                    /\ x[d] = y[d] \/ x[d] = 1 \/ y[d] = 1
                                    /\ Joined(a, b)[d] = IF x[d] = 1 THEN y[d] ELSE x[d]
<1> DEFINE rank == IF Len(a) > Len(b) THEN Len(a) ELSE Len(b)
           x == Aligned(a, rank)
           y == Aligned(b, rank)
           out == Joined(a, b)
<1>1. Len(a) \in Nat /\ Len(b) \in Nat /\ rank \in Nat
  OBVIOUS
<1>2. Max({Len(a), Len(b)}) = rank
  <2> HIDE DEF rank
  <2> QED BY <1>1, LargerIs DEF rank
<1>3. Stretch(x, y, out)
  <2> HIDE DEF rank, x, y, out
  <2> QED BY <1>2 DEF Broadcastable, x, y, out
<1>4. out = [d \in 1 .. rank |-> IF x[d] = 1 THEN y[d] ELSE x[d]]
  BY Zenon DEF Joined
<1>5. /\ DOMAIN x = 1 .. rank /\ DOMAIN y = 1 .. rank
      /\ \A d \in 1 .. rank : x[d] \in Int /\ y[d] \in Int
  <2>1. Len(a) <= rank /\ Len(b) <= rank
    BY <1>1
  <2> HIDE DEF rank
  <2>2. DOMAIN x = 1 .. rank /\ \A d \in 1 .. rank : x[d] \in Int
    BY <1>1, <2>1 DEF Aligned
  <2>3. DOMAIN y = 1 .. rank /\ \A d \in 1 .. rank : y[d] \in Int
    BY <1>1, <2>1 DEF Aligned
  <2> QED BY <2>2, <2>3
<1> HIDE DEF rank, x, y, out
<1>6. \A d \in 1 .. rank : x[d] >= 0 /\ y[d] >= 0 /\ (x[d] = y[d] \/ x[d] = 1 \/ y[d] = 1)
  BY <1>3, <1>4 DEF Stretch
<1>7. \A d \in 1 .. rank : /\ x[d] \in Nat /\ y[d] \in Nat
                           /\ out[d] \in Nat /\ out[d] = IF x[d] = 1 THEN y[d] ELSE x[d]
  BY <1>4, <1>5, <1>6
<1>8. out \in Seq(Nat) /\ Len(out) = rank
  <2>1. out = [d \in 1 .. rank |-> out[d]]
    BY <1>4
  <2>2. rank \in Nat /\ \A d \in 1 .. rank : out[d] \in Nat
    BY <1>1, <1>7, Zenon
  <2>3. Lists(out, rank)
    BY <2>1, <2>2, Zenon DEF Lists
  <2> QED BY <2>2, <2>3, ListIs, Zenon
<1> QED BY <1>1, <1>5, <1>6, <1>7, <1>8, Zenon DEF rank, x, y, out

\* A dimension that has positions stretches none that has not.
LEMMA JoinedKeeps ==
  ASSUME NEW a \in Seq(Int), NEW b \in Seq(Int), Broadcastable(a, b), NEW n \in Nat,
         Len(Joined(a, b)) <= n, NEW d \in 1 .. n, Aligned(Joined(a, b), n)[d] # 0
  PROVE  Len(a) <= n /\ Len(b) <= n /\ Aligned(a, n)[d] # 0 /\ Aligned(b, n)[d] # 0
<1> DEFINE rank == IF Len(a) > Len(b) THEN Len(a) ELSE Len(b)
           x == Aligned(a, rank)
           y == Aligned(b, rank)
           out == Joined(a, b)
<1>1. /\ rank \in Nat /\ Len(out) = rank
      /\ \A e \in 1 .. rank : /\ x[e] \in Nat /\ y[e] \in Nat
                              /\ x[e] = y[e] \/ x[e] = 1 \/ y[e] = 1
                              /\ out[e] = IF x[e] = 1 THEN y[e] ELSE x[e]
  BY JoinedIs, Zenon
<1>2. Len(a) \in Nat /\ Len(b) \in Nat /\ Len(a) <= rank /\ Len(b) <= rank
  OBVIOUS
<1>3. rank <= n
  BY <1>1
<1>4. /\ Aligned(a, n)[d] = IF d <= n - Len(a) THEN 1 ELSE a[d - (n - Len(a))]
      /\ Aligned(b, n)[d] = IF d <= n - Len(b) THEN 1 ELSE b[d - (n - Len(b))]
      /\ Aligned(out, n)[d] = IF d <= n - rank THEN 1 ELSE out[d - (n - rank)]
  <2> HIDE DEF rank, out
  <2> QED BY <1>1 DEF Aligned
<1>5. CASE d <= n - rank
  <2> HIDE DEF rank, out, x, y
  <2> QED BY <1>1, <1>2, <1>3, <1>4, <1>5
<1>6. CASE ~(d <= n - rank)
  <2> DEFINE e == d - (n - rank)
  <2>1. e \in 1 .. rank
    <3> HIDE DEF rank
    <3> QED BY <1>1, <1>3, <1>6
  <2>2. /\ x[e] = IF e <= rank - Len(a) THEN 1 ELSE a[e - (rank - Len(a))]
        /\ y[e] = IF e <= rank - Len(b) THEN 1 ELSE b[e - (rank - Len(b))]
    <3> HIDE DEF rank, e
    <3> QED BY <2>1 DEF Aligned
  <2>3. e - (rank - Len(a)) = d - (n - Len(a)) /\ e - (rank - Len(b)) = d - (n - Len(b))
    <3> HIDE DEF rank
    <3> QED BY <1>1, <1>2
  <2>4. (e <= rank - Len(a) <=> d <= n - Len(a)) /\ (e <= rank - Len(b) <=> d <= n - Len(b))
    <3> HIDE DEF rank
    <3> QED BY <1>1, <1>2
  <2>5. Aligned(a, n)[d] = x[e] /\ Aligned(b, n)[d] = y[e]
    <3> HIDE DEF rank, x, y, e, out
    <3> QED BY <1>4, <2>2, <2>3, <2>4
  <2>6. out[e] # 0
    <3>1. Aligned(out, n)[d] # 0
      OBVIOUS
    <3> HIDE DEF rank, out
    <3> QED BY <1>4, <1>6, <3>1
  <2> HIDE DEF rank, x, y, e, out
  <2> QED BY <1>1, <1>2, <1>3, <2>1, <2>5, <2>6
<1> QED BY <1>5, <1>6

\* A shape is its own alignment to its rank.
LEMMA AlignedSame ==
  ASSUME NEW s \in Seq(Int), NEW d \in 1 .. Len(s)
  PROVE  Aligned(s, Len(s))[d] = s[d]
BY DEF Aligned

LEMMA JoinedShort ==
  ASSUME NEW a \in Seq(Int), NEW b \in Seq(Int), Broadcastable(a, b)
  PROVE  Len(a) <= Len(Joined(a, b)) /\ Len(b) <= Len(Joined(a, b))
<1>1. Len(Joined(a, b)) = IF Len(a) > Len(b) THEN Len(a) ELSE Len(b)
  BY JoinedIs, Zenon
<1> QED BY <1>1

\* Expansion repeats elements along the dimensions it stretches.
THEOREM ExpandWithin ==
  ASSUME NEW E, NEW x, TensorOf(E, x), NEW target \in Seq(Int), Expand(x, target) # Refused
  PROVE  TensorOf(E, Expand(x, target))
<1> DEFINE s == x.shape
           out == Joined(s, target)
           at(o) == Dot(Walk(out, o), BcastStrides(s, out))
           data == [o \in 0 .. Product(out) - 1 |-> x.data[at(o)]]
<1>1. s \in Seq(Nat) /\ s \in Seq(Int) /\ x.data \in [0 .. Product(s) - 1 -> E]
  BY DEF TensorOf, Count
<1>2. Broadcastable(s, target) /\ Expand(x, target) = New(x.dtype, out, data)
  BY Zenon DEF Expand, Moved, Broadcast
<1> HIDE DEF s
<1>3. out \in Seq(Nat)
  BY <1>1, <1>2, JoinedIs, Zenon
<1>4. ASSUME NEW o \in 0 .. Product(out) - 1
      PROVE  at(o) \in 0 .. Product(s) - 1
  <2>1. \A d \in 1 .. Len(out) : out[d] # 0
    <3> HIDE DEF out
    <3>1. Product(out) \in Nat /\ (Product(out) >= 1 <=> \A d \in 1 .. Len(out) : out[d] >= 1)
      BY <1>3, ProductNat
    <3> QED BY <3>1
  <2>2. Len(out) \in Nat /\ Len(out) <= Len(out) /\ out \in Seq(Int)
    <3> HIDE DEF out
    <3> QED BY <1>3
  <2>3. \A d \in 1 .. Len(out) : Aligned(out, Len(out))[d] # 0
    <3> HIDE DEF out
    <3> QED BY <2>1, <2>2, AlignedSame
  <2>4. \A d \in 1 .. Len(out) : Len(s) <= Len(out) /\ Aligned(s, Len(out))[d] # 0
    BY <1>1, <1>2, <2>2, <2>3, JoinedKeeps, Zenon
  <2>5. Len(s) <= Len(out)
    BY <1>1, <1>2, JoinedShort, Zenon
  <2> HIDE DEF out, data
  <2> QED BY <1>1, <1>3, <2>4, <2>5, StretchedInside
<1>5. data \in [0 .. Product(out) - 1 -> E]
  <2> HIDE DEF out, at
  <2> QED BY <1>1, <1>4
<1> HIDE DEF out, data
<1> QED BY <1>2, <1>3, <1>5, NewTensor

\* A shape that is stretched to another one, in which there are elements.
StretchesTo(s, out) ==
  Len(s) <= Len(out) /\ \A d \in 1 .. Len(out) : Aligned(s, Len(out))[d] # 0

LEMMA StretchesSelf ==
  ASSUME NEW out \in Seq(Nat), NEW o \in 0 .. Product(out) - 1
  PROVE  StretchesTo(out, out)
<1>1. Product(out) \in Nat /\ (Product(out) >= 1 <=> \A d \in 1 .. Len(out) : out[d] >= 1)
  BY ProductNat
<1>2. \A d \in 1 .. Len(out) : out[d] # 0
  BY <1>1
<1>3. Len(out) <= Len(out) /\ \A d \in 1 .. Len(out) : Aligned(out, Len(out))[d] = out[d]
  BY AlignedSame
<1> QED BY <1>2, <1>3 DEF StretchesTo

LEMMA StretchesParts ==
  ASSUME NEW a \in Seq(Nat), NEW b \in Seq(Nat), Broadcastable(a, b), NEW out \in Seq(Nat),
         StretchesTo(Joined(a, b), out)
  PROVE  StretchesTo(a, out) /\ StretchesTo(b, out)
<1>1. a \in Seq(Int) /\ b \in Seq(Int) /\ Len(out) \in Nat
  OBVIOUS
<1>2. /\ Len(a) <= Len(Joined(a, b)) /\ Len(b) <= Len(Joined(a, b)) /\ Len(Joined(a, b)) <= Len(out)
      /\ Joined(a, b) \in Seq(Nat)
  BY <1>1, JoinedShort, JoinedIs, Zenon DEF StretchesTo
<1>3. Len(a) <= Len(out) /\ Len(b) <= Len(out)
  <2>1. Len(a) \in Nat /\ Len(b) \in Nat /\ Len(Joined(a, b)) \in Nat
    BY <1>2
  <2> QED BY <1>1, <1>2, <2>1
<1>4. \A d \in 1 .. Len(out) : Aligned(a, Len(out))[d] # 0 /\ Aligned(b, Len(out))[d] # 0
  BY <1>1, <1>2, JoinedKeeps, Zenon DEF StretchesTo
<1> QED BY <1>3, <1>4, Zenon DEF StretchesTo

\* Three tensors that are joined to one shape, in either order, are all read inside.
LEMMA ThreeStretched ==
  ASSUME NEW a \in Seq(Nat), NEW b \in Seq(Nat), NEW c \in Seq(Nat), Broadcastable(a, b),
         NEW out \in Seq(Nat),
         \/ Broadcastable(c, Joined(a, b)) /\ out = Joined(c, Joined(a, b))
         \/ Broadcastable(Joined(a, b), c) /\ out = Joined(Joined(a, b), c),
         NEW o \in 0 .. Product(out) - 1
  PROVE  /\ Dot(Walk(out, o), BcastStrides(a, out)) \in 0 .. Product(a) - 1
         /\ Dot(Walk(out, o), BcastStrides(b, out)) \in 0 .. Product(b) - 1
         /\ Dot(Walk(out, o), BcastStrides(c, out)) \in 0 .. Product(c) - 1
<1>1. StretchesTo(out, out)
  BY StretchesSelf
<1>2. Joined(a, b) \in Seq(Nat)
  <2>1. a \in Seq(Int) /\ b \in Seq(Int)
    OBVIOUS
  <2> QED BY <2>1, JoinedIs, Zenon
<1>3. StretchesTo(c, out) /\ StretchesTo(Joined(a, b), out)
  <2>1. CASE Broadcastable(c, Joined(a, b)) /\ out = Joined(c, Joined(a, b))
    <3>1. StretchesTo(Joined(c, Joined(a, b)), out)
      BY <1>1, <2>1, Zenon
    <3> QED BY <1>2, <2>1, <3>1, StretchesParts, Zenon
  <2>2. CASE Broadcastable(Joined(a, b), c) /\ out = Joined(Joined(a, b), c)
    <3>1. StretchesTo(Joined(Joined(a, b), c), out)
      BY <1>1, <2>2, Zenon
    <3> QED BY <1>2, <2>2, <3>1, StretchesParts, Zenon
  <2> QED BY <2>1, <2>2, Zenon
<1>4. StretchesTo(a, out) /\ StretchesTo(b, out)
  BY <1>3, StretchesParts, Zenon
<1>5. ASSUME NEW s \in Seq(Nat), StretchesTo(s, out)
      PROVE  Dot(Walk(out, o), BcastStrides(s, out)) \in 0 .. Product(s) - 1
  <2>1. Len(s) <= Len(out) /\ \A d \in 1 .. Len(out) : Aligned(s, Len(out))[d] # 0
    BY <1>5, Zenon DEF StretchesTo
  <2> QED BY <2>1, StretchedInside, Zenon
<1> QED BY <1>3, <1>4, <1>5, Zenon

\* A choice between two tensors reads both, and the condition, inside.
THEOREM WhereWithin ==
  ASSUME NEW E, NEW cond, NEW x, NEW y, NEW out, TensorOf(Int, cond), TensorOf(E, x), TensorOf(E, y),
         Where(cond, x, y, out) # Refused
  PROVE  /\ TensorOf(E, Where(cond, x, y, out))
         /\ \A o \in 0 .. Product(out) - 1 :
              Dot(Walk(out, o), BcastStrides(cond.shape, out)) \in DOMAIN cond.data
<1> DEFINE At(t, o) == Dot(Walk(out, o), BcastStrides(t.shape, out))
           data == [o \in 0 .. Product(out) - 1 |->
                      IF ToInt(cond)[At(cond, o)] # 0 THEN x.data[At(x, o)] ELSE y.data[At(y, o)]]
<1>1. /\ x.shape \in Seq(Nat) /\ x.data \in [0 .. Product(x.shape) - 1 -> E]
      /\ y.shape \in Seq(Nat) /\ y.data \in [0 .. Product(y.shape) - 1 -> E]
      /\ cond.shape \in Seq(Nat) /\ cond.data \in [0 .. Product(cond.shape) - 1 -> Int]
  BY DEF TensorOf, Count
<1>2. /\ Broadcastable(x.shape, y.shape) /\ Broadcastable(cond.shape, Joined(x.shape, y.shape))
      /\ out = Joined(cond.shape, Joined(x.shape, y.shape))
      /\ Where(cond, x, y, out) = New(x.dtype, out, data)
  BY Zenon DEF Where, Broadcast
<1>3. out \in Seq(Nat)
  <2>1. x.shape \in Seq(Int) /\ y.shape \in Seq(Int) /\ cond.shape \in Seq(Int)
    BY <1>1
  <2>2. Joined(x.shape, y.shape) \in Seq(Nat)
    BY <1>2, <2>1, JoinedIs, Zenon
  <2>3. Joined(x.shape, y.shape) \in Seq(Int)
    <3> DEFINE m == Joined(x.shape, y.shape)
    <3> HIDE DEF m
    <3>1. m \in Seq(Nat) => m \in Seq(Int)
      OBVIOUS
    <3> QED BY <2>2, <3>1 DEF m
  <2> QED BY <1>2, <2>1, <2>3, JoinedIs, Zenon
<1>4. ASSUME NEW o \in 0 .. Product(out) - 1
      PROVE  /\ At(cond, o) \in 0 .. Product(cond.shape) - 1
             /\ At(x, o) \in 0 .. Product(x.shape) - 1
             /\ At(y, o) \in 0 .. Product(y.shape) - 1
  BY <1>1, <1>2, <1>3, ThreeStretched, Zenon
<1>5. data \in [0 .. Product(out) - 1 -> E]
  <2> HIDE DEF At
  <2> QED BY <1>1, <1>4
<1>6. \A o \in 0 .. Product(out) - 1 : At(cond, o) \in DOMAIN cond.data
  <2> HIDE DEF At
  <2> QED BY <1>1, <1>4
<1> HIDE DEF data
<1> QED BY <1>2, <1>3, <1>5, <1>6, NewTensor

----------------------------------------------------------------------------
(* Elements by remainders, and lists put one behind the other.             *)

LEMMA RemainderIs ==
  ASSUME NEW m \in Nat, NEW s \in Nat, s >= 1, NEW q \in Nat, NEW c \in 0 .. s - 1, m = q * s + c
  PROVE  m \div s = q /\ m % s = c
OBVIOUS

LEMMA RemainderSmall ==
  ASSUME NEW m \in Nat, NEW s \in Nat, m < s
  PROVE  m % s = m
OBVIOUS

\* The remainder by a step, divided by the next one, is the coordinate.
LEMMA RemainderDivided ==
  ASSUME NEW o \in Nat, NEW r \in Nat, NEW s \in Nat, r >= 1, s >= 1
  PROVE  (o % (s * r)) \div r = (o \div r) % s
<1> DEFINE m == o \div r
           e == o % r
           q == m \div s
           c == m % s
<1>1. m \in Nat /\ e \in 0 .. r - 1 /\ o = m * r + e
  BY Division
<1> HIDE DEF m, e
<1>2. q \in Nat /\ c \in 0 .. s - 1 /\ m = q * s + c
  BY <1>1, Division
<1> HIDE DEF q, c
<1>3. c \in Nat /\ c <= s - 1 /\ c * r \in Nat /\ s * r \in Nat /\ s * r >= 1
  <2>1. c \in Nat /\ c <= s - 1
    BY <1>2
  <2> QED BY <2>1, MulNat
<1>4. c * r + e \in 0 .. s * r - 1
  <2>1. c * r <= (s - 1) * r
    BY <1>3, Scaled
  <2>2. (s - 1) * r = s * r - r
    BY PredecessorTimes
  <2> QED BY <1>1, <1>3, <2>1, <2>2
<1>5. o = q * (s * r) + (c * r + e)
  <2>1. (q * s + c) * r = (q * s) * r + c * r
    BY <1>2, <1>3, MulInt, Distributes
  <2>2. (q * s) * r = q * (s * r) /\ q * (s * r) \in Int
    BY <1>2, <1>3, Assoc, MulInt
  <2>3. m * r = q * (s * r) + c * r
    BY <1>2, <2>1, <2>2
  <2> QED BY <1>1, <1>3, <2>2, <2>3
<1>6. o % (s * r) = c * r + e
  BY <1>2, <1>3, <1>4, <1>5, RemainderIs
<1>7. (c * r + e) \div r = c
  <2>1. c * r + e \in Nat
    BY <1>1, <1>3
  <2> QED BY <1>1, <1>3, <2>1, RemainderIs
<1> QED BY <1>6, <1>7 DEF c, m

LEMMA AtLeastSame ==
  ASSUME NEW n \in Nat, n >= 1
  PROVE  AtLeastOne(n) = n
BY DEF AtLeastOne

\* The two kinds of loops that take an element apart, by dimensions and by steps, find
\* the same coordinates.
THEOREM UnwindIsWalk ==
  ASSUME NEW s \in Seq(Nat), NEW o \in 0 .. Product(s) - 1
  PROVE  Unwind(Strides(s), o) = Walk(s, o)
<1>1. PICK r : /\ r[0] = Product(s) /\ r[Len(s)] = 1
               /\ \A d \in 0 .. Len(s) : r[d] \in Nat /\ r[d] >= 1
               /\ \A d \in 1 .. Len(s) :
                     /\ s[d] \in Nat /\ s[d] >= 1 /\ r[d - 1] = s[d] * r[d]
                     /\ Strides(s)[d] = r[d]
                     /\ Walk(s, o)[d] = (o \div r[d]) % s[d]
  BY WalkIs, Zenon
<1>2. o \in Nat /\ o < Product(s) /\ Product(s) \in Nat
  <2>1. Product(s) \in Nat
    BY ProductNat
  <2> QED BY <2>1
<1>3. ASSUME NEW d \in 1 .. Len(s)
      PROVE  Unwind(Strides(s), o)[d] = Walk(s, o)[d]
  <2>1. d \in DOMAIN Strides(s) /\ (d # 1 => d - 1 \in 1 .. Len(s)) /\ d \in 0 .. Len(s) /\ d - 1 \in 0 .. Len(s)
    BY DEF Strides
  <2>2. Unwind(Strides(s), o)[d] =
          (IF d = 1 THEN o ELSE o % AtLeastOne(Strides(s)[d - 1])) \div AtLeastOne(Strides(s)[d])
    BY <2>1, Zenon DEF Unwind
  <2>3. AtLeastOne(Strides(s)[d]) = r[d] /\ r[d] \in Nat /\ r[d] >= 1
    BY <1>1, <2>1 DEF AtLeastOne
  <2>4. s[d] \in Nat /\ s[d] >= 1 /\ r[d - 1] = s[d] * r[d] /\ Walk(s, o)[d] = (o \div r[d]) % s[d]
    BY <1>1
  <2>5. (o % (s[d] * r[d])) \div r[d] = (o \div r[d]) % s[d]
    BY <1>2, <2>3, <2>4, RemainderDivided
  <2>6. CASE d = 1
    <3>1. o < r[d - 1] /\ r[d - 1] \in Nat /\ r[d - 1] >= 1
      BY <1>1, <1>2, <2>1, <2>6
    <3>2. o % r[d - 1] = o
      BY <1>2, <3>1, RemainderSmall
    <3>3. Unwind(Strides(s), o)[d] = o \div r[d]
      BY <2>2, <2>3, <2>6, Zenon
    <3>4. o % (s[d] * r[d]) = o
      BY <2>4, <3>2, Zenon
    <3> QED BY <2>4, <2>5, <3>3, <3>4, Zenon
  <2>7. CASE d # 1
    <3>1. AtLeastOne(Strides(s)[d - 1]) = r[d - 1]
      BY <1>1, <2>1, <2>7, AtLeastSame, Zenon
    <3> QED BY <2>2, <2>3, <2>4, <2>5, <2>7, <3>1
  <2> QED BY <2>6, <2>7
<1>4. DOMAIN Strides(s) = DOMAIN s /\ DOMAIN s = 1 .. Len(s)
  BY DEF Strides
<1>5. /\ Unwind(Strides(s), o) = [d \in 1 .. Len(s) |-> Unwind(Strides(s), o)[d]]
      /\ Walk(s, o) = [d \in 1 .. Len(s) |-> Walk(s, o)[d]]
  BY <1>4 DEF Unwind, Walk
<1>6. [d \in 1 .. Len(s) |-> Unwind(Strides(s), o)[d]] = [d \in 1 .. Len(s) |-> Walk(s, o)[d]]
  BY <1>3
<1> QED BY <1>5, <1>6

\* A tensor that is validated holds an element for every position of its shape.
LEMMA SizeIs ==
  ASSUME NEW E, NEW x, TensorOf(E, x)
  PROVE  Size(x) = Count(x) /\ Count(x) \in Nat /\ DOMAIN x.data = 0 .. Count(x) - 1
<1>1. Count(x) \in Nat
  BY ProductNat DEF TensorOf, Count
<1>2. DOMAIN x.data = 0 .. Count(x) - 1
  BY DEF TensorOf
<1>3. Cardinality(0 .. Count(x) - 1) = Count(x)
  BY <1>1, FS_Interval
<1> QED BY <1>1, <1>2, <1>3 DEF Size

\* Gathering by elements reads where the indices point, if the other dimensions of the
\* indices are not larger than those of the operand.
THEOREM GatherElementsWithin ==
  ASSUME NEW E, NEW x, TensorOf(E, x), NEW indices, TensorOf(Int, indices), NEW axis \in Int,
         \A d \in 1 .. Rank(x) : d # Axis(axis, Rank(x)) => indices.shape[d] <= x.shape[d],
         GatherElements(x, indices, axis) # Refused
  PROVE  TensorOf(E, GatherElements(x, indices, axis))
<1> DEFINE s == x.shape
           n == Len(s)
           a == Axis(axis, n)
           out == indices.shape
           index == Indices(indices, s[a])
           at(o) == [Unwind(Strides(out), o) EXCEPT ![a] = index[o]]
           data == [o \in 0 .. Product(out) - 1 |-> x.data[Dot(at(o), Strides(s))]]
<1>1. /\ s \in Seq(Nat) /\ x.data \in [0 .. Product(s) - 1 -> E] /\ out \in Seq(Nat)
      /\ n \in Nat /\ DOMAIN s = 1 .. n /\ DOMAIN out = 1 .. Len(out)
  BY DEF TensorOf, Count
<1>2. /\ Len(out) = n /\ IsAxis(axis, n) /\ InRange(indices, s[a])
      /\ GatherElements(x, indices, axis) = New(x.dtype, out, data)
  BY Zenon DEF GatherElements, Moved, Rank
<1>3. DOMAIN indices.data = 0 .. Product(out) - 1
  BY SizeIs, Zenon DEF Count
<1>4. \A o \in 0 .. Product(out) - 1 : index[o] \in 0 .. s[a] - 1
  BY <1>2, <1>3, Zenon DEF InRange
<1>5. a \in 1 .. n
  <2> HIDE DEF n
  <2> QED BY <1>1, <1>2 DEF IsAxis, Axis
<1>6. ASSUME NEW o \in 0 .. Product(out) - 1
      PROVE  Dot(at(o), Strides(s)) \in 0 .. Product(s) - 1
  <2> DEFINE c == at(o)
             w == Walk(out, o)
  <2>0. Unwind(Strides(out), o) = w
    <3> HIDE DEF out
    <3> QED BY <1>1, UnwindIsWalk
  <2>1. DOMAIN w = 1 .. n
    BY <1>1, <1>2 DEF Walk
  <2>2. DOMAIN c = 1 .. n /\ \A d \in 1 .. n : c[d] = IF d = a THEN index[o] ELSE w[d]
    <3>1. c = [w EXCEPT ![a] = index[o]]
      BY <2>0
    <3> HIDE DEF c, w, index, a, n
    <3> QED BY <2>1, <3>1
  <2>3. \A d \in 1 .. n : w[d] \in 0 .. out[d] - 1
    <3> HIDE DEF out, n
    <3> QED BY <1>1, <1>2, WalkInside
  <2>4. \A d \in 1 .. n : d # a => out[d] <= s[d]
    BY DEF Rank
  <2> HIDE DEF c, w, at, index, data, a
  <2>5. \A d \in 1 .. n : c[d] \in 0 .. s[d] - 1
    <3>1. \A d \in 1 .. n : s[d] \in Nat /\ out[d] \in Nat
      <4>1. Len(out) = n
        BY <1>2, Zenon
      <4> HIDE DEF s, out, n
      <4> QED BY <1>1, <4>1
    <3> HIDE DEF s, out, n
    <3> SUFFICES ASSUME NEW d \in 1 .. n
                 PROVE  c[d] \in 0 .. s[d] - 1
      OBVIOUS
    <3>2. CASE d = a
      <4>1. c[d] = index[o]
        BY <2>2, <3>2, Zenon
      <4> QED BY <1>4, <3>2, <4>1
    <3>3. CASE d # a
      <4>1. c[d] = w[d] /\ w[d] \in 0 .. out[d] - 1 /\ out[d] <= s[d] /\ s[d] \in Nat /\ out[d] \in Nat
        BY <2>2, <2>3, <2>4, <3>1, <3>3, Zenon
      <4> QED BY <4>1
    <3> QED BY <3>2, <3>3
  <2> HIDE DEF s
  <2> QED BY <1>1, <2>2, <2>5, OffsetInside DEF c, n
<1>7. data \in [0 .. Product(out) - 1 -> E]
  <2> HIDE DEF out, at
  <2> QED BY <1>1, <1>6
<1> HIDE DEF out, data
<1> QED BY <1>1, <1>2, <1>7, NewTensor

\* A list behind a list counts the product of both.
LEMMA ProductJoins ==
  ASSUME NEW s \in Seq(Nat), NEW t \in Seq(Nat)
  PROVE  s \o t \in Seq(Nat) /\ Product(s \o t) = Product(s) * Product(t)
<1> DEFINE u == s \o t
           k == Len(s)
<1>1. u \in Seq(Nat) /\ k \in 0 .. Len(u)
  OBVIOUS
<1>2. SubSeq(u, 1, k) = s /\ SubSeq(u, k + 1, Len(u)) = t
  OBVIOUS
<1> HIDE DEF u, k
<1>3. PICK p : /\ Partials(p, "times", 1, u, Len(u)) /\ Product(u) = p[Len(u)]
               /\ \A i \in 0 .. Len(u) : /\ Product(SubSeq(u, 1, i)) = p[i]
                                         /\ Product(SubSeq(u, i + 1, Len(u))) \in Nat
                                         /\ Product(u) = p[i] * Product(SubSeq(u, i + 1, Len(u)))
  BY <1>1, PrefixProducts
<1>4. Product(u) = p[k] * Product(t) /\ p[k] = Product(s)
  BY <1>1, <1>2, <1>3, Zenon
<1> QED BY <1>1, <1>4 DEF u

\* What a shape counts before an axis, along it and behind it.
LEMMA AxisProduct ==
  ASSUME NEW s \in Seq(Nat), NEW a \in 1 .. Len(s)
  PROVE  /\ Before(s, a) \in Seq(Nat) /\ After(s, a) \in Seq(Nat)
         /\ Product(Before(s, a)) \in Nat /\ Product(After(s, a)) \in Nat /\ s[a] \in Nat
         /\ Product(s) = Product(Before(s, a)) * (s[a] * Product(After(s, a)))
<1> DEFINE n == Len(s)
           A == Product(SubSeq(s, a + 1, n))
<1>1. PICK p : /\ Partials(p, "times", 1, s, n) /\ Product(s) = p[n]
               /\ \A i \in 0 .. n : /\ Product(SubSeq(s, 1, i)) = p[i]
                                    /\ Product(SubSeq(s, i + 1, n)) \in Nat
                                    /\ Product(s) = p[i] * Product(SubSeq(s, i + 1, n))
  BY PrefixProducts
<1>2. Before(s, a) \in Seq(Nat) /\ After(s, a) \in Seq(Nat) /\ s[a] \in Nat
  BY DEF Before, After
<1>3. Product(Before(s, a)) \in Nat /\ Product(After(s, a)) \in Nat
  BY <1>2, ProductNat
<1>4. a - 1 \in 0 .. n /\ a \in 0 .. n /\ a # 0
  OBVIOUS
<1>5. p[a] = p[a - 1] * s[a]
  <2> HIDE DEF n
  <2>1. Partials(p, "times", 1, s, n)
    BY <1>1
  <2> QED BY <1>4, <2>1 DEF Partials, Took
<1>6. Product(Before(s, a)) = p[a - 1] /\ Product(s) = p[a] * A /\ Product(After(s, a)) = A
  <2>1. Product(SubSeq(s, 1, a - 1)) = p[a - 1] /\ Product(s) = p[a] * Product(SubSeq(s, a + 1, n))
    <3> HIDE DEF n
    <3> QED BY <1>1, <1>4, Zenon
  <2> QED BY <2>1, Zenon DEF Before, After
<1> HIDE DEF A
<1>7. (p[a - 1] * s[a]) * A = p[a - 1] * (s[a] * A)
  BY <1>2, <1>3, <1>6, Assoc
<1> QED BY <1>2, <1>3, <1>5, <1>6, <1>7

LEMMA AxisInside ==
  ASSUME NEW axis \in Int, NEW n \in Nat, IsAxis(axis, n)
  PROVE  Axis(axis, n) \in 1 .. n
BY DEF IsAxis, Axis

LEMMA QuotientBelow ==
  ASSUME NEW o \in Nat, NEW t \in Nat, t >= 1, NEW b \in Nat, o < b * t
  PROVE  o \div t \in 0 .. b - 1
<1> DEFINE q == o \div t
<1>1. q \in Nat /\ o % t \in 0 .. t - 1 /\ o = q * t + (o % t)
  BY Division
<1> HIDE DEF q
<1>2. q * t \in Int /\ b * t \in Int /\ q * t <= o
  BY <1>1, MulInt
<1>3. b <= q => b * t <= q * t
  BY <1>1, Scaled
<1>4. q < b
  BY <1>1, <1>2, <1>3
<1> QED BY <1>1, <1>4 DEF q

\* A row, a position along the axis and an element behind it are inside the three together.
LEMMA ThreeParts ==
  ASSUME NEW b \in Nat, NEW c \in Nat, NEW t \in Nat,
         NEW h \in 0 .. b - 1, NEW i \in 0 .. c - 1, NEW e \in 0 .. t - 1
  PROVE  h * (c * t) + i * t + e \in 0 .. b * (c * t) - 1
<1> DEFINE m == c * t
<1>1. h \in Nat /\ h <= b - 1 /\ i \in Nat /\ i <= c - 1 /\ e \in Nat /\ e <= t - 1
  OBVIOUS
<1>2. m \in Nat /\ i * t \in Nat
  BY <1>1, MulNat
<1>3. i * t <= (c - 1) * t /\ (c - 1) * t = c * t - t
  <2>1. i * t <= (c - 1) * t
    BY <1>1, Scaled
  <2> QED BY <2>1, PredecessorTimes
<1>4. i * t + e <= m - 1
  BY <1>1, <1>2, <1>3
<1> HIDE DEF m
<1>5. h * m <= (b - 1) * m /\ (b - 1) * m = b * m - m /\ h * m \in Nat /\ b * m \in Nat
  <2>1. h * m <= (b - 1) * m
    BY <1>1, <1>2, Scaled
  <2> QED BY <1>1, <1>2, <2>1, PredecessorTimes, MulNat
<1>6. h * m + i * t + e \in 0 .. b * m - 1
  BY <1>1, <1>2, <1>4, <1>5
<1> QED BY <1>6 DEF m

\* The element of the operand that is gathered to a place.
GatheredFrom(x, indices, a, count, o) ==
  LET inner == Inner(x, a)
  IN (o \div (inner * count)) * (x.shape[a] * inner)
       + Indices(indices, x.shape[a])[(o \div inner) % count] * inner + (o % inner)

\* Gathering along an axis reads rows inside the operand, as far as the indices, counted
\* from the end where they are negative, are in range.
LEMMA GatherReads ==
  ASSUME NEW x, x.shape \in Seq(Nat), NEW indices, TensorOf(Int, indices), NEW axis \in Int,
         IsAxis(axis, Rank(x)), InRange(indices, x.shape[Axis(axis, Rank(x))])
  PROVE  LET a   == Axis(axis, Rank(x))
             out == Before(x.shape, a) \o indices.shape \o After(x.shape, a)
         IN /\ out \in Seq(Nat)
            /\ \A o \in 0 .. Product(out) - 1 :
                 /\ AtLeastOne(Size(indices)) = Size(indices)
                 /\ GatheredFrom(x, indices, a, Size(indices), o) \in 0 .. Product(x.shape) - 1
<1> DEFINE s == x.shape
           n == Len(s)
           a == Axis(axis, n)
           inner == Inner(x, a)
           count == Size(indices)
           before == Before(s, a)
           after == After(s, a)
           out == before \o indices.shape \o after
           index == Indices(indices, s[a])
           at(o) == (o \div (inner * count)) * (s[a] * inner)
                      + index[(o \div inner) % count] * inner + (o % inner)
<1>1. s \in Seq(Nat) /\ n \in Nat /\ indices.shape \in Seq(Nat)
  BY DEF TensorOf, Count
<1>2. IsAxis(axis, n) /\ InRange(indices, s[a])
  BY Zenon DEF Rank
<1>3. a \in 1 .. n
  BY <1>1, <1>2, AxisInside, Zenon
<1>4. /\ before \in Seq(Nat) /\ after \in Seq(Nat)
      /\ Product(before) \in Nat /\ Product(after) \in Nat /\ s[a] \in Nat
      /\ Product(s) = Product(before) * (s[a] * Product(after))
  <2> HIDE DEF s, a
  <2> QED BY <1>1, <1>3, AxisProduct DEF n
<1>5. count = Product(indices.shape) /\ count \in Nat /\ DOMAIN indices.data = 0 .. count - 1
  BY SizeIs, Zenon DEF Count
<1>6. out \in Seq(Nat) /\ Product(out) = (Product(before) * count) * Product(after)
  <2>1. /\ before \o indices.shape \in Seq(Nat)
        /\ Product(before \o indices.shape) = Product(before) * count
    <3> HIDE DEF before, count
    <3> QED BY <1>1, <1>4, <1>5, ProductJoins
  <2> HIDE DEF before, count, after
  <2> QED BY <1>4, <2>1, ProductJoins
<1>7. inner = AtLeastOne(Product(after))
  BY DEF Inner
<1>8. \A i \in 0 .. count - 1 : index[i] \in 0 .. s[a] - 1
  BY <1>2, <1>5, Zenon DEF InRange
<1> HIDE DEF inner, count, before, after, out, index, s, a
<1>9. ASSUME NEW o \in 0 .. Product(out) - 1
      PROVE  at(o) \in 0 .. Product(s) - 1
  <2> DEFINE B == Product(before)
             A == Product(after)
  <2>1. B \in Nat /\ A \in Nat /\ B * count \in Nat /\ (B * count) * A \in Nat
    <3>1. B \in Nat /\ A \in Nat
      BY <1>4
    <3> QED BY <1>5, <3>1, MulNat
  <2>2. o \in Nat /\ o < (B * count) * A /\ (B * count) * A >= 1
    <3> DEFINE total == (B * count) * A
    <3>1. o \in 0 .. total - 1 /\ total \in Nat
      BY <1>6, <2>1, Zenon
    <3> HIDE DEF total
    <3>2. o \in Nat /\ o < total /\ total >= 1
      BY <3>1
    <3> QED BY <3>2, Zenon DEF total
  <2>3. A >= 1 /\ count >= 1
    <3> HIDE DEF A, B
    <3> QED BY <1>5, <2>1, <2>2, MulNat
  <2>4. inner = A
    BY <1>7, <2>1, <2>3 DEF AtLeastOne
  <2> HIDE DEF A, B
  <2>5. A * count \in Nat /\ A * count >= 1 /\ (B * count) * A = B * (A * count)
    <3>1. B \in Int /\ count \in Int /\ A \in Int
      BY <1>5, <2>1, NatIsInt, Zenon
    <3> HIDE DEF A, B
    <3>2. (B * count) * A = B * (count * A)
      BY <3>1, Assoc
    <3>3. count * A = A * count
      BY <3>1, TimesSwap
    <3>4. A * count \in Nat /\ A * count >= 1
      BY <1>5, <2>1, <2>3, MulNat, Zenon
    <3> QED BY <3>2, <3>3, <3>4, Zenon
  <2>6. o \div (A * count) \in 0 .. B - 1
    BY <2>1, <2>2, <2>5, QuotientBelow
  <2>7. o \div A \in Nat /\ o % A \in 0 .. A - 1
    BY <2>1, <2>2, <2>3, Division
  <2>8. (o \div A) % count \in 0 .. count - 1
    BY <1>5, <2>3, <2>7, Division
  <2>9. index[(o \div A) % count] \in 0 .. s[a] - 1
    BY <1>8, <2>8
  <2>10. (o \div (A * count)) * (s[a] * A) + index[(o \div A) % count] * A + (o % A)
           \in 0 .. B * (s[a] * A) - 1
    BY <1>4, <2>1, <2>6, <2>7, <2>9, ThreeParts
  <2> QED BY <1>4, <2>4, <2>10 DEF A, B
<1>10. ASSUME NEW o
       PROVE  GatheredFrom(x, indices, a, count, o) = at(o)
  BY Zenon DEF GatheredFrom, inner, index, s
<1>11. ASSUME NEW o \in 0 .. Product(out) - 1
       PROVE  AtLeastOne(count) = count
  <2>1. Product(before) * count \in Nat
    BY <1>4, <1>5, MulNat
  <2>2. (Product(before) * count) * Product(after) \in Nat
    BY <1>4, <2>1, MulNat
  <2>3. (Product(before) * count) * Product(after) >= 1
    BY <1>6, <2>2
  <2>4. count >= 1
    BY <1>4, <1>5, <2>1, <2>3, MulNat
  <2> QED BY <1>5, <2>4 DEF AtLeastOne
<1>12. \A o \in 0 .. Product(out) - 1 :
         /\ AtLeastOne(count) = count
         /\ GatheredFrom(x, indices, a, count, o) \in 0 .. Product(s) - 1
  <2> HIDE DEF at
  <2> QED BY <1>9, <1>10, <1>11
<1> QED BY <1>6, <1>12, Zenon DEF out, before, after, count, s, a, n, Rank

\* Gathering on the host, which refuses indices out of range, reads inside the operand.
THEOREM GatherWithin ==
  ASSUME NEW E, NEW x, TensorOf(E, x), NEW indices, TensorOf(Int, indices), NEW axis \in Int,
         Gather(x, indices, axis) # Refused
  PROVE  TensorOf(E, Gather(x, indices, axis))
<1> DEFINE a == Axis(axis, Rank(x))
           out == Before(x.shape, a) \o indices.shape \o After(x.shape, a)
           data == [o \in 0 .. Product(out) - 1 |-> x.data[GatheredFrom(x, indices, a, Size(indices), o)]]
<1>1. x.shape \in Seq(Nat) /\ x.data \in [0 .. Product(x.shape) - 1 -> E]
  BY DEF TensorOf, Count
<1>2. /\ IsAxis(axis, Rank(x)) /\ InRange(indices, x.shape[a])
      /\ Gather(x, indices, axis) = New(x.dtype, out, data)
  BY Zenon DEF Gather, Moved, GatheredFrom
<1>3. /\ out \in Seq(Nat)
      /\ \A o \in 0 .. Product(out) - 1 :
           GatheredFrom(x, indices, a, Size(indices), o) \in 0 .. Product(x.shape) - 1
  BY <1>1, <1>2, GatherReads, Zenon
<1> HIDE DEF out
<1>4. data \in [0 .. Product(out) - 1 -> E]
  BY <1>1, <1>3
<1> HIDE DEF data
<1> QED BY <1>2, <1>3, <1>4, NewTensor

\* The first entries of a list of sizes, added up, do not shrink.
LEMMA SumsGrow ==
  ASSUME NEW t, NEW e, NEW n \in Nat, Partials(t, "plus", 0, e, n), \A d \in 1 .. n : e[d] \in Nat
  PROVE  /\ \A k \in 0 .. n : t[k] \in Nat
         /\ \A k \in 1 .. n : t[k] = t[k - 1] + e[k]
         /\ t[0] = 0
         /\ \A j \in 0 .. n, k \in 0 .. n : j <= k => t[j] <= t[k]
<1>1. t[0] = 0 /\ \A k \in 1 .. n : t[k] = t[k - 1] + e[k]
  <2>1. \A k \in 0 .. n : t[k] = IF k = 0 THEN 0 ELSE t[k - 1] + e[k]
    BY DEF Partials, Took
  <2> QED BY <2>1
<1> DEFINE T == {k \in Nat : k \in 0 .. n => t[k] \in Nat /\ \A j \in 0 .. k : t[j] \in Nat /\ t[j] <= t[k]}
<1>2. 0 \in T
  BY <1>1
<1>3. ASSUME NEW k \in 1 .. n, k - 1 \in T
      PROVE  k \in T
  <2>1. t[k - 1] \in Nat /\ \A j \in 0 .. k - 1 : t[j] \in Nat /\ t[j] <= t[k - 1]
    BY <1>3
  <2>2. t[k] \in Nat /\ t[k - 1] <= t[k]
    BY <1>1, <2>1
  <2>3. \A j \in 0 .. k : j = k \/ j \in 0 .. k - 1
    OBVIOUS
  <2>4. \A j \in 0 .. k : t[j] \in Nat /\ t[j] <= t[k]
    BY <2>1, <2>2, <2>3
  <2> QED BY <2>2, <2>4
<1>4. 0 .. n \subseteq T
  <2>1. T \in SUBSET Nat
    OBVIOUS
  <2> HIDE DEF T
  <2> QED BY <1>2, <1>3, <2>1, CountsUpTo
<1>5. \A k \in 0 .. n : t[k] \in Nat /\ \A j \in 0 .. k : t[j] <= t[k]
  BY <1>4
<1>6. \A j \in 0 .. n, k \in 0 .. n : j <= k => j \in 0 .. k
  OBVIOUS
<1> QED BY <1>1, <1>5, <1>6

\* The pieces of lengths e, starting at t, that are not empty and start at p or before.
StartedBy(p, t, e, n) == {i \in 1 .. n : t[i - 1] <= p /\ e[i] > 0}

\* The piece that a position of a joined list lies in: the last of those that start at
\* it or before and are not empty.
LEMMA PieceFound ==
  ASSUME NEW t, NEW e, NEW n \in Nat, Partials(t, "plus", 0, e, n), \A d \in 1 .. n : e[d] \in Nat,
         NEW p \in Nat, p < t[n]
  PROVE  \E j \in 1 .. n : Max(StartedBy(p, t, e, n)) = j /\ p - t[j - 1] \in 0 .. e[j] - 1
<1>1. /\ \A k \in 0 .. n : t[k] \in Nat
      /\ \A k \in 1 .. n : t[k] = t[k - 1] + e[k]
      /\ t[0] = 0
      /\ \A j \in 0 .. n, k \in 0 .. n : j <= k => t[j] <= t[k]
  BY SumsGrow, Zenon
<1> DEFINE T == {k \in 0 .. n : p < t[k]}
           S == StartedBy(p, t, e, n)
<1>2. PICK k \in T : \A i \in T : k <= i
  <2>1. T \in SUBSET Nat /\ n \in T
    OBVIOUS
  <2> HIDE DEF T
  <2> QED BY <2>1, LeastNatural
<1>3. k \in 1 .. n /\ k - 1 \in 0 .. n
  BY <1>1, <1>2
<1>4. k - 1 \notin T
  <2> HIDE DEF T
  <2> QED BY <1>2, <1>3
<1>5. t[k - 1] <= p /\ p < t[k] /\ e[k] \in Nat /\ t[k] = t[k - 1] + e[k] /\ t[k - 1] \in Nat
  BY <1>1, <1>2, <1>3, <1>4
<1>6. k \in S
  BY <1>3, <1>5 DEF StartedBy
<1>7. \A i \in S : k >= i /\ i \in Int
  <2> SUFFICES ASSUME NEW i \in S, ~(k >= i)
               PROVE  FALSE
    BY DEF StartedBy
  <2>1. i \in 1 .. n /\ i - 1 \in 0 .. n /\ k <= i - 1 /\ t[i - 1] <= p /\ k \in 0 .. n
    BY <1>3 DEF StartedBy
  <2>2. t[k] <= t[i - 1] /\ t[k] \in Nat /\ t[i - 1] \in Nat
    BY <1>1, <2>1
  <2> QED BY <1>5, <2>1, <2>2
<1> HIDE DEF S
<1>8. Max(S) = k
  BY <1>6, <1>7, LargestIs
<1> QED BY <1>3, <1>5, <1>8 DEF S

LEMMA SidesAgree ==
  ASSUME NEW s \in Seq(Nat), NEW b \in Seq(Nat), Len(s) = Len(b), NEW a \in 1 .. Len(b),
         \A d \in 1 .. Len(b) : d = a \/ s[d] = b[d]
  PROVE  Before(s, a) = Before(b, a) /\ After(s, a) = After(b, a)
<1>1. Before(s, a) = Before(b, a)
  BY DEF Before
<1>2. After(s, a) = After(b, a)
  BY DEF After
<1> QED BY <1>1, <1>2

\* Joined along an axis, every position is read of the operand it comes from, empty
\* operands included.
THEOREM ConcatWithin ==
  ASSUME NEW E, NEW S, NEW inputs \in Seq(S), NEW axis \in Int,
         \A j \in DOMAIN inputs : TensorOf(E, inputs[j]),
         Concat(inputs, axis) # Refused
  PROVE  TensorOf(E, Concat(inputs, axis))
<1> DEFINE base == inputs[1].shape
           n == Len(inputs)
           a == Axis(axis, Len(base))
           e == [j \in 1 .. n |-> inputs[j].shape[a]]
           offset(j) == Total([i \in 1 .. j - 1 |-> inputs[i].shape[a]])
           length == offset(Len(inputs) + 1)
           inner == Product(After(base, a))
           out == [base EXCEPT ![a] = length]
           p(o) == (o \div inner) % length
           pieces(o) == {j \in DOMAIN inputs : offset(j) <= p(o) /\ inputs[j].shape[a] > 0}
           place(o, j) == (o \div (inner * length)) * (inputs[j].shape[a] * inner)
                            + (p(o) - offset(j)) * inner + (o % inner)
           data == [o \in 0 .. Product(out) - 1 |->
                      inputs[Max(pieces(o))].data[place(o, Max(pieces(o)))]]
<1>1. /\ inputs # <<>> /\ IsAxis(axis, Len(base))
      /\ \A j \in DOMAIN inputs :
           Rank(inputs[j]) = Len(base) /\ \A d \in DOMAIN base : d = a \/ inputs[j].shape[d] = base[d]
      /\ Concat(inputs, axis) = New(inputs[1].dtype, out, data)
  BY Zenon DEF Concat, Tabulate
<1>2. n \in Nat /\ DOMAIN inputs = 1 .. n /\ 1 \in 1 .. n
  <2>1. inputs # <<>>
    BY <1>1
  <2> QED BY <2>1
<1>3. \A j \in 1 .. n : /\ inputs[j].shape \in Seq(Nat)
                        /\ inputs[j].data \in [0 .. Product(inputs[j].shape) - 1 -> E]
  BY <1>2, Zenon DEF TensorOf, Count
<1>4. base \in Seq(Nat) /\ Len(base) \in Nat /\ DOMAIN base = 1 .. Len(base)
  <2>1. base \in Seq(Nat)
    BY <1>2, <1>3
  <2> HIDE DEF base
  <2> QED BY <2>1
<1>5. a \in 1 .. Len(base)
  <2>1. IsAxis(axis, Len(base))
    BY <1>1, Zenon
  <2> HIDE DEF base
  <2> QED BY <1>4, <2>1 DEF IsAxis, Axis
<1> DEFINE B == Product(Before(base, a))
           A == Product(After(base, a))
<1>6. ASSUME NEW j \in 1 .. n
      PROVE  /\ inputs[j].shape[a] \in Nat
             /\ Product(inputs[j].shape) = B * (inputs[j].shape[a] * A)
  <2> DEFINE s == inputs[j].shape
  <2>1. s \in Seq(Nat) /\ Len(s) = Len(base) /\ \A d \in 1 .. Len(base) : d = a \/ s[d] = base[d]
    BY <1>1, <1>2, <1>3, <1>4 DEF Rank
  <2> HIDE DEF s, a, base
  <2>2. Before(s, a) = Before(base, a) /\ After(s, a) = After(base, a)
    BY <1>4, <1>5, <2>1, SidesAgree
  <2>3. s[a] \in Nat /\ Product(s) = Product(Before(s, a)) * (s[a] * Product(After(s, a)))
    BY <1>5, <2>1, AxisProduct
  <2> QED BY <2>2, <2>3 DEF s
<1>7. B \in Nat /\ A \in Nat
  <2> HIDE DEF a, base
  <2> QED BY <1>4, <1>5, AxisProduct
<1>8. DOMAIN e = 1 .. n /\ \A j \in 1 .. n : e[j] = inputs[j].shape[a] /\ e[j] \in Nat
  <2> HIDE DEF a
  <2> QED BY <1>6
<1>9. PICK t : Partials(t, "plus", 0, e, n) /\ Total(e) = t[n]
  <2> HIDE DEF e, n
  <2> QED BY <1>2, <1>8, TotalIs
<1>10. ASSUME NEW j \in 1 .. n + 1
       PROVE  offset(j) = t[j - 1]
  <2> DEFINE u == [i \in 1 .. j - 1 |-> inputs[i].shape[a]]
  <2>1. /\ DOMAIN u = 1 .. j - 1 /\ j - 1 \in Nat /\ j - 1 <= n /\ j - 1 \in 0 .. j - 1
        /\ \A i \in 1 .. j - 1 : u[i] = e[i]
    <3> HIDE DEF a
    <3> QED BY <1>2
  <2> HIDE DEF u, e, n
  <2>2. PICK q : Partials(q, "plus", 0, u, j - 1) /\ Total(u) = q[j - 1]
    BY <2>1, TotalIs
  <2>3. Partials(t, "plus", 0, e, n)
    BY <1>9
  <2>4. \A k \in 0 .. j - 1 : t[k] = q[k]
    BY <1>2, <2>1, <2>2, <2>3, PartialsAgree
  <2> QED BY <2>1, <2>2, <2>4 DEF u
<1>11. length = t[n] /\ length \in Nat
  <2>1. n + 1 \in 1 .. n + 1 /\ n + 1 - 1 = n /\ n \in 0 .. n
    BY <1>2
  <2>2. offset(n + 1) = t[n]
    <3> HIDE DEF offset, n
    <3> QED BY <1>10, <2>1
  <2>3. Partials(t, "plus", 0, e, n) /\ \A j \in 1 .. n : e[j] \in Nat
    BY <1>8, <1>9
  <2> HIDE DEF offset, e, n
  <2>4. \A k \in 0 .. n : t[k] \in Nat
    BY <1>2, <2>3, SumsGrow
  <2> QED BY <2>1, <2>2, <2>4 DEF n
<1> HIDE DEF length
<1>12. out \in Seq(Nat) /\ Product(out) = B * (length * A)
  <2> HIDE DEF base, a
  <2>1. out \in Seq(Nat) /\ Len(out) = Len(base)
    BY <1>4, <1>5, <1>11
  <2>2. out[a] = length /\ \A d \in 1 .. Len(base) : d = a \/ out[d] = base[d]
    BY <1>4, <1>5
  <2> HIDE DEF out
  <2>3. Before(out, a) = Before(base, a) /\ After(out, a) = After(base, a)
    BY <1>4, <1>5, <2>1, <2>2, SidesAgree
  <2>4. Product(out) = Product(Before(out, a)) * (out[a] * Product(After(out, a)))
    BY <1>5, <2>1, AxisProduct
  <2> QED BY <2>1, <2>2, <2>3, <2>4
<1>13. inner = A
  OBVIOUS
<1> HIDE DEF B, A, inner
<1>14. ASSUME NEW o \in 0 .. Product(out) - 1
       PROVE  LET j == Max(pieces(o)) IN
              j \in 1 .. n /\ place(o, j) \in 0 .. Product(inputs[j].shape) - 1
  <2> HIDE DEF a, base, out
  <2>1. length * A \in Nat /\ B * (length * A) \in Nat
    BY <1>7, <1>11, MulNat
  <2>2. o \in Nat /\ o < B * (length * A) /\ B * (length * A) >= 1
    BY <1>12, <2>1
  <2>3. length >= 1 /\ A >= 1
    <3>1. length * A >= 1
      BY <1>7, <2>1, <2>2, MulNat
    <3> QED BY <1>7, <1>11, <3>1, MulNat
  <2>4. o \div A \in Nat /\ o % A \in 0 .. A - 1
    BY <1>7, <2>2, <2>3, Division
  <2>5. p(o) \in 0 .. length - 1
    BY <1>11, <1>13, <2>3, <2>4, Division
  <2>6. o \div (A * length) \in 0 .. B - 1
    <3>1. A * length = length * A /\ length * A >= 1
      BY <1>7, <1>11, <2>3, MulNat
    <3> QED BY <1>7, <2>1, <2>2, <3>1, QuotientBelow
  <2> HIDE DEF p
  <2>7. pieces(o) = StartedBy(p(o), t, e, n)
    <3>1. \A i \in 1 .. n : offset(i) = t[i - 1]
      <4> HIDE DEF offset
      <4> QED BY <1>2, <1>10
    <3> HIDE DEF offset, e
    <3> QED BY <1>2, <1>8, <3>1 DEF StartedBy
  <2>8. PICK j \in 1 .. n : /\ Max(StartedBy(p(o), t, e, n)) = j
                            /\ p(o) - t[j - 1] \in 0 .. e[j] - 1
    <3>1. p(o) \in Nat /\ p(o) < t[n]
      BY <1>11, <2>5
    <3>2. Partials(t, "plus", 0, e, n) /\ \A i \in 1 .. n : e[i] \in Nat
      BY <1>8, <1>9
    <3> HIDE DEF e, n
    <3> QED BY <1>2, <3>1, <3>2, PieceFound
  <2> HIDE DEF pieces
  <2>9. offset(j) = t[j - 1]
    <3> HIDE DEF offset
    <3> QED BY <1>2, <1>10, <2>8
  <2> HIDE DEF offset, e
  <2>10. place(o, j) = (o \div (A * length)) * (e[j] * A) + (p(o) - t[j - 1]) * A + (o % A)
    BY <1>8, <1>13, <2>8, <2>9
  <2>11. (o \div (A * length)) * (e[j] * A) + (p(o) - t[j - 1]) * A + (o % A)
           \in 0 .. B * (e[j] * A) - 1
    <3>1. e[j] \in Nat
      BY <1>8, <2>8
    <3> HIDE DEF n
    <3> QED BY <1>7, <2>4, <2>6, <2>8, <3>1, ThreeParts
  <2>12. Product(inputs[j].shape) = B * (e[j] * A)
    BY <1>6, <1>8, <2>8
  <2> HIDE DEF place
  <2> QED BY <2>7, <2>8, <2>10, <2>11, <2>12
<1>15. data \in [0 .. Product(out) - 1 -> E]
  <2> HIDE DEF out, pieces, place, n
  <2> QED BY <1>3, <1>14
<1> HIDE DEF out, data
<1> QED BY <1>1, <1>12, <1>15, NewTensor

----------------------------------------------------------------------------
(* Grids: every item is computed by one thread of one workgroup, whatever  *)
(* the number of items and the sizes of workgroups and grids.              *)

\* A launch of a grid computes every item of a set, each once.
Once(grid, items) ==
  /\ \A g \in DOMAIN grid : grid[g] \subseteq items
  /\ \A e \in items : \E g \in DOMAIN grid : e \in grid[g]
  /\ \A g, h \in DOMAIN grid : grid[g] \cap grid[h] # {} => g = h

LEMMA CeilCovers ==
  ASSUME NEW n \in Nat, NEW t \in Nat, t >= 1
  PROVE  CeilDiv(n, t) \in Nat /\ n <= CeilDiv(n, t) * t
<1> DEFINE c == CeilDiv(n, t)
<1>1. c = (n + t - 1) \div t /\ n + t - 1 \in Nat
  BY DEF CeilDiv
<1>2. c \in Nat /\ (n + t - 1) % t \in 0 .. t - 1 /\ n + t - 1 = c * t + ((n + t - 1) % t)
  BY <1>1, Division
<1> HIDE DEF c
<1>3. c * t \in Nat
  BY <1>2, MulNat
<1>4. n <= c * t
  BY <1>2, <1>3
<1> QED BY <1>2, <1>4 DEF c

\* Blocks of a size, one after the other, are a grid for any number of items that they
\* are enough for.
LEMMA BlocksOnce ==
  ASSUME NEW n \in Nat, NEW size \in Nat, size >= 1, NEW blocks \in Nat, n <= blocks * size,
         NEW grid, DOMAIN grid = 0 .. blocks - 1,
         \A g \in 0 .. blocks - 1 : grid[g] = {e \in g * size .. g * size + size - 1 : e < n}
  PROVE  Once(grid, 0 .. n - 1)
<1>1. ASSUME NEW g \in 0 .. blocks - 1
      PROVE  g \in Nat /\ g * size \in Nat
  <2>1. g \in Nat
    OBVIOUS
  <2> QED BY <2>1, MulNat
<1>2. ASSUME NEW g \in DOMAIN grid
      PROVE  grid[g] \subseteq 0 .. n - 1
  <2>1. g \in 0 .. blocks - 1
    OBVIOUS
  <2>2. grid[g] = {e \in g * size .. g * size + size - 1 : e < n}
    BY <2>1
  <2>3. g * size \in Nat
    BY <2>1, <1>1
  <2>4. ASSUME NEW e \in grid[g]
        PROVE  e \in 0 .. n - 1
    <3>1. e \in g * size .. g * size + size - 1 /\ e < n
      BY <2>2
    <3> QED BY <2>3, <3>1
  <2> QED BY <2>4
<1>3. ASSUME NEW e \in 0 .. n - 1
      PROVE  \E g \in DOMAIN grid : e \in grid[g]
  <2> DEFINE g == e \div size
  <2>1. e \in Nat /\ e < n
    OBVIOUS
  <2>2. g \in Nat /\ e % size \in 0 .. size - 1 /\ e = g * size + (e % size)
    BY <2>1, Division
  <2>3. blocks * size \in Nat
    BY MulNat
  <2>4. g \in 0 .. blocks - 1
    <3>1. e < blocks * size
      BY <2>1, <2>3
    <3>2. e \div size \in Nat /\ e \div size < blocks
      BY <2>1, <3>1, QuotientBelow
    <3> QED BY <3>2
  <2> HIDE DEF g
  <2>5. g * size \in Nat
    BY <2>2, MulNat
  <2>6. e \in g * size .. g * size + size - 1
    BY <2>1, <2>2, <2>5
  <2> QED BY <2>1, <2>4, <2>6
<1>4. ASSUME NEW g \in DOMAIN grid, NEW h \in DOMAIN grid, grid[g] \cap grid[h] # {}
      PROVE  g = h
  <2>1. PICK e : e \in grid[g] /\ e \in grid[h]
    BY <1>4
  <2>2. g \in Nat /\ g * size \in Nat /\ h \in Nat /\ h * size \in Nat
    BY <1>1
  <2>3. /\ e \in Nat /\ g * size <= e /\ e <= g * size + size - 1
        /\ h * size <= e /\ e <= h * size + size - 1
    BY <2>1, <2>2
  <2>4. (g + 1) * size = g * size + size /\ (h + 1) * size = h * size + size
    <3>1. (g + 1) * size = g * size + 1 * size /\ (h + 1) * size = h * size + 1 * size
      BY <2>2, Distributes
    <3> QED BY <3>1
  <2>5. g * size <= e /\ e < (g + 1) * size /\ h * size <= e /\ e < (h + 1) * size
    <3> DEFINE a == g * size
               b == h * size
               c == (g + 1) * size
               d == (h + 1) * size
    <3>1. a \in Nat /\ b \in Nat /\ c = a + size /\ d = b + size /\ e \in Nat
          /\ a <= e /\ e <= a + size - 1 /\ b <= e /\ e <= b + size - 1
      BY <2>2, <2>3, <2>4, Zenon
    <3> HIDE DEF a, b, c, d
    <3>2. a <= e /\ e < c /\ b <= e /\ e < d
      BY <3>1
    <3> QED BY <3>2 DEF a, b, c, d
  <2>6. e \div size = g
    BY <2>2, <2>3, <2>5, DivisionIs
  <2>7. e \div size = h
    BY <2>2, <2>3, <2>5, DivisionIs
  <2> QED BY <2>6, <2>7
<1> QED BY <1>2, <1>3, <1>4 DEF Once

\* One-dimensional dispatches (div_ceil by the size of a workgroup, threads past the last
\* element return) compute every element, each in one place.
THEOREM LinearOnce ==
  ASSUME Local \in Nat, Local >= 1, NEW n \in Nat
  PROVE  Once(Linear(n), 0 .. n - 1)
<1> DEFINE c == CeilDiv(n, Local)
<1>1. c \in Nat /\ n <= c * Local
  BY CeilCovers
<1>2. DOMAIN Linear(n) = 0 .. c - 1
  BY DEF Linear
<1>3. ASSUME NEW g \in 0 .. c - 1
      PROVE  Linear(n)[g] = {e \in g * Local .. g * Local + Local - 1 : e < n}
  <2>1. Linear(n)[g] = {e \in g * Local .. (g + 1) * Local - 1 : e < n}
    BY DEF Linear
  <2>2. (g + 1) * Local = g * Local + Local
    <3>1. g \in Int /\ 1 * Local = Local
      OBVIOUS
    <3>2. (g + 1) * Local = g * Local + 1 * Local
      BY <3>1, Distributes
    <3> QED BY <3>1, <3>2
  <2> QED BY <2>1, <2>2
<1> HIDE DEF c
<1> QED BY <1>1, <1>2, <1>3, BlocksOnce

\* So do the dispatches that are folded into rows of workgroups, because one dimension of a
\* grid is limited.
THEOREM FoldingOnce ==
  ASSUME Local \in Nat, Local >= 1, MaxGroups \in Nat, MaxGroups >= 1, NEW n \in Nat
  PROVE  Once(Folding(n), 0 .. n - 1)
<1> DEFINE gx == Clamp(CeilDiv(n, Local), 1, MaxGroups)
           gy == CeilDiv(n, gx * Local)
<1>1. gx \in Nat /\ gx >= 1
  <2>1. CeilDiv(n, Local) \in Nat
    BY CeilCovers
  <2> QED BY <2>1 DEF Clamp
<1>2. /\ DOMAIN Folding(n) = 0 .. gx * gy - 1
      /\ \A g \in 0 .. gx * gy - 1 :
           Folding(n)[g] =
             {e \in (g \div gx) * (gx * Local) + ((g % gx) * Local)
                      .. (g \div gx) * (gx * Local) + ((g % gx) * Local) + Local - 1 : e < n}
  BY Zenon DEF Folding
<1> HIDE DEF gx
<1>3. gx * Local \in Nat /\ gx * Local >= 1
  BY <1>1, MulNat
<1>4. gy \in Nat /\ n <= gy * (gx * Local)
  BY <1>3, CeilCovers
<1> HIDE DEF gy
<1>5. gx * gy \in Nat /\ n <= (gx * gy) * Local
  <2>1. gy * (gx * Local) = (gy * gx) * Local /\ gy * gx = gx * gy
    BY <1>1, <1>4, Assoc
  <2>2. gx * gy \in Nat
    BY <1>1, <1>4, MulNat
  <2> QED BY <1>4, <2>1, <2>2
<1>6. ASSUME NEW g \in 0 .. gx * gy - 1
      PROVE  (g \div gx) * (gx * Local) + ((g % gx) * Local) = g * Local
  <2> DEFINE q == g \div gx
             c == g % gx
  <2>1. g \in Nat
    BY <1>5
  <2>2. q \in Nat /\ c \in 0 .. gx - 1 /\ g = q * gx + c
    BY <1>1, <2>1, Division
  <2> HIDE DEF q, c
  <2>3. q * (gx * Local) = (q * gx) * Local /\ q * gx \in Int /\ c \in Int
    BY <1>1, <2>2, Assoc, MulInt
  <2>4. (q * gx + c) * Local = (q * gx) * Local + c * Local
    BY <2>3, Distributes
  <2> QED BY <2>2, <2>3, <2>4 DEF q, c
<1>7. \A g \in 0 .. gx * gy - 1 : Folding(n)[g] = {e \in g * Local .. g * Local + Local - 1 : e < n}
  BY <1>2, <1>6, Zenon
<1> DEFINE blocks == gx * gy
<1>8. /\ blocks \in Nat /\ n <= blocks * Local /\ DOMAIN Folding(n) = 0 .. blocks - 1
      /\ \A g \in 0 .. blocks - 1 : Folding(n)[g] = {e \in g * Local .. g * Local + Local - 1 : e < n}
  BY <1>2, <1>5, <1>7, Zenon
<1> HIDE DEF blocks
<1> QED BY <1>8, BlocksOnce

\* And the dispatches of one workgroup for each row of work.
THEOREM PerRowOnce ==
  ASSUME MaxGroups \in Nat, MaxGroups >= 1, NEW rows \in Nat
  PROVE  Once(PerRow(rows), 0 .. rows - 1)
<1> DEFINE gx == Clamp(rows, 1, MaxGroups)
           gy == CeilDiv(rows, gx)
           blocks == gx * gy
<1>1. gx \in Nat /\ gx >= 1
  BY DEF Clamp
<1>2. /\ DOMAIN PerRow(rows) = 0 .. blocks - 1
      /\ \A g \in 0 .. blocks - 1 :
           PerRow(rows)[g] = {r \in {(g \div gx) * gx + (g % gx)} : r < rows}
  BY Zenon DEF PerRow
<1> HIDE DEF gx
<1>3. gy \in Nat /\ rows <= gy * gx
  BY <1>1, CeilCovers
<1> HIDE DEF gy
<1>4. blocks \in Nat /\ rows <= blocks * 1
  <2>1. gx * gy \in Nat /\ gx * gy = gy * gx /\ (gx * gy) * 1 = gx * gy
    BY <1>1, <1>3, MulNat
  <2> QED BY <1>3, <2>1
<1>5. \A g \in 0 .. blocks - 1 : PerRow(rows)[g] = {e \in g * 1 .. g * 1 + 1 - 1 : e < rows}
  <2> SUFFICES ASSUME NEW g \in 0 .. blocks - 1
               PROVE  PerRow(rows)[g] = {e \in g * 1 .. g * 1 + 1 - 1 : e < rows}
    OBVIOUS
  <2>1. g \in Nat
    BY <1>4
  <2>2. (g \div gx) * gx + (g % gx) = g
    BY <1>1, <2>1, Division
  <2>3. PerRow(rows)[g] = {r \in {g} : r < rows}
    BY <1>2, <2>2, Zenon
  <2>4. g * 1 .. g * 1 + 1 - 1 = {g}
    BY <2>1
  <2> QED BY <2>3, <2>4, Zenon
<1> HIDE DEF blocks
<1> DEFINE one == 1
<1>6. /\ one \in Nat /\ one >= 1 /\ blocks \in Nat /\ rows <= blocks * one
      /\ DOMAIN PerRow(rows) = 0 .. blocks - 1
      /\ \A g \in 0 .. blocks - 1 : PerRow(rows)[g] = {e \in g * one .. g * one + one - 1 : e < rows}
  BY <1>2, <1>4, <1>5
<1> HIDE DEF one
<1> QED BY <1>6, BlocksOnce

\* The workgroups of a grid of batches, rows and columns are numbered in row-major order.
NumberOf(x, y, b, i, e) == b * (y * x) + i * x + e

\* The batch, the row and the column of a workgroup in a grid of y rows of x columns.
BatchNo(x, y, g)  == g \div (x * y)
LineOf(x, y, g)   == (g \div x) % y
ColumnOf(x, y, g) == g % x

LEMMA GridNumber ==
  ASSUME NEW x \in Nat, x >= 1, NEW y \in Nat, y >= 1,
         NEW b \in Nat, NEW i \in 0 .. y - 1, NEW e \in 0 .. x - 1
  PROVE  /\ BatchNo(x, y, NumberOf(x, y, b, i, e)) = b
         /\ LineOf(x, y, NumberOf(x, y, b, i, e)) = i
         /\ ColumnOf(x, y, NumberOf(x, y, b, i, e)) = e
<1> DEFINE g == NumberOf(x, y, b, i, e)
           q == b * y + i
           m == y * x
<1>0. g = b * (y * x) + i * x + e
  BY DEF NumberOf
<1> HIDE DEF g
<1>1. b * y \in Nat /\ (b * y) * x \in Nat /\ i * x \in Nat /\ m \in Nat /\ m >= 1
      /\ b * m = (b * y) * x /\ x * y = m
  <2>1. b * y \in Nat /\ i * x \in Nat /\ y * x \in Nat /\ y * x >= 1 /\ x * y = y * x
    BY MulNat
  <2> QED BY <2>1, MulNat, Assoc
<1>2. q \in Nat /\ q * x = (b * y) * x + i * x
  BY <1>1, Distributes
<1>3. g = q * x + e /\ g \in Nat
  BY <1>0, <1>1, <1>2
<1>4. g \div x = q /\ g % x = e
  <2> HIDE DEF q, m
  <2>1. (q + 1) * x = q * x + 1 * x /\ q * x \in Nat
    BY <1>2, Distributes, MulNat
  <2>2. q * x <= g /\ g < (q + 1) * x
    BY <1>3, <2>1
  <2>3. g \div x = q
    BY <1>2, <1>3, <2>2, DivisionIs
  <2>4. g % x \in 0 .. x - 1 /\ g = (g \div x) * x + (g % x)
    BY <1>3, Division
  <2>5. g = q * x + (g % x) /\ g % x \in Int
    BY <2>3, <2>4
  <2>6. g % x = e
    BY <1>3, <2>1, <2>5
  <2> QED BY <2>3, <2>6
<1>5. q \div y = b /\ q % y = i
  <2>1. (b + 1) * y = b * y + 1 * y
    BY Distributes
  <2>2. b * y <= q /\ q < (b + 1) * y
    BY <1>1, <2>1
  <2>3. q \div y = b
    BY <1>2, <2>2, DivisionIs
  <2> HIDE DEF q
  <2>4. q % y \in 0 .. y - 1 /\ q = (q \div y) * y + (q % y)
    BY <1>2, Division
  <2> QED BY <1>1, <2>3, <2>4 DEF q
<1>6. g \div (x * y) = b
  <2>1. i * x + e < m
    <3>1. (i + 1) * x = i * x + 1 * x /\ i + 1 <= y
      BY Distributes
    <3>2. (i + 1) * x <= y * x
      BY <3>1, Scaled
    <3> QED BY <1>1, <3>1, <3>2
  <2> HIDE DEF m
  <2>2. (b + 1) * m = b * m + 1 * m /\ b * m \in Nat
    BY <1>1, Distributes, MulNat
  <2>3. g = b * m + (i * x + e)
    BY <1>0, <1>1, <2>2 DEF m
  <2>4. b * m <= g /\ g < (b + 1) * m
    BY <1>1, <2>1, <2>2, <2>3
  <2>5. g \div m = b
    BY <1>1, <1>3, <2>4, DivisionIs
  <2> QED BY <1>1, <2>5
<1> HIDE DEF q
<1>7. g \div (x * y) = b /\ (g \div x) % y = i /\ g % x = e
  BY <1>4, <1>5, <1>6
<1>8. BatchNo(x, y, g) = b /\ LineOf(x, y, g) = i /\ ColumnOf(x, y, g) = e
  BY <1>7 DEF BatchNo, LineOf, ColumnOf
<1> QED BY <1>8 DEF g

GroupsOf(x, y, b) == 0 .. x * y * b - 1

LEMMA GridPlace ==
  ASSUME NEW x \in Nat, x >= 1, NEW y \in Nat, y >= 1, NEW b \in Nat,
         NEW g \in GroupsOf(x, y, b)
  PROVE  /\ BatchNo(x, y, g) \in 0 .. b - 1 /\ LineOf(x, y, g) \in 0 .. y - 1
         /\ ColumnOf(x, y, g) \in 0 .. x - 1
         /\ g = NumberOf(x, y, BatchNo(x, y, g), LineOf(x, y, g), ColumnOf(x, y, g))
<1> DEFINE q == g \div x
           e == g % x
           h == q \div y
           i == q % y
<1>1. x * y \in Nat /\ x * y >= 1 /\ x * y * b = b * (x * y)
  BY MulNat
<1>2. g \in Nat /\ g < b * (x * y)
  <2>1. b * (x * y) \in Nat
    BY <1>1, MulNat
  <2>2. g \in 0 .. b * (x * y) - 1
    BY <1>1, Zenon DEF GroupsOf
  <2> QED BY <2>1, <2>2
<1>3. q \in Nat /\ e \in 0 .. x - 1 /\ g = q * x + e
  BY <1>2, Division
<1> HIDE DEF q, e
<1>4. h \in Nat /\ i \in 0 .. y - 1 /\ q = h * y + i
  BY <1>3, Division
<1> HIDE DEF h, i
<1>5. g = h * (y * x) + i * x + e
  <2>1. (h * y + i) * x = (h * y) * x + i * x /\ h * y \in Int
    BY <1>4, Distributes, MulInt
  <2>2. (h * y) * x = h * (y * x)
    BY <1>4, Assoc
  <2> QED BY <1>3, <1>4, <2>1, <2>2
<1>6. g = NumberOf(x, y, h, i, e)
  BY <1>5, Zenon DEF NumberOf
<1>7. BatchNo(x, y, g) = h /\ LineOf(x, y, g) = i /\ ColumnOf(x, y, g) = e
  BY <1>3, <1>4, <1>6, GridNumber
<1>8. BatchNo(x, y, g) \in 0 .. b - 1
  BY <1>1, <1>2, QuotientBelow DEF BatchNo
<1> QED BY <1>3, <1>4, <1>6, <1>7, <1>8, Zenon

LEMMA SmallerIs ==
  ASSUME NEW a \in Int, NEW b \in Int
  PROVE  Min({a, b}) = IF a <= b THEN a ELSE b
<1> DEFINE m == IF a <= b THEN a ELSE b
<1>1. m \in {a, b} /\ \A k \in {a, b} : m <= k
  OBVIOUS
<1>2. Min({a, b}) \in {a, b} /\ \A k \in {a, b} : Min({a, b}) <= k
  <2> HIDE DEF m
  <2> QED BY <1>1, Zenon DEF Min
<1> QED BY <1>1, <1>2

\* The places of a dimension that the i-th tile of a size covers.
TileOf(i, size, n) == i * size .. Min({i * size + size, n}) - 1

LEMMA TileIs ==
  ASSUME NEW n \in Nat, NEW size \in Nat, size >= 1, NEW i \in Nat, NEW k
  PROVE  k \in TileOf(i, size, n) <=> k \in 0 .. n - 1 /\ k \div size = i
<1> DEFINE s == i * size
<1>1. s \in Nat
  BY MulNat
<1>2. (i + 1) * size = s + size
  BY Distributes
<1>3. TileOf(i, size, n) = s .. Min({s + size, n}) - 1
  BY DEF TileOf
<1> HIDE DEF s
<1>4. Min({s + size, n}) = IF s + size <= n THEN s + size ELSE n
  BY <1>1, SmallerIs
<1>5. k \in TileOf(i, size, n) <=> k \in 0 .. n - 1 /\ s <= k /\ k < s + size
  BY <1>1, <1>3, <1>4
<1>6. ASSUME k \in 0 .. n - 1, s <= k, k < s + size
      PROVE  k \div size = i
  <2>1. k \in Nat /\ i * size <= k /\ k < (i + 1) * size
    BY <1>2, <1>6 DEF s
  <2> QED BY <2>1, DivisionIs
<1>7. ASSUME k \in 0 .. n - 1, k \div size = i
      PROVE  s <= k /\ k < s + size
  <2>1. k \in Nat
    BY <1>7
  <2>2. k % size \in 0 .. size - 1 /\ k = (k \div size) * size + (k % size)
    BY <2>1, Division
  <2>3. k = s + (k % size)
    BY <1>7, <2>2 DEF s
  <2> QED BY <1>1, <2>2, <2>3
<1> QED BY <1>5, <1>6, <1>7

\* And the grids of tiles over batches, rows and columns, of tiles that hang over the last
\* row or column too.
THEOREM TiledOnce ==
  ASSUME NEW batches \in Nat, NEW rows \in Nat, NEW cols \in Nat,
         NEW high \in Nat, high >= 1, NEW wide \in Nat, wide >= 1
  PROVE  Once(Tiled(batches, rows, cols, high, wide),
              (0 .. batches - 1) \X (0 .. rows - 1) \X (0 .. cols - 1))
<1> DEFINE x == CeilDiv(cols, wide)
           y == CeilDiv(rows, high)
           grid == Tiled(batches, rows, cols, high, wide)
           items == (0 .. batches - 1) \X (0 .. rows - 1) \X (0 .. cols - 1)
<1>1. x \in Nat /\ cols <= x * wide /\ y \in Nat /\ rows <= y * high
  BY CeilCovers
<1>2. /\ DOMAIN grid = 0 .. x * y * batches - 1
      /\ \A g \in DOMAIN grid :
           grid[g] = {BatchNo(x, y, g)} \X TileOf(LineOf(x, y, g), high, rows)
                                        \X TileOf(ColumnOf(x, y, g), wide, cols)
  BY DEF Tiled, TileOf, BatchNo, LineOf, ColumnOf
<1> HIDE DEF x, y, grid
<1>3. ASSUME NEW g \in DOMAIN grid
      PROVE  x >= 1 /\ y >= 1
  <2>1. x * y \in Nat /\ g \in 0 .. x * y * batches - 1
    BY <1>1, <1>2, MulNat
  <2>2. x * y * batches \in Nat /\ x * y * batches >= 1
    BY <2>1, MulNat
  <2>3. x * y >= 1
    BY <2>1, <2>2, MulNat
  <2> QED BY <1>1, <2>3, MulNat
<1>4. ASSUME NEW g \in DOMAIN grid
      PROVE  /\ BatchNo(x, y, g) \in 0 .. batches - 1
             /\ LineOf(x, y, g) \in Nat /\ ColumnOf(x, y, g) \in Nat
             /\ g = NumberOf(x, y, BatchNo(x, y, g), LineOf(x, y, g), ColumnOf(x, y, g))
  <2>1. g \in GroupsOf(x, y, batches)
    BY <1>2, Zenon DEF GroupsOf
  <2>2. /\ BatchNo(x, y, g) \in 0 .. batches - 1
        /\ LineOf(x, y, g) \in 0 .. y - 1 /\ ColumnOf(x, y, g) \in 0 .. x - 1
        /\ g = NumberOf(x, y, BatchNo(x, y, g), LineOf(x, y, g), ColumnOf(x, y, g))
    <3>1. x \in Nat /\ x >= 1 /\ y \in Nat /\ y >= 1
      BY <1>1, <1>3
    <3> QED BY <2>1, <3>1, GridPlace
  <2>3. LineOf(x, y, g) \in Nat /\ ColumnOf(x, y, g) \in Nat
    BY <1>1, <2>2
  <2> QED BY <2>2, <2>3, Zenon
<1>5. ASSUME NEW g \in DOMAIN grid, NEW t \in grid[g]
      PROVE  /\ t \in items /\ t[1] = BatchNo(x, y, g)
             /\ t[2] \div high = LineOf(x, y, g) /\ t[3] \div wide = ColumnOf(x, y, g)
  <2>1. t \in {BatchNo(x, y, g)} \X TileOf(LineOf(x, y, g), high, rows)
                                 \X TileOf(ColumnOf(x, y, g), wide, cols)
    BY <1>2, Zenon
  <2>2. /\ t = <<t[1], t[2], t[3]>> /\ t[1] = BatchNo(x, y, g)
        /\ t[2] \in TileOf(LineOf(x, y, g), high, rows)
        /\ t[3] \in TileOf(ColumnOf(x, y, g), wide, cols)
    BY <2>1
  <2>3. t[2] \in 0 .. rows - 1 /\ t[2] \div high = LineOf(x, y, g)
    BY <1>4, <2>2, TileIs
  <2>4. t[3] \in 0 .. cols - 1 /\ t[3] \div wide = ColumnOf(x, y, g)
    BY <1>4, <2>2, TileIs
  <2>5. t[1] \in 0 .. batches - 1
    BY <1>4, <2>2
  <2>6. t \in items
    BY <2>2, <2>3, <2>4, <2>5
  <2> QED BY <2>2, <2>3, <2>4, <2>6
<1>6. \A g \in DOMAIN grid : grid[g] \subseteq items
  <2> HIDE DEF items
  <2> QED BY <1>5
<1>7. ASSUME NEW t \in items
      PROVE  \E g \in DOMAIN grid : t \in grid[g]
  <2> DEFINE b == t[1]
             r == t[2]
             c == t[3]
             i == r \div high
             e == c \div wide
             g == NumberOf(x, y, b, i, e)
  <2>1. /\ t = <<b, r, c>>
        /\ b \in 0 .. batches - 1 /\ r \in 0 .. rows - 1 /\ c \in 0 .. cols - 1
    OBVIOUS
  <2> HIDE DEF b, r, c, items
  <2>2. i \in 0 .. y - 1
    <3>1. r \in Nat /\ r < y * high
      <4>1. y * high \in Nat
        BY <1>1, MulNat
      <4> QED BY <1>1, <2>1, <4>1
    <3> QED BY <1>1, <3>1, QuotientBelow
  <2>3. e \in 0 .. x - 1
    <3>1. c \in Nat /\ c < x * wide
      <4>1. x * wide \in Nat
        BY <1>1, MulNat
      <4> QED BY <1>1, <2>1, <4>1
    <3> QED BY <1>1, <3>1, QuotientBelow
  <2>4. r \in TileOf(i, high, rows) /\ c \in TileOf(e, wide, cols)
    <3>1. i \in Nat /\ e \in Nat
      BY <1>1, <2>2, <2>3
    <3> QED BY <2>1, <3>1, TileIs
  <2> HIDE DEF i, e
  <2>5. x >= 1 /\ y >= 1 /\ b \in Nat
    BY <1>1, <2>1, <2>2, <2>3
  <2>6. g \in 0 .. x * y * batches - 1
    <3>1. g \in 0 .. batches * (y * x) - 1
      BY <1>1, <2>1, <2>2, <2>3, ThreeParts DEF NumberOf
    <3>2. batches * (y * x) = x * y * batches
      <4>1. y * x = x * y /\ x * y \in Int
        BY <1>1, MulInt
      <4> HIDE DEF g
      <4> QED BY <4>1
    <3> HIDE DEF g
    <3> QED BY <3>1, <3>2
  <2>7. BatchNo(x, y, g) = b /\ LineOf(x, y, g) = i /\ ColumnOf(x, y, g) = e
    BY <1>1, <2>2, <2>3, <2>5, GridNumber
  <2> HIDE DEF g
  <2>8. g \in DOMAIN grid
    BY <1>2, <2>6, Zenon
  <2>9. grid[g] = {b} \X TileOf(i, high, rows) \X TileOf(e, wide, cols)
    BY <1>2, <2>7, <2>8, Zenon
  <2>10. t \in {b} \X TileOf(i, high, rows) \X TileOf(e, wide, cols)
    BY <2>1, <2>4
  <2> QED BY <2>8, <2>9, <2>10, Zenon
<1> HIDE DEF items
<1>8. ASSUME NEW g \in DOMAIN grid, NEW h \in DOMAIN grid, grid[g] \cap grid[h] # {}
      PROVE  g = h
  <2>1. PICK t : t \in grid[g] /\ t \in grid[h]
    BY <1>8
  <2>2. /\ t[1] = BatchNo(x, y, g)
        /\ t[2] \div high = LineOf(x, y, g) /\ t[3] \div wide = ColumnOf(x, y, g)
    BY <1>5, <2>1, Zenon
  <2>3. /\ t[1] = BatchNo(x, y, h)
        /\ t[2] \div high = LineOf(x, y, h) /\ t[3] \div wide = ColumnOf(x, y, h)
    BY <1>5, <2>1, Zenon
  <2>4. /\ g = NumberOf(x, y, BatchNo(x, y, g), LineOf(x, y, g), ColumnOf(x, y, g))
        /\ h = NumberOf(x, y, BatchNo(x, y, h), LineOf(x, y, h), ColumnOf(x, y, h))
    BY <1>4, Zenon
  <2> QED BY <2>2, <2>3, <2>4, Zenon
<1>9. Once(grid, items)
  BY <1>6, <1>7, <1>8, Zenon DEF Once
<1> QED BY <1>9, Zenon DEF grid, items

----------------------------------------------------------------------------
(* Kernels.  A thread that loads from outside a buffer finds Outside, which *)
(* is in no set of elements that leaves it out: what is in every set of     *)
(* elements that holds those of the operands was read inside.               *)

LEMMA LoadInside ==
  ASSUME NEW E, NEW n, NEW f \in [0 .. n - 1 -> E], NEW i \in 0 .. n - 1
  PROVE  Load(f, i) \in E
BY DEF Load

\* Operands that are broadcast are read inside, on the host and on the device, by the
\* strides that the kernels are told.
THEOREM BroadcastInside ==
  ASSUME NEW a \in Seq(Nat), NEW b \in Seq(Nat), Broadcastable(a, b),
         NEW o \in 0 .. Product(Joined(a, b)) - 1
  PROVE  LET bc == Broadcast(a, b) IN
         /\ Dot(Unwind(bc.strides, o), bc.a) \in 0 .. Product(a) - 1
         /\ Dot(Unwind(bc.strides, o), bc.b) \in 0 .. Product(b) - 1
<1> DEFINE out == Joined(a, b)
           n == Len(out)
           w == Walk(out, o)
<1>1. a \in Seq(Int) /\ b \in Seq(Int)
  OBVIOUS
<1>2. out \in Seq(Nat)
  BY <1>1, JoinedIs, Zenon
<1>3. StretchesTo(out, out)
  BY <1>2, StretchesSelf, Zenon
<1>4. StretchesTo(a, out) /\ StretchesTo(b, out)
  BY <1>2, <1>3, StretchesParts, Zenon
<1>5. \A d \in 1 .. n : /\ Aligned(a, n)[d] = out[d] \/ Aligned(a, n)[d] = 1
                        /\ Aligned(b, n)[d] = out[d] \/ Aligned(b, n)[d] = 1
  <2> DEFINE rank == IF Len(a) > Len(b) THEN Len(a) ELSE Len(b)
             x == Aligned(a, rank)
             y == Aligned(b, rank)
  <2>1. /\ n = rank
        /\ \A d \in 1 .. rank : /\ x[d] = y[d] \/ x[d] = 1 \/ y[d] = 1
                                /\ out[d] = IF x[d] = 1 THEN y[d] ELSE x[d]
    BY <1>1, JoinedIs, Zenon
  <2> HIDE DEF rank, x, y, out
  <2>2. \A d \in 1 .. rank : (x[d] = out[d] \/ x[d] = 1) /\ (y[d] = out[d] \/ y[d] = 1)
    BY <2>1
  <2>3. n = rank /\ Aligned(a, n) = x /\ Aligned(b, n) = y
    BY <2>1, Zenon DEF x, y
  <2> HIDE DEF n
  <2> QED BY <2>2, <2>3
<1>6. Unwind(Strides(out), o) = w
  BY <1>2, UnwindIsWalk, Zenon
<1>7. ASSUME NEW s \in Seq(Nat), StretchesTo(s, out),
             \A d \in 1 .. n : Aligned(s, n)[d] = out[d] \/ Aligned(s, n)[d] = 1
      PROVE  Dot(w, StretchedStrides(s, out)) \in 0 .. Product(s) - 1
  <2> DEFINE x == Aligned(s, n)
             c == [d \in 1 .. n |-> IF x[d] = 1 THEN 0 ELSE w[d]]
             g == StretchedStrides(s, out)
             f == Strides(x)
  <2>1. n \in Nat /\ DOMAIN out = 1 .. n /\ Len(s) <= n /\ \A d \in 1 .. n : x[d] # 0
    <3>1. Len(s) <= n /\ \A d \in 1 .. n : x[d] # 0
      BY <1>7, Zenon DEF StretchesTo
    <3> HIDE DEF out, x
    <3> QED BY <1>2, <3>1
  <2>2. x \in Seq(Nat) /\ Len(x) = n /\ DOMAIN x = 1 .. n /\ Product(x) = Product(s)
    <3> HIDE DEF n, out
    <3> QED BY <2>1, AlignedIs
  <2>3. DOMAIN w = 1 .. n /\ \A d \in 1 .. n : w[d] \in 0 .. out[d] - 1
    <3>1. \A d \in 1 .. n : w[d] \in 0 .. out[d] - 1
      BY <1>2, WalkInside, Zenon
    <3>2. DOMAIN w = DOMAIN out
      BY Zenon DEF Walk
    <3> QED BY <2>1, <3>1, <3>2, Zenon
  <2>4. \A d \in 1 .. n : g[d] = IF x[d] = 1 /\ out[d] # 1 THEN 0 ELSE Product(After(x, d))
    <3> HIDE DEF out
    <3> QED BY <2>1, Zenon DEF StretchedStrides, n
  <2>5. \A d \in 1 .. n : f[d] = Product(After(x, d))
    <3> HIDE DEF out, n
    <3> QED BY <2>2, Zenon DEF Strides
  <2>6. \A d \in 1 .. n : x[d] \in Nat /\ x[d] >= 1
    <3> HIDE DEF x, n
    <3> QED BY <2>1, <2>2
  <2>7. \A d \in 1 .. n : f[d] \in Nat
    <3> HIDE DEF x, n, out
    <3>1. Product(x) >= 1
      BY <2>2, <2>6, ProductNat
    <3>2. \A d \in 1 .. Len(x) : Strides(x)[d] \in Nat
      BY <2>2, <3>1, StridesAre
    <3> QED BY <2>2, <3>2 DEF f
  <2>8. DOMAIN c = 1 .. n /\ \A d \in 1 .. n : c[d] = IF x[d] = 1 THEN 0 ELSE w[d]
    OBVIOUS
  <2> HIDE DEF c, w, g, f, x, out, n
  <2>9. \A d \in 1 .. n : (x[d] = out[d] \/ x[d] = 1)
    BY <1>7, Zenon DEF x
  <2>10. \A d \in 1 .. n : c[d] \in 0 .. x[d] - 1
    <3> SUFFICES ASSUME NEW d \in 1 .. n
                 PROVE  c[d] \in 0 .. x[d] - 1
      OBVIOUS
    <3>1. /\ x[d] = out[d] \/ x[d] = 1
          /\ w[d] \in 0 .. out[d] - 1 /\ x[d] \in Nat /\ x[d] >= 1
          /\ c[d] = IF x[d] = 1 THEN 0 ELSE w[d]
      BY <2>3, <2>6, <2>8, <2>9, Zenon
    <3> QED BY <3>1
  <2>11. \A d \in 1 .. n : w[d] * g[d] = c[d] * f[d]
    <3> SUFFICES ASSUME NEW d \in 1 .. n
                 PROVE  w[d] * g[d] = c[d] * f[d]
      OBVIOUS
    <3>1. CASE x[d] = 1 /\ out[d] # 1
      <4>1. g[d] = 0 /\ c[d] = 0 /\ w[d] \in Int /\ f[d] \in Int
        BY <2>3, <2>4, <2>7, <2>8, <3>1
      <4> QED BY <4>1
    <3>2. CASE x[d] = 1 /\ out[d] = 1
      <4>1. g[d] = f[d] /\ c[d] = 0 /\ w[d] = 0 /\ f[d] \in Int
        BY <2>3, <2>4, <2>5, <2>7, <2>8, <3>2
      <4> QED BY <4>1
    <3>3. CASE x[d] # 1
      <4>1. g[d] = f[d] /\ c[d] = w[d]
        BY <2>4, <2>5, <2>8, <3>3
      <4> QED BY <4>1
    <3> QED BY <3>1, <3>2, <3>3
  <2>12. Dot(w, g) = Dot(c, f)
    <3>1. n \in Nat /\ DOMAIN w = 1 .. n /\ DOMAIN c = 1 .. n /\ \A d \in 1 .. n : w[d] * g[d] = c[d] * f[d]
      BY <2>1, <2>3, <2>8, <2>11, Zenon
    <3>2. [d \in DOMAIN w |-> w[d] * g[d]] = [d \in DOMAIN c |-> c[d] * f[d]]
      BY <3>1
    <3> QED BY <3>2, Zenon DEF Dot
  <2>13. Dot(c, f) \in 0 .. Product(x) - 1
    BY <2>2, <2>8, <2>10, OffsetInside DEF f
  <2> QED BY <2>2, <2>12, <2>13 DEF w, g, out
<1>8. /\ Broadcast(a, b).strides = Strides(out)
      /\ Broadcast(a, b).a = StretchedStrides(a, out) /\ Broadcast(a, b).b = StretchedStrides(b, out)
  BY DEF Broadcast, BroadcastTo
<1> HIDE DEF out, n, w
<1>9. Dot(w, StretchedStrides(a, out)) \in 0 .. Product(a) - 1
  BY <1>4, <1>5, <1>7, Zenon
<1>10. Dot(w, StretchedStrides(b, out)) \in 0 .. Product(b) - 1
  BY <1>4, <1>5, <1>7, Zenon
<1> QED BY <1>6, <1>8, <1>9, <1>10, Zenon

\* The threads of the slice kernel read elements of the operand.
THEOREM SliceThreadInside ==
  ASSUME NEW E, NEW job, TensorOf(E, job.x[1]), job.starts \in Seq(Int), job.ends \in Seq(Int),
         job.axes \in Seq(Int), job.steps \in Seq(Int),
         \A i \in DOMAIN job.axes :
           job.x[1].shape[Axis(job.axes[i], Rank(job.x[1]))] = 0 => job.steps[i] > 0,
         SliceOf(job) # Refused, NEW o \in 0 .. Product(SliceOf(job).out) - 1
  PROVE  SliceThread(job, o) \in E
<1> DEFINE x == job.x[1]
<1>1. x.shape \in Seq(Nat) /\ x.data \in [0 .. Product(x.shape) - 1 -> E]
  BY DEF TensorOf, Count
<1>2. SliceOf(job) = SliceParams(x.shape, job.starts, job.ends, job.axes, job.steps)
  BY Zenon DEF SliceOf
<1>3. SliceFrom(x, SliceOf(job), o) \in 0 .. Product(x.shape) - 1
  BY <1>1, <1>2, SliceReads, Zenon
<1>4. Load(x.data, SliceFrom(x, SliceOf(job), o)) \in E
  BY <1>1, <1>3, LoadInside, Zenon
<1> QED BY <1>4, Zenon DEF SliceThread

\* The threads of the pad kernel read elements of the operand, or take the value.
THEOREM PadThreadInside ==
  ASSUME NEW E, NEW job, TensorOf(E, job.x[1]), job.value \in E,
         job.pads \in Seq(Int), Len(job.pads) = 2 * Rank(job.x[1]),
         NEW out, out = [d \in DOMAIN job.x[1].shape |->
                           job.x[1].shape[d] + PadBegins(job)[d] + PadEnds(job)[d]],
         \A d \in DOMAIN out : out[d] >= 0,
         NEW o \in 0 .. Product(out) - 1
  PROVE  PadThread(job, o) \in E
<1> DEFINE x == job.x[1]
           n == Len(x.shape)
           begins == PadBegins(job)
           c == [d \in DOMAIN out |-> Walk(out, o)[d] - begins[d]]
<1>1. x.shape \in Seq(Nat) /\ x.data \in [0 .. Product(x.shape) - 1 -> E] /\ n \in Nat
  BY DEF TensorOf, Count
<1>2. \A d \in 1 .. n : begins[d] \in Int /\ PadEnds(job)[d] \in Int
  <2>1. Rank(x) = n /\ Len(job.pads) = 2 * n
    BY DEF Rank
  <2> HIDE DEF x, n
  <2> QED BY <1>1, <2>1 DEF PadBegins, PadEnds, x
<1> HIDE DEF begins
<1>3. DOMAIN out = 1 .. n /\ \A d \in 1 .. n : out[d] \in Nat
  <2>1. DOMAIN out = 1 .. n /\ \A d \in 1 .. n : out[d] = x.shape[d] + begins[d] + PadEnds(job)[d]
    BY <1>1 DEF begins
  <2>2. \A d \in 1 .. n : x.shape[d] \in Int
    BY <1>1
  <2>3. \A d \in DOMAIN out : out[d] >= 0
    OBVIOUS
  <2> HIDE DEF x, n
  <2>4. ASSUME NEW d \in 1 .. n
        PROVE  out[d] \in Nat
    <3>1. begins[d] \in Int /\ PadEnds(job)[d] \in Int /\ x.shape[d] \in Int /\ out[d] >= 0
          /\ out[d] = x.shape[d] + begins[d] + PadEnds(job)[d]
      BY <1>2, <2>1, <2>2, <2>3, Zenon
    <3> QED BY <3>1
  <2> QED BY <2>1, <2>4, Zenon
<1>4. out \in Seq(Nat) /\ Len(out) = n
  <2>1. out = [d \in 1 .. n |-> out[d]]
    <3> DEFINE padded(d) == x.shape[d] + PadBegins(job)[d] + PadEnds(job)[d]
    <3>1. out = [d \in DOMAIN x.shape |-> padded(d)]
      BY Zenon
    <3>2. DOMAIN x.shape = DOMAIN out
      BY <3>1, Zenon
    <3> HIDE DEF padded, x
    <3>3. DOMAIN out = 1 .. n /\ out = [d \in DOMAIN out |-> padded(d)]
      BY <1>3, <3>1, <3>2, Zenon
    <3> HIDE DEF n
    <3> QED BY <3>3
  <2>2. n \in Nat /\ \A d \in 1 .. n : out[d] \in Nat
    BY <1>1, <1>3, Zenon
  <2>3. Lists(out, n)
    BY <2>1, <2>2, Zenon DEF Lists
  <2> QED BY <2>2, <2>3, ListIs, Zenon
<1>5. \A d \in 1 .. n : Walk(out, o)[d] \in Int
  BY <1>4, WalkInside
<1>6. DOMAIN c = 1 .. n /\ \A d \in 1 .. n : c[d] \in Int
  <2>1. DOMAIN c = 1 .. n /\ \A d \in 1 .. n : c[d] = Walk(out, o)[d] - begins[d]
    BY <1>3, Zenon
  <2> HIDE DEF c, n
  <2>2. \A d \in 1 .. n : Walk(out, o)[d] \in Int /\ begins[d] \in Int
    BY <1>2, <1>5, Zenon
  <2>3. ASSUME NEW d \in 1 .. n
        PROVE  c[d] \in Int
    <3>1. c[d] = Walk(out, o)[d] - begins[d] /\ Walk(out, o)[d] \in Int /\ begins[d] \in Int
      BY <2>1, <2>2, Zenon
    <3> QED BY <3>1
  <2> QED BY <2>1, <2>3, Zenon
<1>7. PadThread(job, o) =
        IF \E d \in DOMAIN out : c[d] < 0 \/ c[d] >= x.shape[d] THEN job.value
        ELSE Load(x.data, Dot(c, Strides(x.shape)))
  BY Zenon DEF PadThread, begins
<1> HIDE DEF c, x, n
<1>8. ASSUME ~(\E d \in DOMAIN out : c[d] < 0 \/ c[d] >= x.shape[d])
      PROVE  Load(x.data, Dot(c, Strides(x.shape))) \in E
  <2>1. \A d \in 1 .. n : c[d] \in 0 .. x.shape[d] - 1
    <3> SUFFICES ASSUME NEW d \in 1 .. n
                 PROVE  c[d] \in 0 .. x.shape[d] - 1
      OBVIOUS
    <3>1. x.shape[d] \in Nat
      BY <1>1 DEF n
    <3>2. ~(c[d] < 0 \/ c[d] >= x.shape[d])
      BY <1>3, <1>8, Zenon
    <3>3. c[d] \in Int
      BY <1>6
    <3> QED BY <3>1, <3>2, <3>3
  <2>2. Dot(c, Strides(x.shape)) \in 0 .. Product(x.shape) - 1
    BY <1>1, <1>6, <2>1, OffsetInside DEF n
  <2> QED BY <1>1, <2>2, LoadInside, Zenon
<1>9. job.value \in E
  OBVIOUS
<1> QED BY <1>7, <1>8, <1>9, Zenon

\* The threads of the where kernel, which joins the condition with the first branch before
\* the second, read elements of the branches.
THEOREM WhereThreadInside ==
  ASSUME NEW E, NEW job, TensorOf(Int, job.x[1]), TensorOf(E, job.x[2]), TensorOf(E, job.x[3]),
         Broadcastable(job.x[1].shape, job.x[2].shape),
         Broadcastable(Joined(job.x[1].shape, job.x[2].shape), job.x[3].shape),
         NEW o \in 0 .. Product(WhereShape(job)) - 1
  PROVE  /\ WhereThread(job, o) \in E
         /\ Load(job.x[1].data, Dot(Walk(WhereShape(job), o),
                                    BcastStrides(job.x[1].shape, WhereShape(job)))) \in Int
<1> DEFINE a == job.x[1]
           b == job.x[2]
           c == job.x[3]
           out == Joined(Joined(a.shape, b.shape), c.shape)
           At(t) == Dot(Walk(out, o), BcastStrides(t.shape, out))
<1>1. /\ a.shape \in Seq(Nat) /\ a.data \in [0 .. Product(a.shape) - 1 -> Int]
      /\ b.shape \in Seq(Nat) /\ b.data \in [0 .. Product(b.shape) - 1 -> E]
      /\ c.shape \in Seq(Nat) /\ c.data \in [0 .. Product(c.shape) - 1 -> E]
  BY DEF TensorOf, Count
<1>2. WhereShape(job) = out
  BY Zenon DEF WhereShape
<1>3. /\ Broadcastable(a.shape, b.shape) /\ Broadcastable(Joined(a.shape, b.shape), c.shape)
      /\ o \in 0 .. Product(out) - 1
  BY <1>2, Zenon
<1>4. /\ WhereThread(job, o) = IF Load(a.data, At(a)) # 0 THEN Load(b.data, At(b)) ELSE Load(c.data, At(c))
      /\ Dot(Walk(WhereShape(job), o), BcastStrides(job.x[1].shape, WhereShape(job))) = At(a)
  BY <1>2, Zenon DEF WhereThread
<1> HIDE DEF a, b, c
<1>5. out \in Seq(Nat)
  <2>1. a.shape \in Seq(Int) /\ b.shape \in Seq(Int) /\ c.shape \in Seq(Int)
    BY <1>1
  <2> DEFINE m == Joined(a.shape, b.shape)
  <2>2. m \in Seq(Nat)
    BY <1>3, <2>1, JoinedIs, Zenon
  <2>3. m \in Seq(Int)
    <3> HIDE DEF m
    <3> QED BY <2>2
  <2> QED BY <1>3, <2>1, <2>3, JoinedIs, Zenon
<1>6. /\ At(a) \in 0 .. Product(a.shape) - 1 /\ At(b) \in 0 .. Product(b.shape) - 1
      /\ At(c) \in 0 .. Product(c.shape) - 1
  BY <1>1, <1>3, <1>5, ThreeStretched, Zenon
<1> HIDE DEF At
<1>7. Load(a.data, At(a)) \in Int /\ Load(b.data, At(b)) \in E /\ Load(c.data, At(c)) \in E
  BY <1>1, <1>6, LoadInside, Zenon
<1> QED BY <1>4, <1>7, Zenon DEF a

\* The threads of the gather kernel read elements of the operand if the indices are in
\* range, which the device path leaves to its caller.
THEOREM GatherThreadInside ==
  ASSUME NEW E, NEW job, TensorOf(E, job.x[1]), TensorOf(Int, job.x[2]), job.axis \in Int,
         IsAxis(job.axis, Rank(job.x[1])),
         NEW a, a = Axis(job.axis, Rank(job.x[1])),
         InRange(job.x[2], job.x[1].shape[a]),
         NEW o \in 0 .. Product(Before(job.x[1].shape, a) \o job.x[2].shape \o After(job.x[1].shape, a)) - 1
  PROVE  GatherThread(job, o) \in E
<1> DEFINE x == job.x[1]
           from == GatheredFrom(x, job.x[2], a, Size(job.x[2]), o)
<1>1. x.shape \in Seq(Nat) /\ x.data \in [0 .. Product(x.shape) - 1 -> E]
  BY DEF TensorOf, Count
<1>2. AtLeastOne(Size(job.x[2])) = Size(job.x[2]) /\ from \in 0 .. Product(x.shape) - 1
  BY <1>1, GatherReads, Zenon
<1>3. GatherThread(job, o) = Load(x.data, from)
  BY <1>2, Zenon DEF GatherThread, GatheredFrom
<1> HIDE DEF from
<1>4. Load(x.data, from) \in E
  BY <1>1, <1>2, LoadInside, Zenon
<1> QED BY <1>3, <1>4, Zenon

=============================================================================
