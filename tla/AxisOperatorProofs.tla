-------------------------- MODULE AxisOperatorProofs --------------------------
(* Operators that work along an axis compute what they mean, for operands of every *)
(* shape; and what all the operators that are proved to mean what ONNX says owe    *)
(* their callers, in every run of them.                                            *)
EXTENDS OperatorProofs

----------------------------------------------------------------------------
(* Along an axis: coordinates fall into those before the axis, on it and   *)
(* after it, and so do places, with quotients and remainders.              *)

LEMMA RemainderOf ==
  ASSUME NEW q \in Nat, NEW s \in Nat, NEW r \in 0 .. s - 1
  PROVE  /\ (q * s + r) \div s = q /\ (q * s + r) % s = r
         /\ s >= 1 /\ q * s + r \in Nat
<1> DEFINE m == q * s + r
           p == q * s
<1>1. s >= 1 /\ r \in Nat /\ r < s
  OBVIOUS
<1>2. p \in Nat /\ (q + 1) * s = p + s
  <2>1. p \in Nat
    BY MulNat
  <2>2. (q + 1) * s = q * s + 1 * s
    BY Distributes
  <2> QED BY <2>1, <2>2
<1>3. m = p + r
  OBVIOUS
<1> HIDE DEF p, m
<1>4. m \in Nat /\ p <= m /\ m < p + s
  BY <1>1, <1>2, <1>3
<1>5. m \div s = q
  BY <1>1, <1>2, <1>4, DivisionIs DEF p
<1>6. m = (m \div s) * s + (m % s) /\ m % s \in Int
  <2>1. m = (m \div s) * s + (m % s) /\ m % s \in 0 .. s - 1
    BY <1>1, <1>4, Division
  <2> QED BY <2>1
<1>7. m % s = r
  <2>1. m = p + (m % s)
    BY <1>5, <1>6 DEF p
  <2> QED BY <1>1, <1>2, <1>3, <1>6, <2>1
<1> QED BY <1>1, <1>4, <1>5, <1>7 DEF m, p

\* Coordinates inside a shape are those at their place.
LEMMA CoordIs ==
  ASSUME NEW s \in Seq(Nat), NEW c, DOMAIN c = 1 .. Len(s),
         \A d \in 1 .. Len(s) : c[d] \in 0 .. s[d] - 1
  PROVE  \A d \in 1 .. Len(s) : CoordAt(s, Place(s, c))[d] = c[d]
<1> DEFINE n == Len(s)
<1>1. n \in Nat /\ DOMAIN s = 1 .. n /\ \A d \in 1 .. n : s[d] \in Nat /\ c[d] \in Nat /\ c[d] <= s[d] - 1
  OBVIOUS
<1>2. Product(s) >= 1
  BY AtInside
<1>3. PICK r : /\ r = [d \in 0 .. n |-> Product(After(s, d))] /\ r[n] = 1
               /\ \A d \in 0 .. n : r[d] \in Nat /\ r[d] >= 1
               /\ \A d \in 1 .. n : r[d - 1] = s[d] * r[d]
  BY <1>2, StepsAre
<1>4. PICK P : Horner(P, s, c, n) /\ Place(s, c) = P[n]
  BY <1>1, PlaceIs
<1>5. P[0] = 0 /\ \A k \in 1 .. n : P[k] = P[k - 1] * s[k] + c[k]
  BY <1>4 DEF Horner
<1> HIDE DEF n
<1>6. \A d \in 0 .. n : P[d] \in Nat
  <2> DEFINE T == {d \in Nat : P[d] \in Nat}
  <2>1. 0 \in T
    BY <1>5
  <2>2. ASSUME NEW d \in 1 .. n, d - 1 \in T
        PROVE  d \in T
    <3>1. P[d - 1] * s[d] \in Nat
      BY <1>1, <2>2, MulNat
    <3>2. P[d] = P[d - 1] * s[d] + c[d] /\ c[d] \in Nat /\ d \in Nat
      BY <1>1, <1>5
    <3> DEFINE p == P[d - 1] * s[d]
    <3>3. p \in Nat /\ P[d] = p + c[d]
      BY <3>1, <3>2
    <3> HIDE DEF p
    <3>4. P[d] \in Nat
      BY <3>2, <3>3
    <3> QED BY <3>2, <3>4
  <2>3. T \in SUBSET Nat
    OBVIOUS
  <2>4. 0 .. n \subseteq T
    <3> HIDE DEF T
    <3> QED BY <1>1, <2>1, <2>2, <2>3, CountsUpTo
  <2> QED BY <2>4
<1>7. \A d \in 0 .. n : P[d] * r[d] <= P[n] /\ P[n] <= P[d] * r[d] + r[d] - 1
  <2> DEFINE T == {k \in Nat : k \in 0 .. n => /\ P[n - k] * r[n - k] <= P[n]
                                               /\ P[n] <= P[n - k] * r[n - k] + r[n - k] - 1}
  <2>1. 0 \in T
    <3>1. P[n] \in Nat /\ P[n] * 1 = P[n] /\ n - 0 = n /\ n \in 0 .. n
      BY <1>1, <1>6
    <3> QED BY <1>3, <3>1
  <2>2. ASSUME NEW k \in 1 .. n, k - 1 \in T
        PROVE  k \in T
    <3> DEFINE d == n - (k - 1)
    <3>1. d \in 1 .. n /\ n - k = d - 1 /\ d - 1 \in 0 .. n /\ d \in 0 .. n /\ k - 1 \in 0 .. n /\ n \in 0 .. n
      BY <1>1
    <3>2. P[d] * r[d] <= P[n] /\ P[n] <= P[d] * r[d] + r[d] - 1
      BY <2>2, <3>1
    <3> HIDE DEF d
    <3>3. r[d - 1] = s[d] * r[d] /\ P[d] = P[d - 1] * s[d] + c[d]
      BY <1>3, <1>5, <3>1
    <3>4. P[d - 1] \in Nat /\ P[d] \in Nat /\ P[n] \in Nat /\ r[d] \in Nat /\ r[d] >= 1 /\ s[d] \in Nat
          /\ c[d] \in Nat /\ c[d] <= s[d] - 1 /\ r[d - 1] \in Nat
      BY <1>1, <1>3, <1>6, <3>1
    <3> DEFINE p == P[d - 1] * s[d]
               base == P[d - 1] * r[d - 1]
    <3>5. p \in Nat /\ p * r[d] = base /\ base \in Nat
      <4>1. (P[d - 1] * s[d]) * r[d] = P[d - 1] * (s[d] * r[d])
        <5>1. P[d - 1] \in Int /\ s[d] \in Int /\ r[d] \in Int
          BY <3>4
        <5> QED BY <5>1, Assoc
      <4>2. p \in Nat /\ base \in Nat
        BY <3>4, MulNat
      <4> QED BY <3>3, <4>1, <4>2
    <3>6. P[d] * r[d] = base + c[d] * r[d]
      <4>1. (p + c[d]) * r[d] = p * r[d] + c[d] * r[d]
        BY <3>4, <3>5, Distributes
      <4> QED BY <3>3, <3>5, <4>1
    <3>7. c[d] * r[d] \in Nat /\ c[d] * r[d] <= r[d - 1] - r[d]
      <4>1. c[d] * r[d] <= (s[d] - 1) * r[d] /\ c[d] * r[d] \in Nat
        <5>1. c[d] \in Int /\ s[d] - 1 \in Int /\ r[d] \in Nat /\ c[d] \in Nat /\ c[d] <= s[d] - 1
          BY <3>4
        <5> QED BY <5>1, Scaled, MulNat
      <4>2. (s[d] - 1) * r[d] = s[d] * r[d] - r[d]
        <5>1. s[d] \in Int /\ r[d] \in Nat
          BY <3>4
        <5> QED BY <5>1, PredecessorTimes
      <4> QED BY <3>3, <4>1, <4>2
    <3> DEFINE cr == c[d] * r[d]
               pr == P[d] * r[d]
    <3>8. base <= P[n] /\ P[n] <= base + r[d - 1] - 1
      <4>1. pr <= P[n] /\ P[n] <= pr + r[d] - 1 /\ pr = base + cr /\ cr \in Nat /\ cr <= r[d - 1] - r[d]
        BY <3>2, <3>6, <3>7
      <4>2. base \in Nat /\ P[n] \in Nat /\ r[d] \in Nat /\ r[d - 1] \in Nat
        BY <3>4, <3>5
      <4> HIDE DEF p, base, cr, pr
      <4> QED BY <4>1, <4>2
    <3> HIDE DEF cr, pr, p
    <3>9. k \in Nat /\ P[n - k] * r[n - k] = base /\ r[n - k] = r[d - 1]
      BY <3>1
    <3> QED BY <3>8, <3>9
  <2>3. T \in SUBSET Nat
    OBVIOUS
  <2>4. 0 .. n \subseteq T
    <3> HIDE DEF T
    <3> QED BY <1>1, <2>1, <2>2, <2>3, CountsUpTo
  <2>5. ASSUME NEW d \in 0 .. n
        PROVE  P[d] * r[d] <= P[n] /\ P[n] <= P[d] * r[d] + r[d] - 1
    <3>1. n - d \in 0 .. n /\ n - (n - d) = d
      BY <1>1
    <3>2. n - d \in T
      BY <2>4, <3>1
    <3> QED BY <3>1, <3>2
  <2> QED BY <2>5
<1> SUFFICES ASSUME NEW d \in 1 .. n
             PROVE  CoordAt(s, P[n])[d] = c[d]
  BY <1>4 DEF n
<1>8. CoordAt(s, P[n])[d] = (P[n] \div r[d]) % s[d]
  BY <1>1, <1>3 DEF CoordAt
<1>9. P[n] \div r[d] = P[d]
  <2>1. d \in 0 .. n /\ n \in 0 .. n
    BY <1>1
  <2>2. P[d] \in Nat /\ P[n] \in Nat /\ r[d] \in Nat /\ r[d] >= 1
    BY <1>3, <1>6, <2>1
  <2> DEFINE pr == P[d] * r[d]
  <2>3. (P[d] + 1) * r[d] = pr + r[d] /\ pr \in Nat
    <3>1. (P[d] + 1) * r[d] = P[d] * r[d] + 1 * r[d]
      BY <2>2, Distributes
    <3> QED BY <2>2, <3>1, MulNat
  <2>4. pr <= P[n] /\ P[n] <= pr + r[d] - 1
    BY <1>7, <2>1
  <2>5. P[n] < (P[d] + 1) * r[d]
    <3> HIDE DEF pr
    <3> QED BY <2>2, <2>3, <2>4
  <2> QED BY <2>2, <2>4, <2>5, DivisionIs
<1>10. P[d] % s[d] = c[d]
  <2>1. d - 1 \in 0 .. n /\ P[d - 1] \in Nat /\ s[d] \in Nat /\ c[d] \in 0 .. s[d] - 1
    BY <1>1, <1>6
  <2>2. P[d] = P[d - 1] * s[d] + c[d]
    BY <1>5
  <2>3. (P[d - 1] * s[d] + c[d]) % s[d] = c[d]
    <3> DEFINE q == P[d - 1]
               t == s[d]
               e == c[d]
    <3>1. q \in Nat /\ t \in Nat /\ e \in 0 .. t - 1
      BY <2>1
    <3> HIDE DEF q, t, e
    <3>2. (q * t + e) % t = e
      BY <3>1, RemainderOf
    <3> QED BY <3>2 DEF q, t, e
  <2> QED BY <2>2, <2>3
<1> QED BY <1>8, <1>9, <1>10

LEMMA PlaceJoins ==
  ASSUME NEW s \in Seq(Nat), NEW t \in Seq(Nat), NEW c \in Seq(Int), NEW e \in Seq(Int),
         Len(c) = Len(s), Len(e) = Len(t)
  PROVE  Place(s \o t, c \o e) = Place(s, c) * Product(t) + Place(t, e)
<1> DEFINE n == Len(s)
           m == Len(t)
           u == s \o t
           v == c \o e
<1>1. n \in Nat /\ m \in Nat /\ DOMAIN s = 1 .. n /\ DOMAIN t = 1 .. m /\ DOMAIN u = 1 .. n + m
  OBVIOUS
<1>2. \A d \in 1 .. n : u[d] = s[d] /\ v[d] = c[d] /\ s[d] \in Nat /\ c[d] \in Int
  OBVIOUS
<1>3. \A d \in 1 .. m : u[n + d] = t[d] /\ v[n + d] = e[d] /\ t[d] \in Nat /\ e[d] \in Int
  OBVIOUS
<1> HIDE DEF u, v, n, m
<1>4. PICK P : Horner(P, u, v, n + m) /\ Place(u, v) = P[n + m]
  BY <1>1, PlaceIs
<1>5. PICK A : Horner(A, s, c, n) /\ Place(s, c) = A[n]
  BY <1>1, PlaceIs
<1>6. PICK B : Horner(B, t, e, m) /\ Place(t, e) = B[m]
  BY <1>1, PlaceIs
<1>7. PICK q : Partials(q, "times", 1, t, m) /\ Product(t) = q[m]
  BY <1>1, ProductIs
<1>8. /\ P[0] = 0 /\ \A k \in 1 .. n + m : P[k] = P[k - 1] * u[k] + v[k]
      /\ A[0] = 0 /\ \A k \in 1 .. n : A[k] = A[k - 1] * s[k] + c[k]
      /\ B[0] = 0 /\ \A k \in 1 .. m : B[k] = B[k - 1] * t[k] + e[k]
      /\ q[0] = 1 /\ \A k \in 1 .. m : q[k] = q[k - 1] * t[k]
  <2>1. \A k \in 0 .. m : q[k] = IF k = 0 THEN 1 ELSE q[k - 1] * t[k]
    BY <1>7 DEF Partials, Took
  <2>2. q[0] = 1 /\ \A k \in 1 .. m : q[k] = q[k - 1] * t[k]
    BY <1>1, <2>1
  <2> QED BY <1>4, <1>5, <1>6, <2>2 DEF Horner
<1>9. A[n] = P[n] /\ A[n] \in Int
  <2> DEFINE T == {k \in Nat : k \in 0 .. n => A[k] = P[k] /\ A[k] \in Int}
  <2>1. 0 \in T
    BY <1>8
  <2>2. ASSUME NEW k \in 1 .. n, k - 1 \in T
        PROVE  k \in T
    <3>1. A[k - 1] = P[k - 1] /\ A[k - 1] \in Int /\ k \in 1 .. n + m /\ k \in Nat
      BY <1>1, <2>2
    <3>2. A[k] = A[k - 1] * s[k] + c[k] /\ P[k] = P[k - 1] * u[k] + v[k]
      BY <1>8, <3>1
    <3>3. s[k] \in Nat /\ c[k] \in Int /\ u[k] = s[k] /\ v[k] = c[k]
      BY <1>2
    <3>4. A[k - 1] * s[k] \in Int
      BY <3>1, <3>3, MulInt, NatIsInt
    <3>5. A[k] = P[k] /\ A[k] \in Int
      BY <3>1, <3>2, <3>3, <3>4
    <3> QED BY <3>1, <3>5
  <2>3. T \in SUBSET Nat /\ n \in 0 .. n
    BY <1>1
  <2>4. n \in T
    <3> HIDE DEF T
    <3> QED BY <1>1, <2>1, <2>2, <2>3, CountsUpTo
  <2> QED BY <2>3, <2>4
<1>10. P[n + m] = A[n] * q[m] + B[m]
  <2> DEFINE T == {k \in Nat : k \in 0 .. m => /\ P[n + k] = A[n] * q[k] + B[k]
                                               /\ q[k] \in Int /\ B[k] \in Int}
  <2>1. 0 \in T
    BY <1>1, <1>8, <1>9
  <2>2. ASSUME NEW k \in 1 .. m, k - 1 \in T
        PROVE  k \in T
    <3>1. /\ P[n + (k - 1)] = A[n] * q[k - 1] + B[k - 1] /\ q[k - 1] \in Int /\ B[k - 1] \in Int
          /\ n + k \in 1 .. n + m /\ (n + k) - 1 = n + (k - 1) /\ k \in Nat
      BY <1>1, <2>2
    <3>2. P[n + k] = P[(n + k) - 1] * u[n + k] + v[n + k]
      BY <1>8, <3>1
    <3>3. /\ t[k] \in Int /\ e[k] \in Int /\ u[n + k] = t[k] /\ v[n + k] = e[k]
          /\ B[k] = B[k - 1] * t[k] + e[k] /\ q[k] = q[k - 1] * t[k]
      BY <1>3, <1>8, NatIsInt
    <3> DEFINE w == A[n] * q[k - 1]
    <3>4. w \in Int /\ w * t[k] = A[n] * q[k]
      <4>1. w \in Int
        BY <1>9, <3>1, MulInt
      <4>2. (A[n] * q[k - 1]) * t[k] = A[n] * (q[k - 1] * t[k])
        BY <1>9, <3>1, <3>3, Assoc
      <4> QED BY <3>3, <4>1, <4>2
    <3> HIDE DEF w
    <3>5. (w + B[k - 1]) * t[k] = w * t[k] + B[k - 1] * t[k]
      BY <3>1, <3>3, <3>4, Distributes
    <3>6. q[k] \in Int /\ B[k - 1] * t[k] \in Int /\ A[n] * q[k] \in Int
      <4>1. q[k] \in Int /\ B[k - 1] * t[k] \in Int
        BY <3>1, <3>3, MulInt
      <4> QED BY <1>9, <4>1, MulInt
    <3>7. P[n + k] = (w + B[k - 1]) * t[k] + e[k]
      BY <3>1, <3>2, <3>3 DEF w
    <3> DEFINE bt == B[k - 1] * t[k]
               aq == A[n] * q[k]
    <3>8. P[n + k] = aq + B[k] /\ B[k] \in Int
      <4>1. P[n + k] = (aq + bt) + e[k] /\ B[k] = bt + e[k] /\ aq \in Int /\ bt \in Int
        BY <3>3, <3>4, <3>5, <3>6, <3>7
      <4> HIDE DEF aq, bt
      <4> QED BY <3>3, <4>1
    <3> QED BY <3>1, <3>6, <3>8
  <2>3. T \in SUBSET Nat /\ m \in 0 .. m
    BY <1>1
  <2>4. m \in T
    <3> HIDE DEF T
    <3> QED BY <1>1, <2>1, <2>2, <2>3, CountsUpTo
  <2> QED BY <2>3, <2>4
<1> QED BY <1>4, <1>5, <1>6, <1>7, <1>9, <1>10 DEF u, v

LEMMA CoordSeq ==
  ASSUME NEW s \in Seq(Nat), NEW i \in 0 .. Product(s) - 1
  PROVE  CoordAt(s, i) \in Seq(Nat) /\ Len(CoordAt(s, i)) = Len(s)
<1>1. DOMAIN s = 1 .. Len(s) /\ Len(s) \in Nat /\ \A d \in 1 .. Len(s) : s[d] \in Nat
  OBVIOUS
<1>2. CoordAt(s, i) = [d \in 1 .. Len(s) |-> CoordAt(s, i)[d]]
  BY <1>1 DEF CoordAt
<1>3. \A d \in 1 .. Len(s) : CoordAt(s, i)[d] \in 0 .. s[d] - 1
  BY CoordInside
<1>4. \A d \in 1 .. Len(s) : CoordAt(s, i)[d] \in Nat
  BY <1>1, <1>3
<1>5. Lists(CoordAt(s, i), Len(s))
  BY <1>2, <1>4, Zenon DEF Lists
<1> QED BY <1>1, <1>5, ListIs

\* The coordinates in a shape that is two behind each other are those in the first, of
\* the quotient, and those in the second, of the remainder.
LEMMA CoordJoins ==
  ASSUME NEW s \in Seq(Nat), NEW t \in Seq(Nat), NEW i \in 0 .. Product(s \o t) - 1
  PROVE  /\ Product(t) \in Nat /\ Product(t) >= 1
         /\ i \div Product(t) \in 0 .. Product(s) - 1 /\ i % Product(t) \in 0 .. Product(t) - 1
         /\ CoordAt(s \o t, i) = CoordAt(s, i \div Product(t)) \o CoordAt(t, i % Product(t))
<1> DEFINE S == Product(s)
           T == Product(t)
           u == s \o t
           h == i \div T
           l == i % T
           c == CoordAt(s, h)
           e == CoordAt(t, l)
<1>1. S \in Nat /\ T \in Nat /\ u \in Seq(Nat) /\ Product(u) = S * T
  BY ProductNat, ProductJoins
<1>2. i \in Nat /\ i < S * T /\ T >= 1
  <2>1. S * T \in Nat /\ (S * T >= 1 <=> S >= 1 /\ T >= 1)
    BY <1>1, MulNat
  <2> HIDE DEF S, T, u
  <2>2. i \in 0 .. S * T - 1
    BY <1>1 DEF u
  <2> DEFINE p == S * T
  <2>3. i \in 0 .. p - 1 /\ p \in Nat /\ (p >= 1 => T >= 1)
    BY <2>1, <2>2
  <2>4. i \in Nat /\ i < p /\ T >= 1
    <3> HIDE DEF p
    <3> QED BY <2>3
  <2> QED BY <2>4
<1>3. h \in 0 .. S - 1
  <2> HIDE DEF S, T
  <2> QED BY <1>1, <1>2, QuotientBelow
<1>4. l \in 0 .. T - 1 /\ i = h * T + l
  <2> HIDE DEF S, T
  <2> QED BY <1>1, <1>2, Division
<1> HIDE DEF h, l
<1>5. c \in Seq(Nat) /\ Len(c) = Len(s) /\ e \in Seq(Nat) /\ Len(e) = Len(t)
  BY <1>3, <1>4, CoordSeq
<1>6. Place(s, c) = h /\ Place(t, e) = l
      /\ (\A d \in 1 .. Len(s) : c[d] \in 0 .. s[d] - 1) /\ (\A d \in 1 .. Len(t) : e[d] \in 0 .. t[d] - 1)
  BY <1>3, <1>4, CoordInside
<1> HIDE DEF c, e
<1>7. c \in Seq(Int) /\ e \in Seq(Int) /\ c \o e \in Seq(Nat) /\ Len(c \o e) = Len(s) + Len(t)
      /\ Len(u) = Len(s) + Len(t) /\ DOMAIN (c \o e) = 1 .. Len(u)
  <2>1. c \in Seq(Int) /\ e \in Seq(Int)
    BY <1>5, NatIsInt, SeqMonotonic
  <2>2. u \in Seq(Nat) /\ Len(u) = Len(s) + Len(t)
    BY ConcatProperties
  <2>3. c \o e \in Seq(Nat) /\ Len(c \o e) = Len(c) + Len(e)
    BY <1>5, ConcatProperties
  <2> DEFINE ce == c \o e
  <2>4. ce \in Seq(Nat) /\ Len(ce) = Len(u)
    BY <1>5, <2>2, <2>3
  <2>5. DOMAIN ce = 1 .. Len(u)
    <3> HIDE DEF ce, u
    <3> QED BY <2>4, LenProperties
  <2> QED BY <1>5, <2>1, <2>2, <2>3, <2>5
<1>8. Place(u, c \o e) = i
  <2>1. Place(u, c \o e) = Place(s, c) * T + Place(t, e)
    BY <1>5, <1>7, PlaceJoins
  <2> HIDE DEF T
  <2> QED BY <1>4, <1>6, <2>1
<1>9. \A d \in 1 .. Len(u) : (c \o e)[d] \in 0 .. u[d] - 1
  <2> SUFFICES ASSUME NEW d \in 1 .. Len(u)
               PROVE  (c \o e)[d] \in 0 .. u[d] - 1
    OBVIOUS
  <2>1. Len(s) \in Nat /\ Len(t) \in Nat /\ d \in 1 .. Len(s) + Len(t)
    BY <1>7
  <2>2. CASE d \in 1 .. Len(s)
    <3>1. (c \o e)[d] = c[d] /\ u[d] = s[d]
      BY <1>5, <2>1, <2>2
    <3> HIDE DEF u
    <3> QED BY <1>6, <2>2, <3>1
  <2>3. CASE d \notin 1 .. Len(s)
    <3>1. d - Len(s) \in 1 .. Len(t)
      BY <2>1, <2>3
    <3>2. (c \o e)[d] = e[d - Len(s)]
      <4>1. d \in 1 .. Len(c) + Len(e) /\ ~(d <= Len(c))
        BY <1>5, <2>1, <2>3
      <4>2. (c \o e)[d] = IF d <= Len(c) THEN c[d] ELSE e[d - Len(c)]
        BY <1>5, <4>1, ConcatProperties
      <4> QED BY <1>5, <4>1, <4>2
    <3>3. u[d] = t[d - Len(s)]
      <4>1. d \in 1 .. Len(s) + Len(t) /\ ~(d <= Len(s))
        BY <2>1, <2>3
      <4>2. (s \o t)[d] = IF d <= Len(s) THEN s[d] ELSE t[d - Len(s)]
        BY <4>1, ConcatProperties
      <4> QED BY <4>1, <4>2
    <3> HIDE DEF u
    <3> QED BY <1>6, <3>1, <3>2, <3>3
  <2> QED BY <2>2, <2>3
<1>10. \A d \in 1 .. Len(u) : CoordAt(u, i)[d] = (c \o e)[d]
  <2> HIDE DEF u
  <2> QED BY <1>1, <1>7, <1>8, <1>9, CoordIs
<1>11. CoordAt(u, i) \in Seq(Nat) /\ Len(CoordAt(u, i)) = Len(u)
  <2>1. i \in 0 .. Product(u) - 1
    OBVIOUS
  <2> HIDE DEF u
  <2> QED BY <1>1, <2>1, CoordSeq
<1>12. CoordAt(u, i) = c \o e
  <2> HIDE DEF u
  <2> QED BY <1>7, <1>10, <1>11, SeqEqual
<1> QED BY <1>1, <1>2, <1>3, <1>4, <1>12 DEF h, l, c, e

LEMMA CoordThree ==
  ASSUME NEW s \in Seq(Nat), NEW t \in Seq(Nat), NEW u \in Seq(Nat), NEW i \in 0 .. Product((s \o t) \o u) - 1
  PROVE  /\ Product(t) \in Nat /\ Product(t) >= 1 /\ Product(u) \in Nat /\ Product(u) >= 1
         /\ i \div (Product(t) * Product(u)) \in 0 .. Product(s) - 1
         /\ (i \div Product(u)) % Product(t) \in 0 .. Product(t) - 1
         /\ i % Product(u) \in 0 .. Product(u) - 1
         /\ CoordAt((s \o t) \o u, i)
              = (CoordAt(s, i \div (Product(t) * Product(u))) \o CoordAt(t, (i \div Product(u)) % Product(t)))
                  \o CoordAt(u, i % Product(u))
<1> DEFINE T == Product(t)
           U == Product(u)
           st == s \o t
           h == i \div U
<1>1. st \in Seq(Nat)
  BY ProductJoins
<1>2. /\ U \in Nat /\ U >= 1 /\ h \in 0 .. Product(st) - 1 /\ i % U \in 0 .. U - 1
      /\ CoordAt(st \o u, i) = CoordAt(st, h) \o CoordAt(u, i % U)
  <2>1. i \in 0 .. Product(st \o u) - 1
    OBVIOUS
  <2> HIDE DEF st
  <2> QED BY <1>1, <2>1, CoordJoins
<1>3. /\ T \in Nat /\ T >= 1 /\ h \div T \in 0 .. Product(s) - 1 /\ h % T \in 0 .. T - 1
      /\ CoordAt(s \o t, h) = CoordAt(s, h \div T) \o CoordAt(t, h % T)
  <2>1. h \in 0 .. Product(s \o t) - 1
    BY <1>2
  <2> HIDE DEF h
  <2> QED BY <2>1, CoordJoins
<1>4. i \div (T * U) = h \div T
  <2>1. i \in Nat
    OBVIOUS
  <2> HIDE DEF T, U
  <2> QED BY <1>2, <1>3, <2>1, DivisionTwice
<1> QED BY <1>2, <1>3, <1>4

LEMMA PlaceThree ==
  ASSUME NEW s \in Seq(Nat), NEW t \in Seq(Nat), NEW u \in Seq(Nat),
         NEW c \in Seq(Int), NEW e \in Seq(Int), NEW f \in Seq(Int),
         Len(c) = Len(s), Len(e) = Len(t), Len(f) = Len(u)
  PROVE  Place((s \o t) \o u, (c \o e) \o f)
           = (Place(s, c) * Product(t) + Place(t, e)) * Product(u) + Place(u, f)
<1> DEFINE st == s \o t
           ce == c \o e
<1>1. st \in Seq(Nat) /\ ce \in Seq(Int) /\ Len(ce) = Len(st)
  <2>1. s \o t \in Seq(Nat) /\ Len(s \o t) = Len(s) + Len(t)
    BY ConcatProperties
  <2>2. c \o e \in Seq(Int) /\ Len(c \o e) = Len(c) + Len(e)
    BY ConcatProperties
  <2> QED BY <2>1, <2>2
<1>2. Place(st \o u, ce \o f) = Place(st, ce) * Product(u) + Place(u, f)
  <2> HIDE DEF st, ce
  <2> QED BY <1>1, PlaceJoins
<1>3. Place(s \o t, c \o e) = Place(s, c) * Product(t) + Place(t, e)
  BY PlaceJoins
<1> QED BY <1>2, <1>3

\* A sequence is what is before an axis, the axis, and what is after it.
LEMMA AxisSplits ==
  ASSUME NEW S, NEW s \in Seq(S), NEW a \in 1 .. Len(s)
  PROVE  /\ s = (Before(s, a) \o <<s[a]>>) \o After(s, a)
         /\ Before(s, a) \in Seq(S) /\ After(s, a) \in Seq(S)
         /\ Len(Before(s, a)) = a - 1 /\ Len(After(s, a)) = Len(s) - a
<1> DEFINE b == Before(s, a)
           f == After(s, a)
           m == <<s[a]>>
           w == (b \o m) \o f
<1>1. Len(s) \in Nat /\ a \in Int /\ \A i \in 1 .. Len(s) : s[i] \in S
  BY LenProperties, ElementOfSeq
<1>2. b \in Seq(S) /\ Len(b) = a - 1 /\ \A i \in 1 .. a - 1 : b[i] = s[i]
  <2>1. 1 \in Int /\ a - 1 \in Int /\ \A i \in 1 .. a - 1 : s[i] \in S
    BY <1>1
  <2>2. /\ SubSeq(s, 1, a - 1) \in Seq(S)
        /\ Len(SubSeq(s, 1, a - 1)) = (IF 1 <= a - 1 THEN (a - 1) - 1 + 1 ELSE 0)
        /\ \A i \in 1 .. (a - 1) - 1 + 1 : SubSeq(s, 1, a - 1)[i] = s[1 + i - 1]
    BY <2>1, SubSeqProperties
  <2>3. b = SubSeq(s, 1, a - 1)
    BY DEF Before
  <2> HIDE DEF b
  <2> QED BY <1>1, <2>2, <2>3
<1>3. f \in Seq(S) /\ Len(f) = Len(s) - a /\ \A i \in 1 .. Len(s) - a : f[i] = s[a + i]
  <2>1. a + 1 \in Int /\ Len(s) \in Int /\ \A i \in a + 1 .. Len(s) : s[i] \in S
    BY <1>1
  <2>2. /\ SubSeq(s, a + 1, Len(s)) \in Seq(S)
        /\ Len(SubSeq(s, a + 1, Len(s))) = (IF a + 1 <= Len(s) THEN Len(s) - (a + 1) + 1 ELSE 0)
        /\ \A i \in 1 .. Len(s) - (a + 1) + 1 : SubSeq(s, a + 1, Len(s))[i] = s[(a + 1) + i - 1]
    BY <2>1, SubSeqProperties
  <2>3. f = SubSeq(s, a + 1, Len(s))
    BY DEF After
  <2> HIDE DEF f
  <2> QED BY <1>1, <2>2, <2>3
<1>4. m \in Seq(S) /\ Len(m) = 1 /\ m[1] = s[a]
  BY <1>1
<1> HIDE DEF b, f, m
<1>5. /\ b \o m \in Seq(S) /\ Len(b \o m) = Len(b) + Len(m)
      /\ \A i \in 1 .. Len(b) + Len(m) : (b \o m)[i] = IF i <= Len(b) THEN b[i] ELSE m[i - Len(b)]
  BY <1>2, <1>4, ConcatProperties
<1> DEFINE bm == b \o m
<1>6. bm \in Seq(S) /\ Len(bm) = a /\ \A i \in 1 .. a : bm[i] = s[i]
  <2>1. Len(bm) = a /\ \A i \in 1 .. a : bm[i] = IF i <= a - 1 THEN b[i] ELSE m[i - (a - 1)]
    BY <1>1, <1>2, <1>4, <1>5
  <2> HIDE DEF bm
  <2>2. \A i \in 1 .. a : bm[i] = s[i]
    <3> SUFFICES ASSUME NEW i \in 1 .. a
                 PROVE  bm[i] = s[i]
      OBVIOUS
    <3>1. CASE i <= a - 1
      BY <1>2, <2>1, <3>1
    <3>2. CASE i = a
      <4>1. i - (a - 1) = 1 /\ ~(i <= a - 1)
        BY <1>1, <3>2
      <4> QED BY <1>4, <2>1, <3>2, <4>1
    <3> QED BY <3>1, <3>2
  <2> QED BY <1>5, <2>1, <2>2 DEF bm
<1> HIDE DEF bm
<1>7. /\ bm \o f \in Seq(S) /\ Len(bm \o f) = Len(bm) + Len(f)
      /\ \A i \in 1 .. Len(bm) + Len(f) : (bm \o f)[i] = IF i <= Len(bm) THEN bm[i] ELSE f[i - Len(bm)]
  BY <1>3, <1>6, ConcatProperties
<1>8. Len(bm \o f) = Len(s) /\ \A i \in 1 .. Len(s) : (bm \o f)[i] = IF i <= a THEN bm[i] ELSE f[i - a]
  BY <1>1, <1>3, <1>6, <1>7
<1>9. \A i \in 1 .. Len(s) : s[i] = (bm \o f)[i]
  <2> SUFFICES ASSUME NEW i \in 1 .. Len(s)
               PROVE  s[i] = (bm \o f)[i]
    OBVIOUS
  <2>1. CASE i <= a
    BY <1>1, <1>6, <1>8, <2>1
  <2>2. CASE ~(i <= a)
    <3>1. i - a \in 1 .. Len(s) - a /\ a + (i - a) = i
      BY <1>1, <2>2
    <3> QED BY <1>3, <1>8, <2>2, <3>1
  <2> QED BY <2>1, <2>2
<1>10. s = bm \o f
  BY <1>7, <1>8, <1>9, SeqEqual
<1> QED BY <1>2, <1>3, <1>10 DEF bm, b, m, f

LEMMA OneCoord ==
  ASSUME NEW m \in Nat, NEW p \in 0 .. m - 1
  PROVE  Product(<<m>>) = m /\ Place(<<m>>, <<p>>) = p /\ CoordAt(<<m>>, p) = <<p>>
<1>1. <<m>> \in Seq(Nat) /\ DOMAIN <<m>> = 1 .. 1 /\ Len(<<m>>) = 1 /\ <<m>>[1] = m
      /\ DOMAIN <<p>> = 1 .. 1 /\ <<p>>[1] = p /\ p \in Nat /\ Len(<<p>>) = 1
  OBVIOUS
<1> DEFINE s == <<m>>
           c == <<p>>
<1>2. s \in Seq(Nat) /\ DOMAIN s = 1 .. 1 /\ Len(s) = 1 /\ s[1] = m
      /\ c \in Seq(Nat) /\ DOMAIN c = 1 .. 1 /\ c[1] = p /\ p \in Nat /\ Len(c) = 1
  BY <1>1
<1> HIDE DEF s, c
<1>3. PICK P : Horner(P, s, c, 1) /\ Place(s, c) = P[1]
  <2>1. 1 \in Nat /\ \A k \in 1 .. 1 : s[k] \in Int /\ c[k] \in Int
    BY <1>2
  <2> DEFINE n == 1
  <2>2. n \in Nat /\ DOMAIN s = 1 .. n /\ \A k \in 1 .. n : s[k] \in Int /\ c[k] \in Int
    BY <1>2, <2>1
  <2>3. \E P : Horner(P, s, c, n) /\ Place(s, c) = P[n]
    <3> HIDE DEF n
    <3> QED BY <2>2, PlaceIs
  <2> QED BY <2>3
<1>4. Place(s, c) = p
  <2>1. P[0] = 0 /\ \A k \in 1 .. 1 : P[k] = P[k - 1] * s[k] + c[k]
    BY <1>3 DEF Horner
  <2>2. P[1] = P[0] * s[1] + c[1]
    BY <2>1
  <2> QED BY <1>2, <1>3, <2>1, <2>2
<1>5. PICK q : Partials(q, "times", 1, s, 1) /\ Product(s) = q[1]
  BY <1>2, ProductIs
<1>6. Product(s) = m
  <2>1. \A k \in 0 .. 1 : q[k] = IF k = 0 THEN 1 ELSE q[k - 1] * s[k]
    BY <1>5 DEF Partials, Took
  <2>2. q[0] = 1 /\ q[1] = q[0] * s[1]
    BY <2>1
  <2> QED BY <1>2, <1>5, <2>2
<1>7. \A d \in 1 .. Len(s) : CoordAt(s, p)[d] = c[d]
  <2>1. \A d \in 1 .. Len(s) : c[d] \in 0 .. s[d] - 1
    BY <1>2
  <2> QED BY <1>2, <1>4, <2>1, CoordIs
<1>8. CoordAt(s, p) \in Seq(Nat) /\ Len(CoordAt(s, p)) = 1
  BY <1>2, <1>6, CoordSeq
<1>9. CoordAt(s, p) = c
  BY <1>2, <1>7, <1>8, SeqEqual
<1> QED BY <1>4, <1>6, <1>9 DEF s, c

\* The coordinates of position p along an axis, in row h before it and place l behind it.
AxisCoord(s, a, h, p, l) == (CoordAt(Before(s, a), h) \o <<p>>) \o CoordAt(After(s, a), l)

LEMMA AxisPlace ==
  ASSUME NEW s \in Seq(Nat), NEW a \in 1 .. Len(s), NEW h \in 0 .. Product(Before(s, a)) - 1,
         NEW p \in 0 .. s[a] - 1, NEW l \in 0 .. Product(After(s, a)) - 1
  PROVE  /\ Place(s, AxisCoord(s, a, h, p, l)) = h * (s[a] * Product(After(s, a))) + p * Product(After(s, a)) + l
         /\ Place(s, AxisCoord(s, a, h, p, l)) \in 0 .. Product(s) - 1
<1> DEFINE b == Before(s, a)
           f == After(s, a)
           m == s[a]
           T == Product(f)
           cb == CoordAt(b, h)
           cf == CoordAt(f, l)
<1>1. /\ s = (b \o <<m>>) \o f /\ b \in Seq(Nat) /\ f \in Seq(Nat)
  BY AxisSplits
<1>2. Product(b) \in Nat /\ T \in Nat /\ m \in Nat /\ Product(s) = Product(b) * (m * T)
  BY AxisProduct
<1>3. cb \in Seq(Nat) /\ Len(cb) = Len(b) /\ Place(b, cb) = h
  <2> HIDE DEF b
  <2>1. h \in 0 .. Product(b) - 1
    BY DEF b
  <2> QED BY <1>1, <2>1, CoordSeq, CoordInside
<1>4. cf \in Seq(Nat) /\ Len(cf) = Len(f) /\ Place(f, cf) = l
  <2> HIDE DEF f
  <2>1. l \in 0 .. Product(f) - 1
    BY DEF f
  <2> QED BY <1>1, <2>1, CoordSeq, CoordInside
<1>5. h \in 0 .. Product(b) - 1 /\ p \in 0 .. m - 1 /\ l \in 0 .. T - 1
  OBVIOUS
<1> HIDE DEF b, f, m, T, cb, cf
<1>6. Product(<<m>>) = m /\ Place(<<m>>, <<p>>) = p /\ h \in Int /\ p \in Int /\ l \in Int
  BY <1>2, <1>5, OneCoord
<1>7. Place((b \o <<m>>) \o f, (cb \o <<p>>) \o cf) = (h * m + p) * T + l
  <2>1. <<m>> \in Seq(Nat) /\ <<p>> \in Seq(Int) /\ Len(<<m>>) = Len(<<p>>) /\ cb \in Seq(Int) /\ cf \in Seq(Int)
    <3>1. cb \in Seq(Int) /\ cf \in Seq(Int)
      BY <1>3, <1>4, NatIsInt, SeqMonotonic
    <3>2. <<m>> \in Seq(Nat) /\ <<p>> \in Seq(Int) /\ Len(<<m>>) = Len(<<p>>)
      BY <1>2, <1>6
    <3> QED BY <3>1, <3>2
  <2> DEFINE mm == <<m>>
             pp == <<p>>
  <2>2. mm \in Seq(Nat) /\ pp \in Seq(Int) /\ Len(mm) = Len(pp) /\ Product(mm) = m /\ Place(mm, pp) = p
    BY <1>6, <2>1
  <2> HIDE DEF mm, pp
  <2>3. Place((b \o mm) \o f, (cb \o pp) \o cf) = (Place(b, cb) * Product(mm) + Place(mm, pp)) * Product(f) + Place(f, cf)
    BY <1>1, <1>3, <1>4, <2>1, <2>2, PlaceThree
  <2> QED BY <1>3, <1>4, <2>2, <2>3 DEF mm, pp, T
<1>8. (h * m + p) * T + l = h * (m * T) + p * T + l
  <2>1. m \in Int /\ T \in Int /\ h * m \in Int
    BY <1>2, <1>6, MulInt, NatIsInt
  <2>2. (h * m + p) * T = (h * m) * T + p * T
    BY <1>6, <2>1, Distributes
  <2>3. (h * m) * T = h * (m * T)
    BY <1>6, <2>1, Assoc
  <2> QED BY <2>2, <2>3
<1>9. h * (m * T) + p * T + l \in 0 .. Product(s) - 1
  BY <1>2, <1>5, ThreeParts
<1> QED BY <1>1, <1>7, <1>8, <1>9, Zenon DEF AxisCoord, cb, cf, b, f, m, T

\* Coordinates that are three behind each other: u, of an axis or more, then v and w.
Cut(S, u, v, w, a, q, c) ==
  /\ u \in Seq(S) /\ v \in Seq(S) /\ w \in Seq(S) /\ a \in Nat /\ a >= 1 /\ q \in Nat
  /\ Len(u) = a - 1 /\ Len(v) = q /\ c = (u \o v) \o w
Pieces(u, v, w, a, q, c) ==
  Before(c, a) = u /\ SubSeq(c, a, a + q - 1) = v /\ SubSeq(c, a + q, Len(c)) = w

\* The parts of coordinates that are three behind each other.
LEMMA CutThree ==
  ASSUME NEW S, NEW u, NEW v, NEW w, NEW a, NEW q, NEW c, Cut(S, u, v, w, a, q, c)
  PROVE  Pieces(u, v, w, a, q, c)
<1> SUFFICES ASSUME u \in Seq(S), v \in Seq(S), w \in Seq(S), a \in Nat, q \in Nat,
                    Len(u) = a - 1, Len(v) = q, a >= 1, c = (u \o v) \o w
             PROVE  Before(c, a) = u /\ SubSeq(c, a, a + q - 1) = v /\ SubSeq(c, a + q, Len(c)) = w
  BY DEF Cut, Pieces
<1> DEFINE uv == u \o v
           r == Len(w)
<1>0. c = uv \o w
  OBVIOUS
<1>1. /\ uv \in Seq(S) /\ Len(uv) = a - 1 + q
      /\ \A i \in 1 .. a - 1 + q : uv[i] = IF i <= a - 1 THEN u[i] ELSE v[i - (a - 1)]
  <2>1. /\ u \o v \in Seq(S) /\ Len(u \o v) = Len(u) + Len(v)
        /\ \A i \in 1 .. Len(u) + Len(v) : (u \o v)[i] = IF i <= Len(u) THEN u[i] ELSE v[i - Len(u)]
    BY ConcatProperties
  <2> QED BY <2>1
<1> HIDE DEF uv
<1>2. /\ c \in Seq(S) /\ Len(c) = a - 1 + q + r /\ r \in Nat
      /\ \A i \in 1 .. a - 1 + q + r : c[i] = IF i <= a - 1 + q THEN uv[i] ELSE w[i - (a - 1 + q)]
  <2>1. /\ uv \o w \in Seq(S) /\ Len(uv \o w) = Len(uv) + Len(w)
        /\ \A i \in 1 .. Len(uv) + Len(w) : (uv \o w)[i] = IF i <= Len(uv) THEN uv[i] ELSE w[i - Len(uv)]
    BY <1>1, ConcatProperties
  <2>2. Len(w) \in Nat
    BY LenProperties
  <2> QED BY <1>0, <1>1, <2>1, <2>2
<1> HIDE DEF r
<1>3. \A i \in 1 .. a - 1 + q + r : c[i] \in S
  BY <1>2, ElementOfSeq
<1>4. SubSeq(c, 1, a - 1) = u
  <2> DEFINE t == SubSeq(c, 1, a - 1)
  <2>1. 1 \in Int /\ a - 1 \in Int /\ \A i \in 1 .. a - 1 : c[i] \in S
    BY <1>2, <1>3
  <2>2. /\ t \in Seq(S) /\ Len(t) = (IF 1 <= a - 1 THEN (a - 1) - 1 + 1 ELSE 0)
        /\ \A i \in 1 .. (a - 1) - 1 + 1 : t[i] = c[1 + i - 1]
    BY <2>1, SubSeqProperties
  <2> HIDE DEF t
  <2>3. Len(t) = a - 1
    BY <2>2
  <2>4. \A i \in 1 .. a - 1 : t[i] = u[i]
    <3> SUFFICES ASSUME NEW i \in 1 .. a - 1
                 PROVE  t[i] = u[i]
      OBVIOUS
    <3>1. i \in 1 .. (a - 1) - 1 + 1 /\ 1 + i - 1 = i /\ i \in 1 .. a - 1 + q + r /\ i <= a - 1 + q /\ i <= a - 1
          /\ i \in 1 .. a - 1 + q
      BY <1>2
    <3> QED BY <1>1, <1>2, <2>2, <3>1
  <2>5. Len(t) = Len(u) /\ \A i \in 1 .. Len(t) : t[i] = u[i]
    BY <2>3, <2>4
  <2> QED BY <2>2, <2>5, SeqEqual DEF t
<1>5. SubSeq(c, a, a + q - 1) = v
  <2> DEFINE t == SubSeq(c, a, a + q - 1)
  <2>1. a \in Int /\ a + q - 1 \in Int /\ \A i \in a .. a + q - 1 : c[i] \in S
    BY <1>2, <1>3
  <2>2. /\ t \in Seq(S) /\ Len(t) = (IF a <= a + q - 1 THEN (a + q - 1) - a + 1 ELSE 0)
        /\ \A i \in 1 .. (a + q - 1) - a + 1 : t[i] = c[a + i - 1]
    BY <2>1, SubSeqProperties
  <2> HIDE DEF t
  <2>3. Len(t) = Len(v) /\ \A i \in 1 .. Len(t) : t[i] = c[a + i - 1]
    <3>1. (a + q - 1) - a + 1 = q /\ (a <= a + q - 1 <=> 1 <= q)
      OBVIOUS
    <3>2. Len(t) = q
      BY <2>2, <3>1
    <3>3. \A i \in 1 .. q : t[i] = c[a + i - 1]
      BY <2>2, <3>1
    <3> QED BY <3>2, <3>3
  <2>4. \A i \in 1 .. q : c[a + i - 1] = v[i]
    <3> SUFFICES ASSUME NEW i \in 1 .. q
                 PROVE  c[a + i - 1] = v[i]
      OBVIOUS
    <3> DEFINE k == a + i - 1
    <3>1. r \in Nat /\ i \in Nat /\ i >= 1 /\ i <= q
      BY <1>2
    <3>2. k \in 1 .. a - 1 + q + r /\ k \in 1 .. a - 1 + q
      BY <3>1
    <3>3. k <= a - 1 + q /\ ~(k <= a - 1) /\ k - (a - 1) = i
      BY <3>1
    <3> HIDE DEF k
    <3> QED BY <1>1, <1>2, <3>2, <3>3 DEF k
  <2>5. \A i \in 1 .. Len(t) : t[i] = v[i]
    BY <2>3, <2>4
  <2> QED BY <2>2, <2>3, <2>5, SeqEqual DEF t
<1>6. SubSeq(c, a + q, Len(c)) = w
  <2> DEFINE t == SubSeq(c, a + q, Len(c))
  <2>1. a + q \in Int /\ Len(c) \in Int /\ \A i \in a + q .. Len(c) : c[i] \in S
    <3>1. a + q \in Int /\ a + q >= 1 /\ Len(c) \in Nat
      BY <1>2
    <3>2. \A i \in 1 .. Len(c) : c[i] \in S
      BY <1>3
    <3>3. \A i \in a + q .. Len(c) : i \in 1 .. Len(c)
      BY <3>1
    <3> QED BY <3>1, <3>2, <3>3
  <2>2. /\ t \in Seq(S) /\ Len(t) = (IF a + q <= Len(c) THEN Len(c) - (a + q) + 1 ELSE 0)
        /\ \A i \in 1 .. Len(c) - (a + q) + 1 : t[i] = c[a + q + i - 1]
    BY <2>1, SubSeqProperties
  <2> HIDE DEF t
  <2>3. Len(t) = r /\ \A i \in 1 .. r : t[i] = c[a + q + i - 1]
    BY <1>2, <2>2
  <2>4. \A i \in 1 .. r : c[a + q + i - 1] = w[i]
    <3> SUFFICES ASSUME NEW i \in 1 .. r
                 PROVE  c[a + q + i - 1] = w[i]
      OBVIOUS
    <3>1. a + q + i - 1 \in 1 .. a - 1 + q + r /\ ~(a + q + i - 1 <= a - 1 + q) /\ a + q + i - 1 - (a - 1 + q) = i
      BY <1>2
    <3> QED BY <1>2, <3>1
  <2>5. Len(t) = Len(w) /\ \A i \in 1 .. Len(t) : t[i] = w[i]
    BY <2>3, <2>4 DEF r
  <2> QED BY <2>2, <2>5, SeqEqual DEF t
<1> QED BY <1>4, <1>5, <1>6 DEF Before


\* Gathering by whole numbers; on the device they must be in range, for nothing looks,
\* and on the host what they are in range of must have elements.
Gathers(j) ==
  /\ j.op = "Gather" /\ Operand(j.x[1]) /\ Operand(j.x[2]) /\ j.x[2].dtype \in {"INT64", "INT32"}
  /\ j.axis \in Int /\ IsAxis(j.axis, Rank(j.x[1]))
  /\ LET in == InRange(j.x[2], j.x[1].shape[Axis(j.axis, Rank(j.x[1]))])
     IN IF IsFloat(j.x[1]) THEN in ELSE in /\ Size(j.x[2]) # 0 => Size(j.x[1]) # 0

LEMMA IndicesAre ==
  ASSUME NEW indices, Operand(indices), indices.dtype \in {"INT64", "INT32"}, NEW m \in Nat
  PROVE  /\ \A i \in DOMAIN indices.data : Indices(indices, m)[i] = Wrapped(indices.data[i], m)
         /\ InRange(indices, m) <=> ~ \E i \in DOMAIN indices.data : indices.data[i] \notin -m .. m - 1
<1>1. \A i \in DOMAIN indices.data : ToInt(indices)[i] = indices.data[i]
  BY DEF ToInt
<1>2. \A i \in DOMAIN indices.data : Indices(indices, m)[i] = Wrapped(indices.data[i], m)
  BY <1>1 DEF Indices
<1>3. \A i \in DOMAIN indices.data : indices.data[i] \in Int
  BY OperandIs
<1>4. \A n \in Int : Wrapped(n, m) \in 0 .. m - 1 <=> n \in -m .. m - 1
  BY DEF Wrapped
<1>5. \A i \in DOMAIN indices.data :
        Indices(indices, m)[i] \in 0 .. m - 1 <=> indices.data[i] \in -m .. m - 1
  BY <1>2, <1>3, <1>4
<1> QED BY <1>2, <1>5 DEF InRange

LEMMA GatherMeantIs ==
  ASSUME NEW x, Operand(x), NEW indices, Operand(indices), indices.dtype \in {"INT64", "INT32"},
         NEW axis \in Int, IsAxis(axis, Rank(x)), InRange(indices, x.shape[Axis(axis, Rank(x))])
  PROVE  LET a   == Axis(axis, Rank(x))
             out == Before(x.shape, a) \o indices.shape \o After(x.shape, a)
         IN /\ out \in Seq(Nat)
            /\ MeantGather(x, indices, axis)
                 = New(x.dtype, out, [o \in 0 .. Product(out) - 1 |->
                     x.data[GatheredFrom(x, indices, a, Size(indices), o)]])
<1> DEFINE a == Axis(axis, Rank(x))
           s == x.shape
           b == Before(s, a)
           f == After(s, a)
           y == indices.shape
           m == s[a]
           q == Rank(indices)
           n == Size(indices)
           out == (b \o y) \o f
           index(c) == Wrapped(At(indices, SubSeq(c, a, a + q - 1)), m)
           meant(c) == At(x, Before(c, a) \o <<index(c)>> \o SubSeq(c, a + q, Len(c)))
<1>1. /\ s \in Seq(Nat) /\ Rank(x) = Len(s) /\ Len(s) \in Nat
      /\ y \in Seq(Nat) /\ q = Len(y) /\ q \in Nat /\ n = Product(y)
      /\ indices.data \in [0 .. Product(y) - 1 -> Int]
  BY OperandIs
<1>2. a \in 1 .. Len(s)
  <2>1. IsAxis(axis, Len(s)) /\ a = Axis(axis, Len(s))
    BY <1>1
  <2> HIDE DEF a, s
  <2> QED BY <1>1, <2>1, AxisInside
<1>3. b \in Seq(Nat) /\ f \in Seq(Nat) /\ m \in Nat /\ Len(b) = a - 1
  <2> HIDE DEF a, s
  <2> QED BY <1>1, <1>2, AxisSplits, AxisProduct
<1>4. out \in Seq(Nat)
  <2>1. b \o y \in Seq(Nat)
    <3> HIDE DEF b, y
    <3> QED BY <1>1, <1>3, ProductJoins
  <2> HIDE DEF b, y, f
  <2> QED BY <1>3, <2>1, ProductJoins
<1>5. /\ \A i \in DOMAIN indices.data : Indices(indices, m)[i] = Wrapped(indices.data[i], m)
      /\ InRange(indices, m)
      /\ \A i \in DOMAIN indices.data : Indices(indices, m)[i] \in 0 .. m - 1
      /\ ~ \E i \in DOMAIN indices.data : indices.data[i] \notin -m .. m - 1
  <2>1. InRange(indices, m)
    OBVIOUS
  <2> HIDE DEF m
  <2>2. \A i \in DOMAIN indices.data : Indices(indices, m)[i] = Wrapped(indices.data[i], m)
    BY <1>3, IndicesAre
  <2>3. ~ \E i \in DOMAIN indices.data : indices.data[i] \notin -m .. m - 1
    BY <1>3, <2>1, IndicesAre
  <2> QED BY <2>1, <2>2, <2>3 DEF InRange
<1>6. MeantGather(x, indices, axis)
        = New(x.dtype, out, [o \in 0 .. Product(out) - 1 |-> meant(CoordAt(out, o))])
  BY <1>5 DEF MeantGather, Make
<1>7. ASSUME NEW o \in 0 .. Product(out) - 1
      PROVE  meant(CoordAt(out, o)) = x.data[GatheredFrom(x, indices, a, n, o)]
  <2> DEFINE T == Product(f)
             h == o \div (n * T)
             p == (o \div T) % n
             l == o % T
             cb == CoordAt(b, h)
             cy == CoordAt(y, p)
             cf == CoordAt(f, l)
             k == Indices(indices, m)[p]
  <2>1. /\ n \in Nat /\ n >= 1 /\ T \in Nat /\ T >= 1
        /\ h \in 0 .. Product(b) - 1 /\ p \in 0 .. n - 1 /\ l \in 0 .. T - 1
        /\ CoordAt(out, o) = (cb \o cy) \o cf
    <3> HIDE DEF b, y, f
    <3>1. b \in Seq(Nat) /\ y \in Seq(Nat) /\ f \in Seq(Nat) /\ o \in 0 .. Product((b \o y) \o f) - 1
      BY <1>1, <1>3
    <3>2. /\ Product(y) \in Nat /\ Product(y) >= 1 /\ Product(f) \in Nat /\ Product(f) >= 1
          /\ o \div (Product(y) * Product(f)) \in 0 .. Product(b) - 1
          /\ (o \div Product(f)) % Product(y) \in 0 .. Product(y) - 1
          /\ o % Product(f) \in 0 .. Product(f) - 1
          /\ CoordAt((b \o y) \o f, o)
               = (CoordAt(b, o \div (Product(y) * Product(f))) \o CoordAt(y, (o \div Product(f)) % Product(y)))
                   \o CoordAt(f, o % Product(f))
      BY <3>1, CoordThree
    <3>3. n = Product(y)
      BY <1>1
    <3> QED BY <3>2, <3>3, Zenon
  <2> HIDE DEF h, p, l
  <2>2. /\ cb \in Seq(Nat) /\ Len(cb) = a - 1
    <3> HIDE DEF b
    <3> QED BY <1>3, <2>1, CoordSeq
  <2>3. /\ cy \in Seq(Nat) /\ Len(cy) = q /\ Place(y, cy) = p
    <3> HIDE DEF y
    <3>1. p \in 0 .. Product(y) - 1
      BY <1>1, <2>1
    <3> QED BY <1>1, <3>1, CoordSeq, CoordInside
  <2>4. cf \in Seq(Nat)
    <3> HIDE DEF f
    <3> QED BY <1>3, <2>1, CoordSeq DEF T
  <2> HIDE DEF cb, cy, cf
  <2> DEFINE c == (cb \o cy) \o cf
  <2>5. Before(c, a) = cb /\ SubSeq(c, a, a + q - 1) = cy /\ SubSeq(c, a + q, Len(c)) = cf
    <3>1. a \in Nat /\ a >= 1
      BY <1>2
    <3>2. q \in Nat /\ c = (cb \o cy) \o cf
      BY <1>1
    <3>3. Len(cb) = a - 1 /\ Len(cy) = q /\ cb \in Seq(Nat) /\ cy \in Seq(Nat) /\ cf \in Seq(Nat)
      BY <2>2, <2>3, <2>4
    <3> HIDE DEF a, q, c
    <3>4. Cut(Nat, cb, cy, cf, a, q, c)
      BY <3>1, <3>2, <3>3 DEF Cut
    <3>5. Pieces(cb, cy, cf, a, q, c)
      BY <3>4, CutThree, Zenon
    <3> QED BY <3>5, Zenon DEF Pieces
  <2>6. index(c) = k /\ k \in 0 .. m - 1
    <3>1. At(indices, cy) = indices.data[p]
      BY <2>3 DEF At
    <3>2. p \in DOMAIN indices.data
      BY <1>1, <2>1
    <3>3. index(c) = Wrapped(indices.data[p], m)
      BY <2>5, <3>1
    <3> QED BY <1>5, <3>2, <3>3
  <2>7. meant(c) = x.data[Place(s, AxisCoord(s, a, h, k, l))]
    <3>1. meant(c) = At(x, cb \o <<k>> \o cf)
      BY <2>5, <2>6
    <3> QED BY <3>1 DEF At, AxisCoord, cb, cf
  <2>8. Place(s, AxisCoord(s, a, h, k, l)) = h * (m * T) + k * T + l
    <3>1. k \in 0 .. s[a] - 1
      BY <2>6
    <3> HIDE DEF k, a, s
    <3>2. h \in 0 .. Product(Before(s, a)) - 1 /\ l \in 0 .. Product(After(s, a)) - 1
      BY <2>1 DEF T, b, f
    <3> QED BY <1>1, <1>2, <3>1, <3>2, AxisPlace DEF T, f
  <2>9. GatheredFrom(x, indices, a, n, o) = h * (m * T) + k * T + l
    <3>1. Inner(x, a) = T
      <4> HIDE DEF a
      <4>1. Inner(x, a) = AtLeastOne(T)
        BY DEF Inner, T
      <4> HIDE DEF T
      <4> QED BY <2>1, <4>1 DEF AtLeastOne
    <3>2. T * n = n * T
      <4> HIDE DEF T, n
      <4> QED BY <2>1
    <3>3. o \div (T * n) = h /\ (o \div T) % n = p /\ o % T = l
      BY <3>2 DEF h, p, l
    <3> HIDE DEF a, n, T
    <3> QED BY <3>1, <3>3 DEF GatheredFrom
  <2> QED BY <2>1, <2>7, <2>8, <2>9
<1> HIDE DEF meant, out, a, n
<1>8. [o \in 0 .. Product(out) - 1 |-> meant(CoordAt(out, o))]
        = [o \in 0 .. Product(out) - 1 |-> x.data[GatheredFrom(x, indices, a, n, o)]]
  BY <1>7
<1> QED BY <1>4, <1>6, <1>8 DEF out, a, n


LEMMA GatherRuns ==
  ASSUME NEW j, Gathers(j)
  PROVE  ResultsMean(j) \/ ThreadsMean(j)
<1> DEFINE x == j.x[1]
           indices == j.x[2]
           a == Axis(j.axis, Rank(x))
           n == Size(indices)
           out == Before(x.shape, a) \o indices.shape \o After(x.shape, a)
           data == [o \in 0 .. Product(out) - 1 |-> x.data[GatheredFrom(x, indices, a, n, o)]]
<1>1. /\ j.op = "Gather" /\ Operand(x) /\ Operand(indices) /\ indices.dtype \in {"INT64", "INT32"}
      /\ j.axis \in Int /\ IsAxis(j.axis, Rank(x)) /\ (IsFloat(x) => InRange(indices, x.shape[a]))
      /\ ~IsFloat(x) /\ InRange(indices, x.shape[a]) /\ n # 0 => Size(x) # 0
  BY DEF Gathers
<1>2. /\ x.shape \in Seq(Nat) /\ x.data \in [0 .. Product(x.shape) - 1 -> Int] /\ Valid(x) /\ Valid(indices)
      /\ TensorOf(Int, indices) /\ Rank(x) = Len(x.shape) /\ Rank(x) \in Nat
  <2>1. /\ x.shape \in Seq(Nat) /\ x.data \in [0 .. Product(x.shape) - 1 -> Int] /\ Valid(x)
        /\ Rank(x) = Len(x.shape) /\ Rank(x) \in Nat
    BY <1>1, OperandIs
  <2>2. Valid(indices)
    BY <1>1, OperandIs
  <2> QED BY <1>1, <2>1, <2>2 DEF Operand
<1>3. x.shape[a] \in Nat
  <2> HIDE DEF x
  <2>1. a \in 1 .. Rank(x)
    BY <1>1, <1>2, AxisInside
  <2> QED BY <1>2, <2>1
<1>4. OperatorMeaning(j) = <<MeantGather(x, indices, j.axis)>>
  BY <1>1 DEF OperatorMeaning
<1>5. OperatorPlan(j) = GatherPlan(j)
  BY <1>1 DEF OperatorPlan
<1>6. InRange(indices, x.shape[a])
        => /\ out \in Seq(Nat) /\ MeantGather(x, indices, j.axis) = New(x.dtype, out, data)
           /\ \A o \in 0 .. Product(out) - 1 :
                /\ AtLeastOne(n) = n
                /\ GatheredFrom(x, indices, a, n, o) \in 0 .. Product(x.shape) - 1
  <2> SUFFICES ASSUME InRange(indices, x.shape[a])
               PROVE  /\ out \in Seq(Nat) /\ MeantGather(x, indices, j.axis) = New(x.dtype, out, data)
                      /\ \A o \in 0 .. Product(out) - 1 :
                           /\ AtLeastOne(n) = n
                           /\ GatheredFrom(x, indices, a, n, o) \in 0 .. Product(x.shape) - 1
    OBVIOUS
  <2>1. out \in Seq(Nat) /\ MeantGather(x, indices, j.axis) = New(x.dtype, out, data)
    BY <1>1, GatherMeantIs
  <2>2. \A o \in 0 .. Product(out) - 1 :
           /\ AtLeastOne(n) = n
           /\ GatheredFrom(x, indices, a, n, o) \in 0 .. Product(x.shape) - 1
    BY <1>1, <1>2, GatherReads
  <2> QED BY <2>1, <2>2
<1>7. CASE IsFloat(x)
  <2>1. x.dtype = "FLOAT"
    BY <1>7 DEF IsFloat
  <2>2. OperatorPlan(j) = One("FLOAT", out)
    BY <1>1, <1>5, <1>7 DEF GatherPlan
  <2>3. OperatorMeaning(j) = <<New("FLOAT", out, data)>>
    BY <1>1, <1>4, <1>6, <1>7, <2>1
  <2>4. ASSUME NEW e \in 0 .. Product(out) - 1
        PROVE  GatherThread(j, e) = data[e]
    <3>1. AtLeastOne(n) = n /\ GatheredFrom(x, indices, a, n, e) \in 0 .. Product(x.shape) - 1
      BY <1>1, <1>6, <1>7
    <3>2. GatherThread(j, e) = Load(x.data, GatheredFrom(x, indices, a, n, e))
      BY <3>1 DEF GatherThread, GatheredFrom
    <3>3. GatheredFrom(x, indices, a, n, e) \in DOMAIN x.data
      BY <1>2, <3>1
    <3> QED BY <3>2, <3>3 DEF Load
  <2>5. \A m : \A e \in 0 .. Product(out) - 1 : OperatorStored(j, m, 1, e) = <<1, e, data[e]>>
    BY <1>1, <2>4 DEF OperatorStored
  <2>6. data = [i \in 0 .. Product(out) - 1 |-> data[i]] /\ out \in Seq(Nat)
    BY <1>1, <1>6, <1>7
  <2> HIDE DEF data, out
  <2> QED BY <2>2, <2>3, <2>5, <2>6, ThreadsAre
<1>8. CASE ~IsFloat(x)
  <2>1. OperatorPlan(j) = Host(<<Gather(x, indices, j.axis)>>)
    BY <1>5, <1>8 DEF GatherPlan
  <2>2. Gather(x, indices, j.axis) = MeantGather(x, indices, j.axis)
    <3>1. CASE InRange(indices, x.shape[a])
      <4>1. Gather(x, indices, j.axis) = New(x.dtype, out, data)
        BY <1>1, <1>2, <1>8, <3>1 DEF Gather, Movable, Moved, GatheredFrom
      <4> QED BY <1>6, <3>1, <4>1
    <3>2. CASE ~InRange(indices, x.shape[a])
      <4>1. Gather(x, indices, j.axis) = Refused
        BY <3>2 DEF Gather
      <4>2. \E i \in DOMAIN indices.data : indices.data[i] \notin -x.shape[a] .. x.shape[a] - 1
        <5> DEFINE m == x.shape[a]
        <5> HIDE DEF m, indices
        <5> QED BY <1>1, <1>3, <3>2, IndicesAre DEF m
      <4> QED BY <4>1, <4>2 DEF MeantGather
    <3> QED BY <3>1, <3>2
  <2> QED BY <1>4, <2>1, <2>2 DEF ResultsMean
<1> QED BY <1>7, <1>8


\* Coordinates at another position of an axis.
Beside(S, u, w, a, p, r) ==
  /\ u \in Seq(S) /\ w \in Seq(S) /\ p \in S /\ r \in S /\ a \in Nat /\ a >= 1 /\ Len(u) = a - 1
Moves(u, w, a, p, r) == Put((u \o <<p>>) \o w, a, r) = (u \o <<r>>) \o w

LEMMA JoinThree ==
  ASSUME NEW S, NEW u, NEW w, NEW a, NEW p, Beside(S, u, w, a, p, p)
  PROVE  LET v == (u \o <<p>>) \o w
         IN /\ v \in Seq(S) /\ Len(v) = a + Len(w) /\ Len(w) \in Nat
            /\ \A i \in 1 .. a + Len(w) : v[i] = IF i < a THEN u[i] ELSE IF i = a THEN p ELSE w[i - a]
<1> DEFINE m == <<p>>
           um == u \o m
           v == um \o w
           r == Len(w)
<1> SUFFICES ASSUME u \in Seq(S), w \in Seq(S), p \in S, a \in Nat, a >= 1, Len(u) = a - 1
             PROVE  /\ v \in Seq(S) /\ Len(v) = a + r /\ r \in Nat
                    /\ \A i \in 1 .. a + r : v[i] = IF i < a THEN u[i] ELSE IF i = a THEN p ELSE w[i - a]
  BY DEF Beside
<1>1. m \in Seq(S) /\ Len(m) = 1 /\ m[1] = p
  OBVIOUS
<1> HIDE DEF m
<1>2. /\ um \in Seq(S) /\ Len(um) = Len(u) + Len(m)
      /\ \A i \in 1 .. Len(u) + Len(m) : um[i] = IF i <= Len(u) THEN u[i] ELSE m[i - Len(u)]
  BY <1>1, ConcatProperties
<1> HIDE DEF um
<1>3. Len(um) = a /\ \A i \in 1 .. a : um[i] = IF i <= a - 1 THEN u[i] ELSE m[i - (a - 1)]
  BY <1>1, <1>2
<1>4. \A i \in 1 .. a : um[i] = IF i < a THEN u[i] ELSE p
  <2> SUFFICES ASSUME NEW i \in 1 .. a
               PROVE  um[i] = IF i < a THEN u[i] ELSE p
    OBVIOUS
  <2>1. CASE i < a
    <3>1. i <= a - 1
      BY <2>1
    <3> QED BY <1>3, <2>1, <3>1
  <2>2. CASE ~(i < a)
    <3>1. i - (a - 1) = 1 /\ ~(i <= a - 1)
      BY <2>2
    <3> QED BY <1>1, <1>3, <2>2, <3>1
  <2> QED BY <2>1, <2>2
<1>5. /\ v \in Seq(S) /\ Len(v) = Len(um) + Len(w)
      /\ \A i \in 1 .. Len(um) + Len(w) : v[i] = IF i <= Len(um) THEN um[i] ELSE w[i - Len(um)]
  <2>1. um \in Seq(S) /\ w \in Seq(S)
    BY <1>2
  <2> QED BY <2>1, ConcatProperties
<1>6. r \in Nat
  BY LenProperties
<1> HIDE DEF v, r
<1>7. Len(v) = a + r /\ \A i \in 1 .. a + r : v[i] = IF i <= a THEN um[i] ELSE w[i - a]
  BY <1>3, <1>5 DEF r
<1>8. \A i \in 1 .. a + r : v[i] = IF i < a THEN u[i] ELSE IF i = a THEN p ELSE w[i - a]
  <2> SUFFICES ASSUME NEW i \in 1 .. a + r
               PROVE  v[i] = IF i < a THEN u[i] ELSE IF i = a THEN p ELSE w[i - a]
    OBVIOUS
  <2>1. CASE i <= a
    <3>1. i \in 1 .. a /\ (~(i < a) => i = a)
      BY <2>1
    <3> QED BY <1>4, <1>7, <2>1, <3>1
  <2>2. CASE ~(i <= a)
    <3>1. ~(i < a) /\ i # a
      BY <2>2
    <3> QED BY <1>7, <2>2, <3>1
  <2> QED BY <2>1, <2>2
<1> QED BY <1>5, <1>6, <1>7, <1>8

LEMMA PutAxis ==
  ASSUME NEW S, NEW u, NEW w, NEW a, NEW p, NEW r, Beside(S, u, w, a, p, r)
  PROVE  Moves(u, w, a, p, r)
<1> DEFINE v == (u \o <<p>>) \o w
           t == (u \o <<r>>) \o w
           y == Put(v, a, r)
           n == a + Len(w)
<1>1. Beside(S, u, w, a, p, p) /\ Beside(S, u, w, a, r, r) /\ r \in S /\ a \in Nat /\ a >= 1
  BY DEF Beside
<1>2. /\ v \in Seq(S) /\ Len(v) = n /\ Len(w) \in Nat
      /\ \A i \in 1 .. n : v[i] = IF i < a THEN u[i] ELSE IF i = a THEN p ELSE w[i - a]
  BY <1>1, JoinThree
<1>3. /\ t \in Seq(S) /\ Len(t) = n
      /\ \A i \in 1 .. n : t[i] = IF i < a THEN u[i] ELSE IF i = a THEN r ELSE w[i - a]
  BY <1>1, JoinThree
<1> HIDE DEF v, t
<1>4. n \in Nat /\ a \in 1 .. n
  BY <1>1, <1>2
<1> HIDE DEF n
<1>5. /\ y \in Seq(S) /\ Len(y) = n
      /\ \A i \in 1 .. n : y[i] = IF i = a THEN r ELSE v[i]
  BY <1>1, <1>2, <1>4, ExceptSeq DEF Put
<1> HIDE DEF y
<1>6. \A i \in 1 .. n : y[i] = t[i]
  <2> SUFFICES ASSUME NEW i \in 1 .. n
               PROVE  y[i] = t[i]
    OBVIOUS
  <2>1. CASE i = a
    <3>1. ~(a < a)
      BY <1>1
    <3> QED BY <1>3, <1>5, <2>1, <3>1
  <2>2. CASE i # a
    BY <1>2, <1>3, <1>5, <2>2
  <2> QED BY <2>1, <2>2
<1>7. y = t
  BY <1>3, <1>5, <1>6, SeqEqual
<1> QED BY <1>7 DEF y, v, t, Moves

\* A list with another element on an axis.
LEMMA PutIs ==
  ASSUME NEW S, NEW s \in Seq(S), NEW a \in 1 .. Len(s), NEW r \in S
  PROVE  Put(s, a, r) = (Before(s, a) \o <<r>>) \o After(s, a)
<1> DEFINE u == Before(s, a)
           w == After(s, a)
           p == s[a]
<1>1. s = (u \o <<p>>) \o w /\ u \in Seq(S) /\ w \in Seq(S) /\ Len(u) = a - 1
  BY AxisSplits
<1>2. p \in S /\ a \in Nat /\ a >= 1
  BY ElementOfSeq
<1> HIDE DEF u, w, p
<1>3. Beside(S, u, w, a, p, r)
  BY <1>1, <1>2 DEF Beside
<1>4. Put((u \o <<p>>) \o w, a, r) = (u \o <<r>>) \o w
  <2>1. Moves(u, w, a, p, r)
    BY <1>3, PutAxis, Zenon
  <2> QED BY <2>1, Zenon DEF Moves
<1> QED BY <1>1, <1>4 DEF u, w


----------------------------------------------------------------------------
(* Reductions.                                                             *)

\* Coordinates in what was reduced, with the first position of the axis.
FullCoord(c, a, keepdims) ==
  IF keepdims THEN c ELSE Before(c, a) \o <<0>> \o SubSeq(c, a, Len(c))

LEMMA FullIs ==
  ASSUME NEW s \in Seq(Nat), NEW a \in 1 .. Len(s), NEW keepdims \in BOOLEAN,
         NEW out, out = Reduced(s, a, keepdims)
  PROVE  /\ out \in Seq(Nat) /\ Product(out) = Product(Before(s, a)) * Product(After(s, a))
         /\ \A i \in 0 .. Product(out) - 1 :
              /\ Product(After(s, a)) >= 1
              /\ i \div Product(After(s, a)) \in 0 .. Product(Before(s, a)) - 1
              /\ i % Product(After(s, a)) \in 0 .. Product(After(s, a)) - 1
              /\ FullCoord(CoordAt(out, i), a, keepdims)
                   = AxisCoord(s, a, i \div Product(After(s, a)), 0, i % Product(After(s, a)))
<1> DEFINE b == Before(s, a)
           f == After(s, a)
           B == Product(b)
           T == Product(f)
           mm == <<1>>
           kept == (b \o mm) \o f
<1>1. b \in Seq(Nat) /\ f \in Seq(Nat) /\ Len(b) = a - 1 /\ a \in Nat /\ a >= 1
  <2>1. Before(s, a) \in Seq(Nat) /\ After(s, a) \in Seq(Nat) /\ Len(Before(s, a)) = a - 1
    BY AxisSplits
  <2> QED BY <2>1
<1>2. B \in Nat /\ T \in Nat
  BY <1>1, ProductNat
<1>3. mm \in Seq(Nat) /\ Product(mm) = 1 /\ CoordAt(mm, 0) = <<0>>
  <2>1. 1 \in Nat /\ 0 \in 0 .. 1 - 1
    OBVIOUS
  <2>2. Product(mm) = 1 /\ CoordAt(mm, 0) = <<0>>
    BY <2>1, OneCoord
  <2> QED BY <2>2
<1> HIDE DEF b, f, mm
<1>4. CASE keepdims
  <2>1. out = kept
    <3>1. out = Put(s, a, 1)
      BY <1>4 DEF Reduced, Put
    <3>2. 1 \in Nat
      OBVIOUS
    <3>3. Put(s, a, 1) = (Before(s, a) \o <<1>>) \o After(s, a)
      BY <3>2, PutIs
    <3> QED BY <3>1, <3>3 DEF b, f, mm
  <2>2. out \in Seq(Nat) /\ Product(out) = B * T
    <3>1. b \o mm \in Seq(Nat) /\ Product(b \o mm) = B * 1
      BY <1>1, <1>3, ProductJoins
    <3>2. kept \in Seq(Nat) /\ Product(kept) = Product(b \o mm) * T
      BY <1>1, <3>1, ProductJoins
    <3>3. B * 1 = B
      <4> HIDE DEF B
      <4> QED BY <1>2
    <3> QED BY <2>1, <3>1, <3>2, <3>3
  <2>3. ASSUME NEW i \in 0 .. Product(out) - 1
        PROVE  /\ T >= 1 /\ i \div T \in 0 .. B - 1 /\ i % T \in 0 .. T - 1
               /\ CoordAt(out, i) = (CoordAt(b, i \div T) \o <<0>>) \o CoordAt(f, i % T)
    <3>1. /\ Product(mm) \in Nat /\ Product(mm) >= 1 /\ T \in Nat /\ T >= 1
          /\ i \div (Product(mm) * T) \in 0 .. B - 1
          /\ (i \div T) % Product(mm) \in 0 .. Product(mm) - 1
          /\ i % T \in 0 .. T - 1
          /\ CoordAt(kept, i)
               = (CoordAt(b, i \div (Product(mm) * T)) \o CoordAt(mm, (i \div T) % Product(mm))) \o CoordAt(f, i % T)
      <4>1. i \in 0 .. Product(kept) - 1
        BY <2>1
      <4> QED BY <1>1, <1>3, <4>1, CoordThree
    <3>2. Product(mm) * T = T
      <4> HIDE DEF T
      <4> QED BY <1>2, <1>3
    <3>3. (i \div T) % Product(mm) = 0
      <4> DEFINE k == (i \div T) % Product(mm)
      <4>1. k \in 0 .. 1 - 1
        BY <1>3, <3>1
      <4> HIDE DEF k
      <4>2. k = 0
        BY <4>1
      <4> QED BY <4>2 DEF k
    <3> HIDE DEF T, B, kept
    <3> QED BY <1>3, <2>1, <3>1, <3>2, <3>3
  <2> HIDE DEF T, B, kept
  <2>4. \A i \in 0 .. Product(out) - 1 :
          /\ T >= 1 /\ i \div T \in 0 .. B - 1 /\ i % T \in 0 .. T - 1
          /\ FullCoord(CoordAt(out, i), a, keepdims) = (CoordAt(b, i \div T) \o <<0>>) \o CoordAt(f, i % T)
    BY <1>4, <2>3 DEF FullCoord
  <2> QED BY <2>2, <2>4, Zenon DEF AxisCoord, b, f, B, T
<1>5. CASE ~keepdims
  <2>1. out = b \o f
    BY <1>5 DEF Reduced, b, f
  <2>2. out \in Seq(Nat) /\ Product(out) = B * T
    BY <1>1, <2>1, ProductJoins
  <2>3. ASSUME NEW i \in 0 .. Product(out) - 1
        PROVE  /\ T >= 1 /\ i \div T \in 0 .. B - 1 /\ i % T \in 0 .. T - 1
               /\ FullCoord(CoordAt(out, i), a, keepdims) = (CoordAt(b, i \div T) \o <<0>>) \o CoordAt(f, i % T)
    <3> DEFINE cb == CoordAt(b, i \div T)
               cf == CoordAt(f, i % T)
               c == CoordAt(out, i)
               e == <<>>
    <3>1. T >= 1 /\ i \div T \in 0 .. B - 1 /\ i % T \in 0 .. T - 1 /\ c = cb \o cf
      <4>1. i \in 0 .. Product(b \o f) - 1
        BY <2>1
      <4> QED BY <1>1, <2>1, <4>1, CoordJoins
    <3>2. cb \in Seq(Nat) /\ Len(cb) = a - 1 /\ cf \in Seq(Nat)
      BY <1>1, <3>1, CoordSeq
    <3> HIDE DEF cb, cf, c
    <3>3. cb \o e = cb /\ e \in Seq(Nat) /\ Len(e) = 0
      BY <3>2, ConcatEmptySeq, EmptySeq
    <3>4. Cut(Nat, cb, e, cf, a, 0, c)
      <4>1. c = (cb \o e) \o cf /\ 0 \in Nat
        BY <3>1, <3>3
      <4> HIDE DEF e
      <4> QED BY <1>1, <3>2, <3>3, <4>1 DEF Cut
    <3> HIDE DEF e
    <3>5. Pieces(cb, e, cf, a, 0, c)
      BY <3>4, CutThree, Zenon
    <3>6. a + 0 = a
      BY <1>1
    <3>7. Before(c, a) = cb /\ SubSeq(c, a, Len(c)) = cf
      BY <3>5, <3>6 DEF Pieces
    <3>8. FullCoord(c, a, keepdims) = (cb \o <<0>>) \o cf
      BY <1>5, <3>7 DEF FullCoord
    <3> QED BY <3>1, <3>8 DEF cb, cf, c
  <2> HIDE DEF T, B
  <2> QED BY <2>2, <2>3, Zenon DEF AxisCoord, b, f, B, T
<1> QED BY <1>4, <1>5


\* A reduction along an axis that is not empty: floats on the device, whole numbers on
\* the host.
Reduces(j) ==
  /\ j.op = "Reduce" /\ Operand(j.x[1]) /\ j.x[1].dtype \in {"FLOAT", "INT64", "INT32"}
  /\ j.axis \in Int /\ IsAxis(j.axis, Rank(j.x[1])) /\ j.keepdims \in BOOLEAN
  /\ j.x[1].shape[Axis(j.axis, Rank(j.x[1]))] >= 1

\* The elements that are reduced to element i, where they lie.
Reads(x, a, i) == [k \in 1 .. x.shape[a] |-> x.data[Row(x, a, i)[k]]]

LEMMA ReduceMeantIs ==
  ASSUME NEW x, Operand(x), NEW axis \in Int, IsAxis(axis, Rank(x)), NEW keepdims \in BOOLEAN,
         NEW a, a = Axis(axis, Rank(x)), x.shape[a] >= 1,
         NEW out, out = Reduced(x.shape, a, keepdims)
  PROVE  /\ out \in Seq(Nat) /\ a \in 1 .. Rank(x) /\ Rows(x, a) = Product(out)
         /\ \A fn : MeantReduce(x, axis, fn, keepdims)
              = New(x.dtype, out, [i \in 0 .. Product(out) - 1 |-> Folded(fn, Reads(x, a, i))])
         /\ \A i \in 0 .. Product(out) - 1 : \A k \in 1 .. x.shape[a] :
              /\ Row(x, a, i)[k] \in 0 .. Product(x.shape) - 1
              /\ Row(x, a, i)[k] = RowBase(i, x.shape[a], Inner(x, a)) + (k - 1) * Inner(x, a)
<1> DEFINE s == x.shape
           m == s[a]
           b == Before(s, a)
           f == After(s, a)
           B == Product(b)
           T == Product(f)
           element(fn, c) == Folded(fn, [k \in 1 .. m |-> At(x, Put(FullCoord(c, a, keepdims), a, k - 1))])
<1>1. s \in Seq(Nat) /\ Rank(x) = Len(s) /\ Len(s) \in Nat /\ Size(x) = Product(s)
  BY OperandIs
<1>2. a \in 1 .. Len(s)
  <2>1. IsAxis(axis, Len(s)) /\ a = Axis(axis, Len(s))
    BY <1>1
  <2> HIDE DEF s
  <2> QED BY <1>1, <2>1, AxisInside
<1>3. /\ b \in Seq(Nat) /\ f \in Seq(Nat) /\ B \in Nat /\ T \in Nat /\ m \in Nat /\ m >= 1
      /\ Product(s) = B * (m * T) /\ Len(b) = a - 1
  <2> HIDE DEF s
  <2> QED BY <1>1, <1>2, AxisProduct, AxisSplits DEF s
<1>4. /\ out \in Seq(Nat) /\ Product(out) = B * T
      /\ \A i \in 0 .. Product(out) - 1 :
           /\ T >= 1 /\ i \div T \in 0 .. B - 1 /\ i % T \in 0 .. T - 1
           /\ FullCoord(CoordAt(out, i), a, keepdims) = AxisCoord(s, a, i \div T, 0, i % T)
  <2> HIDE DEF s
  <2>1. out = Reduced(s, a, keepdims)
    BY DEF s
  <2> QED BY <1>1, <1>2, <2>1, FullIs
<1>5. \A fn : MeantReduce(x, axis, fn, keepdims)
        = New(x.dtype, out, [i \in 0 .. Product(out) - 1 |-> element(fn, CoordAt(out, i))])
  BY DEF MeantReduce, Make, FullCoord
<1> HIDE DEF B, T, m
<1>6. Rows(x, a) = Product(out)
  <2>1. Rows(x, a) = Product(s) \div m
    <3>1. AtLeastOne(m) = m
      BY <1>3 DEF AtLeastOne
    <3> QED BY <1>1, <3>1 DEF Rows, m
  <2>2. B * (m * T) = (B * T) * m /\ B * T \in Nat
    <3>1. m * T = T * m /\ B * (T * m) = (B * T) * m
      BY <1>3, TimesSwap, Assoc, NatIsInt
    <3> QED BY <1>3, <3>1, MulNat
  <2> DEFINE p == B * T
  <2>3. p \in Nat /\ Product(s) = p * m
    BY <1>3, <2>2
  <2> HIDE DEF p
  <2>4. (p * m) \div m = p
    BY <1>3, <2>3, DivExact
  <2> QED BY <1>4, <2>1, <2>3, <2>4 DEF p
<1>7. ASSUME NEW i \in 0 .. Product(out) - 1, NEW k \in 1 .. m
      PROVE  /\ Row(x, a, i)[k] \in 0 .. Product(s) - 1
             /\ Row(x, a, i)[k] = RowBase(i, m, Inner(x, a)) + (k - 1) * Inner(x, a)
             /\ At(x, Put(FullCoord(CoordAt(out, i), a, keepdims), a, k - 1)) = x.data[Row(x, a, i)[k]]
  <2> DEFINE h == i \div T
             l == i % T
             cb == CoordAt(b, h)
             cf == CoordAt(f, l)
             p == k - 1
  <2>1. T >= 1 /\ h \in 0 .. B - 1 /\ l \in 0 .. T - 1 /\ p \in 0 .. m - 1
    <3>1. T >= 1 /\ h \in 0 .. B - 1 /\ l \in 0 .. T - 1
      BY <1>4, <1>7, Zenon
    <3>2. p \in 0 .. m - 1
      BY <1>3, <1>7
    <3> QED BY <3>1, <3>2
  <2>2. Inner(x, a) = T
    <3>1. Inner(x, a) = AtLeastOne(T)
      BY DEF Inner, T
    <3> QED BY <1>3, <2>1, <3>1 DEF AtLeastOne
  <2>3. FullCoord(CoordAt(out, i), a, keepdims) = (cb \o <<0>>) \o cf
    BY <1>4 DEF AxisCoord
  <2> HIDE DEF h, l
  <2>4. cb \in Seq(Nat) /\ Len(cb) = a - 1
    <3> HIDE DEF b
    <3> QED BY <1>3, <2>1, CoordSeq DEF B
  <2>5. cf \in Seq(Nat)
    <3> HIDE DEF f
    <3> QED BY <1>3, <2>1, CoordSeq DEF T
  <2>6. Put((cb \o <<0>>) \o cf, a, p) = AxisCoord(s, a, h, p, l)
    <3>1. p \in Nat /\ 0 \in Nat /\ a \in Nat /\ a >= 1
      BY <1>2, <2>1
    <3> HIDE DEF cb, cf, p
    <3>2. Beside(Nat, cb, cf, a, 0, p)
      BY <2>4, <2>5, <3>1 DEF Beside
    <3>3. Moves(cb, cf, a, 0, p)
      BY <3>2, PutAxis, Zenon
    <3> QED BY <3>3, Zenon DEF Moves, AxisCoord, cb, cf, b, f
  <2> HIDE DEF cb, cf, p
  <2>7. /\ Place(s, AxisCoord(s, a, h, p, l)) = h * (m * T) + p * T + l
        /\ Place(s, AxisCoord(s, a, h, p, l)) \in 0 .. Product(s) - 1
    <3>1. h \in 0 .. Product(Before(s, a)) - 1 /\ p \in 0 .. s[a] - 1 /\ l \in 0 .. Product(After(s, a)) - 1
      BY <2>1 DEF B, T, m
    <3> HIDE DEF s
    <3> QED BY <1>1, <1>2, <3>1, AxisPlace DEF T, f, m
  <2>8. Row(x, a, i)[k] = h * m * T + l + p * T
    BY <2>2, <1>7 DEF Row, Inner, h, l, p, m
  <2>9. h * m * T + l + p * T = h * (m * T) + p * T + l
    <3>1. h \in Int /\ l \in Int /\ p \in Int /\ m \in Int /\ T \in Int
      BY <1>3, <2>1
    <3>2. (h * m) * T = h * (m * T)
      BY <3>1, Assoc
    <3>3. h * (m * T) \in Int /\ p * T \in Int
      BY <3>1, MulInt
    <3> QED BY <3>1, <3>2, <3>3
  <2>10. Row(x, a, i)[k] = RowBase(i, m, Inner(x, a)) + (k - 1) * Inner(x, a)
    BY <2>2, <2>8 DEF RowBase, h, l, p
  <2> QED BY <2>3, <2>6, <2>7, <2>8, <2>9, <2>10 DEF At, p
<1> HIDE DEF s
<1>8. ASSUME NEW fn, NEW i \in 0 .. Product(out) - 1
      PROVE  element(fn, CoordAt(out, i)) = Folded(fn, Reads(x, a, i))
  <2>1. [k \in 1 .. m |-> At(x, Put(FullCoord(CoordAt(out, i), a, keepdims), a, k - 1))]
          = [k \in 1 .. m |-> x.data[Row(x, a, i)[k]]]
    BY <1>7
  <2> QED BY <2>1 DEF Reads, m, s
<1> HIDE DEF element
<1>9. \A fn : [i \in 0 .. Product(out) - 1 |-> element(fn, CoordAt(out, i))]
        = [i \in 0 .. Product(out) - 1 |-> Folded(fn, Reads(x, a, i))]
  BY <1>8
<1>10. \A fn : MeantReduce(x, axis, fn, keepdims)
                = New(x.dtype, out, [i \in 0 .. Product(out) - 1 |-> Folded(fn, Reads(x, a, i))])
  BY <1>5, <1>9
<1>11. \A i \in 0 .. Product(out) - 1 : \A k \in 1 .. m :
         /\ Row(x, a, i)[k] \in 0 .. Product(s) - 1
         /\ Row(x, a, i)[k] = RowBase(i, m, Inner(x, a)) + (k - 1) * Inner(x, a)
  BY <1>7
<1>12. out \in Seq(Nat) /\ a \in 1 .. Rank(x)
  BY <1>1, <1>2, <1>4
<1> QED BY <1>6, <1>10, <1>11, <1>12, Zenon DEF s, m


LEMMA ReduceRuns ==
  ASSUME NEW j, Reduces(j)
  PROVE  ResultsMean(j) \/ ThreadsMean(j)
<1> DEFINE x == j.x[1]
           s == x.shape
           a == Axis(j.axis, Rank(x))
           m == s[a]
           out == Reduced(s, a, j.keepdims)
           n == Product(out)
           data == [i \in 0 .. n - 1 |-> Folded(j.fn, Reads(x, a, i))]
<1>1. /\ j.op = "Reduce" /\ Operand(x) /\ x.dtype \in {"FLOAT", "INT64", "INT32"}
      /\ j.axis \in Int /\ IsAxis(j.axis, Rank(x)) /\ j.keepdims \in BOOLEAN /\ m >= 1
  BY DEF Reduces
<1>2. /\ s \in Seq(Nat) /\ x.data \in [0 .. Product(s) - 1 -> Int] /\ Valid(x) /\ Rank(x) = Len(s)
      /\ Size(x) = Product(s)
  BY <1>1, OperandIs
<1>3. /\ out \in Seq(Nat) /\ a \in 1 .. Rank(x) /\ Rows(x, a) = n
      /\ MeantReduce(x, j.axis, j.fn, j.keepdims) = New(x.dtype, out, data)
      /\ \A i \in 0 .. n - 1 : \A k \in 1 .. m :
           /\ Row(x, a, i)[k] \in 0 .. Product(s) - 1
           /\ Row(x, a, i)[k] = RowBase(i, m, Inner(x, a)) + (k - 1) * Inner(x, a)
  <2>1. /\ Operand(x) /\ j.axis \in Int /\ IsAxis(j.axis, Rank(x)) /\ j.keepdims \in BOOLEAN
        /\ a = Axis(j.axis, Rank(x)) /\ x.shape[a] >= 1 /\ out = Reduced(x.shape, a, j.keepdims)
    BY <1>1
  <2> HIDE DEF x, a, out
  <2>2. out \in Seq(Nat) /\ a \in 1 .. Rank(x) /\ Rows(x, a) = Product(out)
    BY <2>1, ReduceMeantIs
  <2>3. MeantReduce(x, j.axis, j.fn, j.keepdims)
          = New(x.dtype, out, [i \in 0 .. Product(out) - 1 |-> Folded(j.fn, Reads(x, a, i))])
    BY <2>1, ReduceMeantIs
  <2>4. \A i \in 0 .. Product(out) - 1 : \A k \in 1 .. x.shape[a] :
          /\ Row(x, a, i)[k] \in 0 .. Product(x.shape) - 1
          /\ Row(x, a, i)[k] = RowBase(i, x.shape[a], Inner(x, a)) + (k - 1) * Inner(x, a)
    BY <2>1, ReduceMeantIs
  <2> QED BY <2>2, <2>3, <2>4
<1>4. OperatorMeaning(j) = <<New(x.dtype, out, data)>>
  BY <1>1, <1>3 DEF OperatorMeaning
<1>5. OperatorPlan(j) = ReducePlan(j)
  BY <1>1 DEF OperatorPlan
<1>6. \A i \in 0 .. n - 1 : \A k \in 1 .. m : Row(x, a, i)[k] \in DOMAIN x.data
  BY <1>2, <1>3
<1>7. CASE IsFloat(x)
  <2>1. OperatorPlan(j) = Device(<<Out("FLOAT", out)>>, <<Folding(n)>>) /\ x.dtype = "FLOAT"
    <3>1. OperatorPlan(j) = Device(<<Out("FLOAT", out)>>, <<Folding(Rows(x, a))>>)
      BY <1>1, <1>5, <1>7 DEF ReducePlan, ReduceAxis, Rows
    <3> QED BY <1>3, <1>7, <3>1 DEF IsFloat
  <2>2. ASSUME NEW i \in 0 .. n - 1
        PROVE  ReduceThread(j, i) = data[i]
    <3> DEFINE loaded == [k \in 1 .. m |-> Load(x.data, RowBase(i, m, Inner(x, a)) + (k - 1) * Inner(x, a))]
    <3>1. loaded = Reads(x, a, i)
      <4>1. \A k \in 1 .. m : Load(x.data, RowBase(i, m, Inner(x, a)) + (k - 1) * Inner(x, a)) = x.data[Row(x, a, i)[k]]
        <5> SUFFICES ASSUME NEW k \in 1 .. m
                     PROVE  Load(x.data, RowBase(i, m, Inner(x, a)) + (k - 1) * Inner(x, a)) = x.data[Row(x, a, i)[k]]
          OBVIOUS
        <5>1. /\ Row(x, a, i)[k] = RowBase(i, m, Inner(x, a)) + (k - 1) * Inner(x, a)
              /\ Row(x, a, i)[k] \in DOMAIN x.data
          BY <1>3, <1>6
        <5> HIDE DEF x, a, m
        <5> QED BY <5>1 DEF Load
      <4> QED BY <4>1 DEF Reads
    <3>2. ReduceThread(j, i) = Folded(j.fn, loaded)
      BY DEF ReduceThread, ReduceAxis
    <3> HIDE DEF loaded
    <3> QED BY <3>1, <3>2
  <2>3. \A q : \A e \in 0 .. n - 1 : OperatorStored(j, q, 1, e) = <<1, e, data[e]>>
    BY <1>1, <2>2 DEF OperatorStored
  <2>4. data = [i \in 0 .. n - 1 |-> data[i]]
    OBVIOUS
  <2>5. Folding(n) \in {Linear(n), Folding(n)}
    OBVIOUS
  <2> HIDE DEF data, out
  <2> QED BY <1>3, <1>4, <2>1, <2>3, <2>4, <2>5, LaunchedAre
<1>8. CASE ~IsFloat(x)
  <2> DEFINE v == ToInt(x)
             y == New("INT64", out, data)
  <2>1. x.dtype \in {"INT64", "INT32"}
    BY <1>1, <1>8 DEF IsFloat
  <2>2. OperatorPlan(j) = Host(<<Reduce(x, a, j.fn, j.keepdims)>>)
    BY <1>1, <1>5, <1>8 DEF ReducePlan, ReduceAxis
  <2>3. \A i \in DOMAIN x.data : v[i] = x.data[i]
    BY <2>1 DEF ToInt
  <2>4. \A i \in 0 .. n - 1 : [k \in 1 .. m |-> v[Row(x, a, i)[k]]] = Reads(x, a, i)
    <3> HIDE DEF v
    <3> QED BY <1>6, <2>3 DEF Reads
  <2>5. Reduce(x, a, j.fn, j.keepdims) = Cast(y, x.dtype)
    <3>1. Reduce(x, a, j.fn, j.keepdims)
            = Cast(New("INT64", out, [i \in 0 .. Rows(x, a) - 1 |-> Folded(j.fn, [k \in 1 .. m |-> v[Row(x, a, i)[k]]])]), x.dtype)
      BY <1>2, <1>3, <2>1 DEF Reduce, Numeric, Tabulate
    <3>2. [i \in 0 .. Rows(x, a) - 1 |-> Folded(j.fn, [k \in 1 .. m |-> v[Row(x, a, i)[k]]])] = data
      <4> HIDE DEF v
      <4> QED BY <1>3, <2>4
    <3> QED BY <3>1, <3>2
  <2>6. y.dtype = "INT64" /\ y.shape = out /\ y.data = data /\ DOMAIN y.data = 0 .. n - 1
    BY DEF New
  <2> HIDE DEF y
  <2>7. Valid(y)
    <3>1. Concrete(y.shape)
      <4>1. \A d \in DOMAIN out : out[d] \in Nat
        BY <1>3
      <4> HIDE DEF out
      <4> QED BY <2>6, <4>1 DEF Concrete
    <3>2. Size(y) = n
      <4>1. n \in Nat
        BY <1>3, ProductNat
      <4> HIDE DEF n
      <4>2. Cardinality(0 .. n - 1) = n
        BY <4>1, FS_Interval
      <4> QED BY <2>6, <4>2 DEF Size
    <3>3. ElemSize(y.dtype) > 0
      BY <2>6 DEF ElemSize
    <3> QED BY <2>6, <3>1, <3>2, <3>3 DEF Valid, Count
  <2>8. ToInt(y) = data
    <3>1. ToInt(y) = [i \in 0 .. n - 1 |-> y.data[i]]
      BY <2>6 DEF ToInt
    <3>2. data = [i \in 0 .. n - 1 |-> data[i]]
      OBVIOUS
    <3> HIDE DEF data
    <3> QED BY <2>6, <3>1, <3>2
  <2>9. Cast(y, x.dtype) = New(x.dtype, out, data)
    <3>1. CASE x.dtype = "INT64"
      <4>1. Cast(y, x.dtype) = y
        BY <2>6, <2>7, <3>1 DEF Cast
      <4> QED BY <3>1, <4>1 DEF y
    <3>2. CASE x.dtype = "INT32"
      <4>1. Cast(y, x.dtype) = New(x.dtype, y.shape, ToInt(y))
        BY <2>6, <2>7, <3>2 DEF Cast, Numeric
      <4> QED BY <2>6, <2>8, <4>1
    <3> QED BY <2>1, <3>1, <3>2
  <2> QED BY <1>4, <2>2, <2>5, <2>9 DEF ResultsMean
<1> QED BY <1>7, <1>8


----------------------------------------------------------------------------
(* GatherElements and Split.                                               *)

\* Elements picked along an axis, by whole numbers in range; what is picked from is as
\* large as the indices along the other axes.
Picks(j) ==
  /\ j.op = "GatherElements" /\ Operand(j.x[1]) /\ Operand(j.x[2]) /\ j.x[2].dtype \in {"INT64", "INT32"}
  /\ Rank(j.x[2]) = Rank(j.x[1]) /\ j.axis \in Int /\ IsAxis(j.axis, Rank(j.x[1]))
  /\ InRange(j.x[2], j.x[1].shape[Axis(j.axis, Rank(j.x[1]))])
  /\ \A d \in 1 .. Rank(j.x[1]) : d = Axis(j.axis, Rank(j.x[1])) \/ j.x[2].shape[d] <= j.x[1].shape[d]

LargerBut(s, out, a) == \A d \in 1 .. Len(s) : d = a \/ out[d] <= s[d]

\* Coordinates that differ from those of an element of out on one axis, and fit into s.
LEMMA PutInside ==
  ASSUME NEW s \in Seq(Nat), NEW out \in Seq(Nat), Len(out) = Len(s), NEW a \in 1 .. Len(s),
         LargerBut(s, out, a), NEW o \in 0 .. Product(out) - 1, NEW k \in 0 .. s[a] - 1
  PROVE  /\ Put(CoordAt(out, o), a, k) = [Walk(out, o) EXCEPT ![a] = k]
         /\ Place(s, Put(CoordAt(out, o), a, k)) = Dot(Put(CoordAt(out, o), a, k), Strides(s))
         /\ Place(s, Put(CoordAt(out, o), a, k)) \in 0 .. Product(s) - 1
<1> DEFINE w == CoordAt(out, o)
           c == Put(w, a, k)
           n == Len(s)
<1>1. w = Walk(out, o) /\ DOMAIN w = 1 .. n /\ \A d \in 1 .. n : w[d] \in 0 .. out[d] - 1
  BY CoordAtIs, CoordInside
<1>2. n \in Nat /\ \A d \in 1 .. n : out[d] \in Nat /\ s[d] \in Nat
  BY LenProperties, ElementOfSeq
<1> HIDE DEF w
<1>3. DOMAIN c = 1 .. n /\ \A d \in 1 .. n : c[d] = IF d = a THEN k ELSE w[d]
  BY <1>1 DEF Put
<1>4. c = [w EXCEPT ![a] = k]
  BY DEF Put
<1> HIDE DEF c
<1>5. \A d \in 1 .. n : c[d] \in 0 .. s[d] - 1
  <2> SUFFICES ASSUME NEW d \in 1 .. n
               PROVE  c[d] \in 0 .. s[d] - 1
    OBVIOUS
  <2>1. CASE d = a
    BY <1>3, <2>1
  <2>2. CASE d # a
    <3>1. out[d] <= s[d] /\ out[d] \in Nat /\ s[d] \in Nat
      BY <1>2, <2>2 DEF LargerBut
    <3>2. w[d] \in 0 .. out[d] - 1 /\ c[d] = w[d]
      BY <1>1, <1>3, <2>2
    <3>3. \A q \in 0 .. out[d] - 1 : q \in 0 .. s[d] - 1
      <4> DEFINE f == out[d]
                 g == s[d]
      <4>1. f <= g /\ f \in Nat /\ g \in Nat
        BY <3>1
      <4> HIDE DEF f, g
      <4>2. \A q \in 0 .. f - 1 : q \in 0 .. g - 1
        BY <4>1
      <4> QED BY <4>2 DEF f, g
    <3> QED BY <3>2, <3>3
  <2> QED BY <2>1, <2>2
<1>6. Place(s, c) = Dot(c, Strides(s)) /\ Place(s, c) \in 0 .. Product(s) - 1
  BY <1>3, <1>5, AtInside
<1> QED BY <1>1, <1>4, <1>6 DEF c, w

LEMMA PickRuns ==
  ASSUME NEW j, Picks(j)
  PROVE  ResultsMean(j)
<1> DEFINE x == j.x[1]
           indices == j.x[2]
           s == x.shape
           out == indices.shape
           n == Rank(x)
           a == Axis(j.axis, n)
           m == s[a]
           index == Indices(indices, m)
           from(o) == Dot([Unwind(Strides(out), o) EXCEPT ![a] = index[o]], Strides(s))
           meant(o) == At(x, Put(CoordAt(out, o), a, Wrapped(At(indices, CoordAt(out, o)), m)))
<1>1. /\ j.op = "GatherElements" /\ Operand(x) /\ Operand(indices) /\ indices.dtype \in {"INT64", "INT32"}
      /\ Rank(indices) = n /\ j.axis \in Int /\ IsAxis(j.axis, n) /\ InRange(indices, m)
      /\ \A d \in 1 .. n : d = a \/ out[d] <= s[d]
  BY DEF Picks
<1>2. /\ s \in Seq(Nat) /\ n = Len(s) /\ n \in Nat /\ Valid(x) /\ x.data \in [0 .. Product(s) - 1 -> Int]
  BY <1>1, OperandIs
<1>3. out \in Seq(Nat) /\ Len(out) = n /\ Valid(indices) /\ indices.data \in [0 .. Product(out) - 1 -> Int]
  BY <1>1, OperandIs
<1>4. a \in 1 .. n
  <2> HIDE DEF n
  <2> QED BY <1>1, <1>2, AxisInside
<1>5. m \in Nat
  <2> HIDE DEF s, a, n
  <2> QED BY <1>2, <1>4 DEF n
<1>6. GatherElements(x, indices, j.axis) = New(x.dtype, out, [o \in 0 .. Product(out) - 1 |-> x.data[from(o)]])
  BY <1>1, <1>2, <1>3 DEF GatherElements, Movable, Moved
<1>7. OperatorMeaning(j) = <<New(x.dtype, out, [o \in 0 .. Product(out) - 1 |-> meant(o)])>>
  BY <1>1 DEF OperatorMeaning, MeantGatherElements, Make
<1>8. ASSUME NEW o \in 0 .. Product(out) - 1
      PROVE  meant(o) = x.data[from(o)]
  <2> DEFINE k == index[o]
             c == CoordAt(out, o)
  <2>1. o \in DOMAIN indices.data
    BY <1>3
  <2>2. k = Wrapped(indices.data[o], m)
    <3> HIDE DEF m, indices
    <3> QED BY <1>1, <1>5, <2>1, IndicesAre
  <2>3. k \in 0 .. m - 1
    BY <1>1, <2>1 DEF InRange
  <2>4. At(indices, c) = indices.data[o]
    <3>1. Place(out, c) = o
      <4> HIDE DEF out
      <4> QED BY <1>3, CoordInside
    <3> QED BY <3>1 DEF At
  <2>5. meant(o) = At(x, Put(c, a, k))
    BY <2>2, <2>4
  <2> HIDE DEF k
  <2>6. /\ Put(c, a, k) = [Walk(out, o) EXCEPT ![a] = k]
        /\ Place(s, Put(c, a, k)) = Dot(Put(c, a, k), Strides(s))
    <3>1. a \in 1 .. Len(s) /\ k \in 0 .. s[a] - 1 /\ Len(out) = Len(s) /\ LargerBut(s, out, a)
      BY <1>1, <1>2, <1>3, <1>4, <2>3 DEF LargerBut
    <3> HIDE DEF s, a, out
    <3> QED BY <1>2, <1>3, <3>1, PutInside
  <2>7. Unwind(Strides(out), o) = Walk(out, o)
    <3> HIDE DEF out
    <3> QED BY <1>3, UnwindIsWalk
  <2> QED BY <2>5, <2>6, <2>7 DEF At, k
<1> HIDE DEF from, meant
<1>9. [o \in 0 .. Product(out) - 1 |-> meant(o)] = [o \in 0 .. Product(out) - 1 |-> x.data[from(o)]]
  BY <1>8
<1>10. OperatorPlan(j) = Host(<<GatherElements(x, indices, j.axis)>>)
  BY <1>1 DEF OperatorPlan
<1> QED BY <1>6, <1>7, <1>9, <1>10 DEF ResultsMean

----------------------------------------------------------------------------
(* Split: pieces of an axis, one after the other.                          *)

\* Sizes that add up to the axis, one for every output.
Splits(j) ==
  /\ j.op = "Split" /\ Operand(j.x[1]) /\ j.axis \in Int /\ IsAxis(j.axis, Rank(j.x[1]))
  /\ SplitSizes(j) \in Seq(Nat) /\ Len(SplitSizes(j)) >= 1 /\ Len(SplitSizes(j)) = j.outputs
  /\ Total(SplitSizes(j)) = j.x[1].shape[Axis(j.axis, Rank(j.x[1]))]
  /\ j.sizes = <<>> => SplitSizes(j)[1] * j.outputs = j.x[1].shape[Axis(j.axis, Rank(j.x[1]))]
  /\ j.meant = SplitSizes(j)

\* A piece of an axis: its shape, where it starts, and its elements.
PieceOf(s, a, size, start) ==
  [out   |-> [s EXCEPT ![a] = size],
   start |-> [d \in DOMAIN s |-> IF d = a THEN start ELSE 0],
   step  |-> [d \in DOMAIN s |-> 1]]

PieceAt(x, a, start, c) == At(x, Put(c, a, c[a] + start))

LEMMA PieceReads ==
  ASSUME NEW x, Operand(x), NEW a \in 1 .. Rank(x), NEW size \in Nat, NEW start \in Nat,
         start + size <= x.shape[a]
  PROVE  LET out == [x.shape EXCEPT ![a] = size]
         IN /\ out \in Seq(Nat)
            /\ \A o \in 0 .. Product(out) - 1 :
                 /\ SliceFrom(x, PieceOf(x.shape, a, size, start), o) \in 0 .. Product(x.shape) - 1
                 /\ PieceAt(x, a, start, CoordAt(out, o))
                      = x.data[SliceFrom(x, PieceOf(x.shape, a, size, start), o)]
<1> DEFINE s == x.shape
           out == [s EXCEPT ![a] = size]
<1>1. s \in Seq(Nat) /\ Rank(x) = Len(s) /\ Len(s) \in Nat /\ DOMAIN s = 1 .. Len(s)
  BY OperandIs
<1>2. a \in 1 .. Len(s)
  BY <1>1
<1>3. /\ out \in Seq(Nat) /\ Len(out) = Len(s) /\ DOMAIN out = 1 .. Len(s)
      /\ out[a] = size /\ \A d \in 1 .. Len(s) : d = a \/ out[d] = s[d]
  <2> HIDE DEF s
  <2> QED BY <1>1, <1>2, ExceptSeq
<1>4. ASSUME NEW o \in 0 .. Product(out) - 1
      PROVE  /\ SliceFrom(x, PieceOf(s, a, size, start), o) \in 0 .. Product(s) - 1
             /\ PieceAt(x, a, start, CoordAt(out, o)) = x.data[SliceFrom(x, PieceOf(s, a, size, start), o)]
  <2> DEFINE c == CoordAt(out, o)
             e == Put(c, a, c[a] + start)
             f == [d \in 1 .. Len(s) |-> (IF d = a THEN start ELSE 0) + c[d] * 1]
  <2>1. c = Walk(out, o) /\ DOMAIN c = 1 .. Len(s) /\ \A d \in 1 .. Len(s) : c[d] \in 0 .. out[d] - 1
    <3> HIDE DEF out
    <3> QED BY <1>3, CoordInside, CoordAtIs
  <2>2. \A d \in 1 .. Len(s) : s[d] \in Nat /\ out[d] \in Nat /\ c[d] \in Nat
    <3>1. \A d \in 1 .. Len(s) : s[d] \in Nat
      BY <1>1
    <3>2. \A d \in 1 .. Len(s) : out[d] \in Nat
      BY <1>3
    <3> HIDE DEF c, out, s
    <3> QED BY <2>1, <3>1, <3>2
  <2>3. DOMAIN e = 1 .. Len(s) /\ e[a] = c[a] + start /\ \A d \in 1 .. Len(s) : d = a \/ e[d] = c[d]
    <3> HIDE DEF c
    <3> QED BY <1>2, <2>1 DEF Put
  <2>4. e = f
    <3>1. e = [d \in 1 .. Len(s) |-> e[d]]
      <4> HIDE DEF c
      <4> QED BY <2>1, <2>3 DEF Put
    <3>2. \A d \in 1 .. Len(s) : e[d] = (IF d = a THEN start ELSE 0) + c[d] * 1
      <4> HIDE DEF e, c, s
      <4> QED BY <2>2, <2>3
    <3> HIDE DEF e, c
    <3> QED BY <3>1, <3>2
  <2>5. \A d \in 1 .. Len(s) : e[d] \in 0 .. s[d] - 1
    <3> HIDE DEF e, c, s, out
    <3>1. c[a] + start \in 0 .. s[a] - 1
      <4> DEFINE v == c[a]
                 w == s[a]
      <4>1. start + size <= w
        BY DEF s
      <4>2. v \in 0 .. size - 1
        BY <1>2, <1>3, <2>1
      <4>3. w \in Nat
        BY <1>2, <2>2
      <4> HIDE DEF v, w
      <4>4. v + start \in 0 .. w - 1
        BY <4>1, <4>2, <4>3
      <4> QED BY <4>4 DEF v, w
    <3> QED BY <1>3, <2>1, <2>3, <3>1
  <2>6. Place(s, e) = Dot(e, Strides(s)) /\ Place(s, e) \in 0 .. Product(s) - 1
    <3> HIDE DEF e, s
    <3> QED BY <1>1, <2>3, <2>5, AtInside
  <2>7. SliceFrom(x, PieceOf(s, a, size, start), o) = Dot(f, Strides(s))
    <3>1. PieceOf(s, a, size, start).out = out
      BY DEF PieceOf
    <3>2. /\ PieceOf(s, a, size, start).start = [d \in 1 .. Len(s) |-> IF d = a THEN start ELSE 0]
          /\ PieceOf(s, a, size, start).step = [d \in 1 .. Len(s) |-> 1]
      BY <1>1 DEF PieceOf
    <3>3. SliceFrom(x, PieceOf(s, a, size, start), o)
            = Dot([d \in 1 .. Len(s) |-> PieceOf(s, a, size, start).start[d]
                     + c[d] * PieceOf(s, a, size, start).step[d]], Strides(s))
      <4> HIDE DEF c, out
      <4> QED BY <1>1, <2>1, <3>1 DEF SliceFrom
    <3>4. [d \in 1 .. Len(s) |-> PieceOf(s, a, size, start).start[d]
             + c[d] * PieceOf(s, a, size, start).step[d]] = f
      <4> HIDE DEF c, out, s
      <4> QED BY <3>2
    <3> QED BY <3>3, <3>4
  <2> HIDE DEF e, f
  <2> QED BY <2>4, <2>6, <2>7 DEF PieceAt, At, e
<1> QED BY <1>3, <1>4

\* A piece lies inside the axis.
LEMMA PieceInside ==
  ASSUME NEW sizes \in Seq(Nat), NEW k \in 1 .. Len(sizes)
  PROVE  /\ Total(SubSeq(sizes, 1, k - 1)) \in Nat /\ sizes[k] \in Nat /\ Total(sizes) \in Nat
         /\ Total(SubSeq(sizes, 1, k - 1)) + sizes[k] <= Total(sizes)
<1> DEFINE n == Len(sizes)
           u == SubSeq(sizes, 1, k - 1)
<1>1. n \in Nat /\ DOMAIN sizes = 1 .. n /\ k \in Nat /\ k >= 1 /\ k <= n /\ k - 1 \in Nat
  OBVIOUS
<1>2. u \in Seq(Nat) /\ Len(u) = k - 1 /\ \A d \in 1 .. k - 1 : u[d] = sizes[d]
  BY <1>1, SubSeqProperties
<1>3. DOMAIN u = 1 .. k - 1
  <2> HIDE DEF u
  <2> QED BY <1>2
<1>4. \A d \in 1 .. n : sizes[d] \in Nat
  BY <1>1
<1> HIDE DEF u, n
<1>5. PICK t : Partials(t, "plus", 0, sizes, n) /\ Total(sizes) = t[n]
  BY <1>1, TotalIs
<1>6. PICK p : Partials(p, "plus", 0, u, k - 1) /\ Total(u) = p[k - 1]
  BY <1>1, <1>3, TotalIs
<1>7. t[k - 1] = p[k - 1]
  <2>1. \A m \in 0 .. k - 1 : t[m] = p[m]
    BY <1>1, <1>2, <1>5, <1>6, PartialsAgree
  <2> QED BY <1>1, <2>1
<1>8. /\ \A i \in 0 .. n : t[i] \in Nat
      /\ \A i \in 1 .. n : t[i] = t[i - 1] + sizes[i]
      /\ \A h \in 0 .. n, i \in 0 .. n : h <= i => t[h] <= t[i]
  BY <1>1, <1>4, <1>5, SumsGrow
<1>9. t[k] = t[k - 1] + sizes[k] /\ t[k] <= t[n] /\ t[k - 1] \in Nat /\ t[n] \in Nat /\ sizes[k] \in Nat
  BY <1>1, <1>4, <1>8
<1> QED BY <1>5, <1>6, <1>7, <1>9 DEF u

\* A tensor's pieces along an axis.
Piece(j, k) ==
  New(j.x[1].dtype, SplitPart(j, k).out,
      [o \in 0 .. Product(SplitPart(j, k).out) - 1 |-> j.x[1].data[SliceFrom(j.x[1], SplitPart(j, k), o)]])

LEMMA SplitPieces ==
  ASSUME NEW j, Splits(j)
  PROVE  /\ SplitSizes(j) \in Seq(Nat)
         /\ OperatorMeaning(j) = [k \in DOMAIN SplitSizes(j) |-> Piece(j, k)]
         /\ \A k \in DOMAIN SplitSizes(j) :
              /\ SplitPart(j, k).out \in Seq(Nat) /\ SplitPart(j, k) # Refused
              /\ \A o \in 0 .. Product(SplitPart(j, k).out) - 1 :
                   SliceFrom(j.x[1], SplitPart(j, k), o) \in 0 .. Product(j.x[1].shape) - 1
<1> DEFINE x == j.x[1]
           s == x.shape
           a == Axis(j.axis, Rank(x))
           sizes == SplitSizes(j)
           start(k) == Total(SubSeq(sizes, 1, k - 1))
           out(k) == [s EXCEPT ![a] = sizes[k]]
           meant(k) == Make(x.dtype, Put(s, a, sizes[k]), LAMBDA c : At(x, Put(c, a, c[a] + start(k))))
<1>1. /\ Operand(x) /\ j.axis \in Int /\ IsAxis(j.axis, Rank(x)) /\ sizes \in Seq(Nat)
      /\ Total(sizes) = s[a] /\ j.meant = sizes /\ j.op = "Split"
  BY DEF Splits
<1>2. Rank(x) = Len(s) /\ Rank(x) \in Nat /\ s \in Seq(Nat)
  BY <1>1, OperandIs
<1>3. a \in 1 .. Rank(x)
  <2> HIDE DEF x
  <2> QED BY <1>1, <1>2, AxisInside
<1>4. OperatorMeaning(j) = [k \in DOMAIN sizes |-> meant(k)]
  <2>1. OperatorMeaning(j) = MeantSplit(x, j.axis, sizes)
    BY <1>1 DEF OperatorMeaning
  <2> HIDE DEF sizes
  <2> QED BY <2>1 DEF MeantSplit
<1>5. ASSUME NEW k \in DOMAIN sizes
      PROVE  /\ SplitPart(j, k) = PieceOf(s, a, sizes[k], start(k)) /\ SplitPart(j, k).out = out(k)
             /\ SplitPart(j, k) # Refused
  <2>1. SplitPart(j, k) = PieceOf(s, a, sizes[k], start(k))
    BY <1>2 DEF SplitPart, PieceOf
  <2>2. PieceOf(s, a, sizes[k], start(k)).out = out(k) /\ "out" \in DOMAIN PieceOf(s, a, sizes[k], start(k))
    BY DEF PieceOf
  <2>3. "out" \notin DOMAIN Refused
    BY DEF Refused
  <2> HIDE DEF out
  <2> QED BY <2>1, <2>2, <2>3
<1>6. ASSUME NEW k \in DOMAIN sizes
      PROVE  /\ out(k) \in Seq(Nat)
             /\ \A o \in 0 .. Product(out(k)) - 1 :
                  /\ SliceFrom(x, SplitPart(j, k), o) \in 0 .. Product(s) - 1
                  /\ PieceAt(x, a, start(k), CoordAt(out(k), o)) = x.data[SliceFrom(x, SplitPart(j, k), o)]
  <2>1. start(k) \in Nat /\ sizes[k] \in Nat /\ start(k) + sizes[k] <= s[a]
    <3>1. k \in 1 .. Len(sizes)
      BY <1>1
    <3> HIDE DEF sizes
    <3> QED BY <1>1, <3>1, PieceInside
  <2>2. SplitPart(j, k) = PieceOf(s, a, sizes[k], start(k))
    BY <1>5
  <2> DEFINE piece == PieceOf(s, a, sizes[k], start(k))
  <2>3. /\ out(k) \in Seq(Nat)
        /\ \A o \in 0 .. Product(out(k)) - 1 :
             /\ SliceFrom(x, piece, o) \in 0 .. Product(s) - 1
             /\ PieceAt(x, a, start(k), CoordAt(out(k), o)) = x.data[SliceFrom(x, piece, o)]
    <3> DEFINE size == sizes[k]
               from == start(k)
    <3>1. Operand(x) /\ a \in 1 .. Rank(x) /\ size \in Nat /\ from \in Nat /\ from + size <= x.shape[a]
      BY <1>1, <1>3, <2>1
    <3> HIDE DEF size, from, a, x
    <3>2. /\ [x.shape EXCEPT ![a] = size] \in Seq(Nat)
          /\ \A o \in 0 .. Product([x.shape EXCEPT ![a] = size]) - 1 :
               /\ SliceFrom(x, PieceOf(x.shape, a, size, from), o) \in 0 .. Product(x.shape) - 1
               /\ PieceAt(x, a, from, CoordAt([x.shape EXCEPT ![a] = size], o))
                    = x.data[SliceFrom(x, PieceOf(x.shape, a, size, from), o)]
      BY <3>1, PieceReads
    <3> QED BY <3>2 DEF size, from
  <2> HIDE DEF start, out, piece, sizes, a, x
  <2> QED BY <2>2, <2>3 DEF piece
<1>7. ASSUME NEW k \in DOMAIN sizes
      PROVE  meant(k) = Piece(j, k)
  <2>1. meant(k) = New(x.dtype, out(k), [o \in 0 .. Product(out(k)) - 1 |->
                         PieceAt(x, a, start(k), CoordAt(out(k), o))])
    BY DEF Make, PieceAt, Put
  <2>2. [o \in 0 .. Product(out(k)) - 1 |-> PieceAt(x, a, start(k), CoordAt(out(k), o))]
          = [o \in 0 .. Product(out(k)) - 1 |-> x.data[SliceFrom(x, SplitPart(j, k), o)]]
    <3> HIDE DEF out, start, a, x, sizes
    <3> QED BY <1>6
  <2>3. SplitPart(j, k).out = out(k)
    BY <1>5
  <2> HIDE DEF out, start, a, sizes, meant
  <2> QED BY <2>1, <2>2, <2>3 DEF Piece
<1>8. [k \in DOMAIN sizes |-> meant(k)] = [k \in DOMAIN sizes |-> Piece(j, k)]
  <2> HIDE DEF meant, sizes
  <2> QED BY <1>7
<1>9. \A k \in DOMAIN sizes :
        /\ SplitPart(j, k).out \in Seq(Nat) /\ SplitPart(j, k) # Refused
        /\ \A o \in 0 .. Product(SplitPart(j, k).out) - 1 : SliceFrom(x, SplitPart(j, k), o) \in 0 .. Product(s) - 1
  <2> HIDE DEF out, start, a, sizes, s
  <2> QED BY <1>5, <1>6
<1> HIDE DEF meant
<1> QED BY <1>1, <1>4, <1>8, <1>9

LEMMA SplitRuns ==
  ASSUME NEW j, Splits(j)
  PROVE  ResultsMean(j) \/ LaunchesMean(j)
<1> DEFINE x == j.x[1]
           sizes == SplitSizes(j)
           n == Len(sizes)
           shape(k) == SplitPart(j, k).out
           outs == [k \in DOMAIN sizes |-> Out("FLOAT", shape(k))]
           y == [k \in DOMAIN sizes |-> Piece(j, k)]
           counts == [k \in DOMAIN sizes |-> Product(shape(k))]
<1>1. /\ j.op = "Split" /\ Operand(x) /\ IsAxis(j.axis, Rank(x)) /\ n >= 1 /\ n = j.outputs
      /\ (j.sizes = <<>> => sizes[1] * j.outputs = x.shape[Axis(j.axis, Rank(x))])
  BY DEF Splits
<1>2. Valid(x) /\ x.data \in [0 .. Product(x.shape) - 1 -> Int]
  BY <1>1, OperandIs
<1>3. sizes \in Seq(Nat) /\ OperatorMeaning(j) = y
  BY SplitPieces
<1>4. ASSUME NEW k \in DOMAIN sizes
      PROVE  /\ shape(k) \in Seq(Nat) /\ SplitPart(j, k) # Refused /\ Product(shape(k)) \in Nat
             /\ \A o \in 0 .. Product(shape(k)) - 1 : SliceFrom(x, SplitPart(j, k), o) \in 0 .. Product(x.shape) - 1
  <2>1. /\ shape(k) \in Seq(Nat) /\ SplitPart(j, k) # Refused
        /\ \A o \in 0 .. Product(shape(k)) - 1 : SliceFrom(x, SplitPart(j, k), o) \in 0 .. Product(x.shape) - 1
    BY SplitPieces
  <2> HIDE DEF shape
  <2> QED BY <2>1, ProductNat
<1>5. n \in Nat \ {0} /\ DOMAIN sizes = 1 .. n
  BY <1>1, <1>3
<1>6. OperatorPlan(j) = SplitPlan(j)
  BY <1>1 DEF OperatorPlan
<1>7. CASE IsFloat(x)
  <2>1. OperatorPlan(j) = Device(outs, [k \in DOMAIN sizes |-> Linear(Product(shape(k)))])
    BY <1>1, <1>6, <1>7 DEF SplitPlan
  <2>2. DOMAIN counts = DOMAIN sizes /\ DOMAIN y = 1 .. n /\ DOMAIN outs = 1 .. n
    BY <1>5
  <2>3. [k \in DOMAIN sizes |-> Linear(Product(shape(k)))] = [k \in DOMAIN counts |-> Linear(counts[k])]
    OBVIOUS
  <2>4. counts \in Seq(Nat)
    <3>1. \A k \in 1 .. n : Product(shape(k)) \in Nat
      BY <1>4, <1>5
    <3> HIDE DEF shape, sizes, n
    <3> QED BY <1>5, <3>1
  <2>5. x.dtype = "FLOAT"
    BY <1>7 DEF IsFloat
  <2>6. \A k \in DOMAIN y : /\ outs[k].dtype = "FLOAT" /\ outs[k].shape = shape(k)
                            /\ y[k] = Piece(j, k) /\ counts[k] = Product(shape(k))
                            /\ y[k].data = [o \in 0 .. Product(shape(k)) - 1 |-> x.data[SliceFrom(x, SplitPart(j, k), o)]]
                            /\ y[k] = New("FLOAT", shape(k), y[k].data)
    BY <2>5 DEF Out, Piece, New
  <2>7. \A k \in DOMAIN counts : \A e \in 0 .. counts[k] - 1 :
          \A m : OperatorStored(j, m, k, e) = <<k, e, y[k].data[e]>>
    <3> SUFFICES ASSUME NEW k \in DOMAIN sizes, NEW e \in 0 .. Product(shape(k)) - 1, NEW m
                 PROVE  OperatorStored(j, m, k, e) = <<k, e, y[k].data[e]>>
      BY <2>2
    <3>1. OperatorStored(j, m, k, e) = <<k, e, SplitThread(j, k, e)>>
      BY <1>1 DEF OperatorStored
    <3>2. SliceFrom(x, SplitPart(j, k), e) \in DOMAIN x.data
      BY <1>2, <1>4
    <3>3. SplitThread(j, k, e) = x.data[SliceFrom(x, SplitPart(j, k), e)]
      BY <3>2 DEF SplitThread, Load
    <3>4. y[k].data[e] = x.data[SliceFrom(x, SplitPart(j, k), e)]
      <4>1. y[k].data = [o \in 0 .. Product(shape(k)) - 1 |-> x.data[SliceFrom(x, SplitPart(j, k), o)]]
        <5> HIDE DEF y, x, sizes, n, shape
        <5> QED BY <1>5, <2>2, <2>6
      <4> HIDE DEF y, x, sizes, n, shape
      <4> QED BY <4>1
    <3> HIDE DEF y, x, shape
    <3> QED BY <3>1, <3>3, <3>4
  <2>8. \A k \in DOMAIN y : DOMAIN y[k].data = 0 .. counts[k] - 1
    <3> HIDE DEF y, x, sizes, n, shape, counts
    <3> QED BY <2>6
  <2> HIDE DEF y, outs, counts, shape, sizes, n, x
  <2>9. Launches(j, outs, y, counts)
    <3>1. OperatorPlan(j) = Device(outs, [k \in DOMAIN counts |-> Linear(counts[k])])
      BY <2>1, <2>3
    <3>2. outs = [o \in DOMAIN y |-> outs[o]] /\ y = [o \in DOMAIN y |-> New(outs[o].dtype, outs[o].shape, y[o].data)]
      <4>1. outs = [o \in 1 .. n |-> outs[o]] /\ y = [o \in 1 .. n |-> y[o]]
        BY <1>5 DEF outs, y
      <4>2. \A o \in 1 .. n : y[o] = New(outs[o].dtype, outs[o].shape, y[o].data)
        <5> SUFFICES ASSUME NEW o \in 1 .. n
                     PROVE  y[o] = New(outs[o].dtype, outs[o].shape, y[o].data)
          OBVIOUS
        <5>1. outs[o].dtype = "FLOAT" /\ outs[o].shape = shape(o) /\ y[o] = New("FLOAT", shape(o), y[o].data)
          BY <2>2, <2>6, Zenon
        <5> QED BY <5>1, Zenon
      <4>3. [o \in 1 .. n |-> y[o]] = [o \in 1 .. n |-> New(outs[o].dtype, outs[o].shape, y[o].data)]
        BY <4>2
      <4> QED BY <2>2, <4>1, <4>3
    <3>3. \A o \in DOMAIN y : y[o].data = [i \in 0 .. Product(outs[o].shape) - 1 |-> y[o].data[i]]
      BY <2>6
    <3>4. \A k \in DOMAIN counts : \A e \in 0 .. counts[k] - 1 :
            \E o \in DOMAIN y : \E i \in DOMAIN y[o].data :
              \A m : OperatorStored(j, m, k, e) = <<o, i, y[o].data[i]>>
      BY <1>5, <2>2, <2>7, <2>8
    <3>5. \A k \in DOMAIN counts : \A e \in 0 .. counts[k] - 1 :
            OperatorStored(j, <<>>, k, e)[1] = k /\ OperatorStored(j, <<>>, k, e)[2] = e
      BY <2>7
    <3>6. \A k \in DOMAIN counts : \A e, f \in 0 .. counts[k] - 1 :
            /\ OperatorStored(j, <<>>, k, e)[1] = OperatorStored(j, <<>>, k, f)[1]
            /\ OperatorStored(j, <<>>, k, e)[2] = OperatorStored(j, <<>>, k, f)[2]
            => e = f
      BY <3>5
    <3>7. \A o \in DOMAIN y : \A i \in DOMAIN y[o].data :
            \E k \in DOMAIN counts : \E e \in 0 .. counts[k] - 1 :
              OperatorStored(j, <<>>, k, e)[1] = o /\ OperatorStored(j, <<>>, k, e)[2] = i
      <4> SUFFICES ASSUME NEW o \in DOMAIN y, NEW i \in DOMAIN y[o].data
                   PROVE  \E k \in DOMAIN counts : \E e \in 0 .. counts[k] - 1 :
                            OperatorStored(j, <<>>, k, e)[1] = o /\ OperatorStored(j, <<>>, k, e)[2] = i
        OBVIOUS
      <4>1. o \in DOMAIN counts /\ i \in 0 .. counts[o] - 1
        BY <1>5, <2>2, <2>8
      <4>2. OperatorStored(j, <<>>, o, i)[1] = o /\ OperatorStored(j, <<>>, o, i)[2] = i
        BY <3>5, <4>1
      <4> QED BY <4>1, <4>2
    <3>8. \E h \in Nat \ {0} : DOMAIN y = 1 .. h
      BY <1>5, <2>2
    <3> QED BY <1>3, <2>4, <3>1, <3>2, <3>3, <3>4, <3>6, <3>7, <3>8, Zenon DEF Launches
  <2> QED BY <2>9, Zenon DEF LaunchesMean
<1>8. CASE ~IsFloat(x)
  <2>1. OperatorPlan(j) = Host([k \in DOMAIN sizes |-> Slice(x, SplitPart(j, k))])
    BY <1>1, <1>6, <1>8 DEF SplitPlan
  <2>2. ASSUME NEW k \in DOMAIN sizes
        PROVE  Slice(x, SplitPart(j, k)) = Piece(j, k)
    <3>1. SplitPart(j, k) # Refused
      BY <1>4
    <3>2. Slice(x, SplitPart(j, k)) = New(x.dtype, shape(k), [o \in 0 .. Product(shape(k)) - 1 |->
                                        x.data[SliceFrom(x, SplitPart(j, k), o)]])
      BY <1>2, <3>1 DEF Slice, Movable, Moved, SliceFrom
    <3> QED BY <3>2 DEF Piece
  <2>3. [k \in DOMAIN sizes |-> Slice(x, SplitPart(j, k))] = y
    <3> HIDE DEF sizes, x
    <3> QED BY <2>2
  <2> QED BY <1>3, <2>1, <2>3 DEF ResultsMean
<1> QED BY <1>7, <1>8

----------------------------------------------------------------------------
(* Slice: positions of every axis, in steps.                               *)

\* Rounded up, a quotient counts the steps that stay below.
LEMMA CeilCounts ==
  ASSUME NEW m \in Nat, m >= 1, NEW t \in Nat, t >= 1
  PROVE  /\ CeilDiv(m, t) \in 1 .. m
         /\ \A w \in 0 .. CeilDiv(m, t) - 1 : w * t < m
         /\ CeilDiv(m, t) * t >= m
<1> DEFINE c == CeilDiv(m, t)
<1>1. c = (m + t - 1) \div t /\ m + t - 1 \in Nat
  BY DEF CeilDiv
<1>2. c \in Nat /\ (m + t - 1) % t \in 0 .. t - 1 /\ m + t - 1 = c * t + ((m + t - 1) % t)
  BY <1>1, Division
<1>3. \A w \in 0 .. c - 1 : w * t \in 0 .. m - 1
  BY CeilWalk
<1> HIDE DEF c
<1>4. c * t \in Nat
  BY <1>2, MulNat
<1>5. c * t >= m
  <2> DEFINE r == (m + t - 1) % t
             p == c * t
  <2>1. r \in 0 .. t - 1 /\ m + t - 1 = p + r /\ p \in Nat
    BY <1>2, <1>4
  <2> HIDE DEF r, p
  <2> QED BY <2>1 DEF p
<1>6. c # 0
  <2>1. 0 * t = 0
    OBVIOUS
  <2> QED BY <1>5, <2>1
<1>7. c <= m
  <2>1. SUFFICES ASSUME c > m PROVE FALSE
    BY <1>2
  <2>2. m * t \in 0 .. m - 1
    BY <1>2, <1>3, <2>1
  <2>3. 1 * m <= t * m
    BY Scaled
  <2>4. t * m = m * t
    OBVIOUS
  <2> QED BY <2>2, <2>3, <2>4
<1> QED BY <1>2, <1>3, <1>5, <1>6, <1>7 DEF c

LEMMA SmallestOf ==
  ASSUME NEW m \in Int, NEW n \in Int
  PROVE  Min({m, n}) = IF m < n THEN m ELSE n
<1>1. \E k \in {m, n} : \A i \in {m, n} : k <= i
  OBVIOUS
<1>2. Min({m, n}) \in {m, n} /\ \A i \in {m, n} : Min({m, n}) <= i
  <2> DEFINE S == {m, n}
  <2> HIDE DEF S
  <2> QED BY <1>1, Zenon DEF Min, S
<1> QED BY <1>2

\* The bounds and the count of slice_params stand for the positions that a slice visits.
\* A dimension can be walked from start to end in steps; the positions from the bounds b on.
Walkable(dim, start, end, step) ==
  dim \in Nat /\ start \in Int /\ end \in Int /\ step \in Int /\ step # 0 /\ (dim = 0 => step > 0)

Stepped(b, step) == [k \in 1 .. SliceCount(b, step) |-> b[1] + (k - 1) * step]

LEMMA VisitedIs ==
  ASSUME NEW dim, NEW start, NEW end, NEW step, Walkable(dim, start, end, step)
  PROVE  /\ SliceCount(SliceBounds(dim, start, end, step), step) \in Nat
         /\ Visited(dim, start, end, step) = Stepped(SliceBounds(dim, start, end, step), step)
<1> DEFINE b == SliceBounds(dim, start, end, step)
           c == SliceCount(b, step)
           s == Wrapped(start, dim)
           e == Wrapped(end, dim)
           first == IF step > 0 THEN Max({0, s}) ELSE Min({dim - 1, Max({0, s})})
           Position(k) == first + k * step
           Goes(k) == /\ Position(k) \in 0 .. dim - 1
                      /\ IF step > 0 THEN Position(k) < e ELSE Position(k) > e
           Ends(n) == ~Goes(n) /\ \A k \in 0 .. n - 1 : Goes(k)
           count == CHOOSE n \in 0 .. dim : Ends(n)
<1>0. dim \in Nat /\ start \in Int /\ end \in Int /\ step \in Int /\ step # 0 /\ (dim = 0 => step > 0)
  BY DEF Walkable
<1>1. s \in Int /\ e \in Int
  BY <1>0 DEF Wrapped
<1>2. Visited(dim, start, end, step) = [k \in 1 .. count |-> Position(k - 1)]
  BY <1>0 DEF Visited
<1>3. Max({0, s}) = IF s > 0 THEN s ELSE 0
  <2> HIDE DEF s
  <2>1. CASE s > 0
    BY <1>0, <1>1, <2>1, LargestIs
  <2>2. CASE ~(s > 0)
    BY <1>0, <1>1, <2>2, LargestIs
  <2> QED BY <1>0, <2>1, <2>2
<1>4. \A m \in Int, n \in Int : Min({m, n}) = IF m < n THEN m ELSE n
  BY <1>0, SmallestOf
<1>5. c \in 0 .. dim /\ Ends(c) /\ (c >= 1 => first = b[1])
  <2>1. CASE step > 0
    <3>1. b = <<Clamp(s, 0, dim), Clamp(e, 0, dim)>>
      BY <1>0, <2>1 DEF SliceBounds
    <3> DEFINE u == b[1]
               v == b[2]
    <3>2. /\ u = (IF s < 0 THEN 0 ELSE IF s > dim THEN dim ELSE s)
          /\ v = (IF e < 0 THEN 0 ELSE IF e > dim THEN dim ELSE e)
      BY <1>0, <3>1 DEF Clamp
    <3>3. first = IF s > 0 THEN s ELSE 0
      BY <1>0, <1>3, <2>1
    <3>4. c = IF v > u THEN CeilDiv(v - u, step) ELSE 0
      <4>1. v \in Int /\ u \in Int
        BY <1>0, <1>1, <3>2
      <4> QED BY <1>0, <2>1, <4>1 DEF SliceCount
    <3> HIDE DEF u, v, c, first, s, e, b
    <3>5. u \in 0 .. dim /\ v \in 0 .. dim /\ first \in Nat /\ step \in Nat
      BY <1>0, <1>1, <2>1, <3>2, <3>3
    <3>6. ASSUME NEW k \in Nat
          PROVE  Goes(k) <=> first + k * step < v
      <4> DEFINE p == k * step
      <4>1. p \in Nat
        BY <1>0, <3>5, MulNat
      <4> HIDE DEF p
      <4>2. (first + p \in 0 .. dim - 1 /\ first + p < e) <=> first + p < v
        BY <1>0, <1>1, <3>2, <3>5, <4>1
      <4> QED BY <1>0, <2>1, <4>2 DEF p
    <3>7. CASE v > u
      <4>1. c = CeilDiv(v - u, step) /\ v - u \in Nat /\ v - u >= 1 /\ first = u
        BY <1>0, <1>1, <3>2, <3>3, <3>4, <3>5, <3>7
      <4>2. /\ c \in 1 .. v - u /\ c * step >= v - u
            /\ \A w \in 0 .. c - 1 : w * step < v - u
        BY <1>0, <2>1, <3>5, <4>1, CeilCounts
      <4>3. \A w \in Nat : w * step \in Nat
        BY <1>0, <3>5, MulNat
      <4>4. ~Goes(c)
        <5> DEFINE p == c * step
        <5>1. p \in Nat /\ p >= v - u
          BY <1>0, <4>2, <4>3
        <5> HIDE DEF p
        <5>2. ~(first + p < v)
          BY <1>0, <3>5, <4>1, <5>1
        <5> HIDE DEF Goes
        <5> QED BY <1>0, <3>6, <4>2, <5>2 DEF p
      <4>5. ASSUME NEW k \in 0 .. c - 1
            PROVE  Goes(k)
        <5> DEFINE p == k * step
        <5>1. p \in Nat /\ p < v - u /\ k \in Nat
          BY <1>0, <4>2, <4>3
        <5> HIDE DEF p
        <5>2. first + p < v
          BY <1>0, <3>5, <4>1, <5>1
        <5> HIDE DEF Goes
        <5> QED BY <1>0, <3>6, <5>1, <5>2 DEF p
      <4> HIDE DEF Goes
      <4> QED BY <1>0, <3>5, <4>1, <4>2, <4>4, <4>5 DEF u
    <3>8. CASE ~(v > u)
      <4>1. c = 0 /\ first >= v
        BY <1>0, <1>1, <3>2, <3>3, <3>4, <3>5, <3>8
      <4>2. ~Goes(0)
        <5>1. first + 0 * step = first
          BY <1>0, <3>5
        <5> HIDE DEF Goes
        <5> QED BY <1>0, <3>5, <3>6, <4>1, <5>1
      <4> HIDE DEF Goes
      <4> QED BY <1>0, <4>1, <4>2
    <3> QED BY <1>0, <3>7, <3>8
  <2>2. CASE step < 0
    <3>1. b = <<Clamp(s, 0, dim - 1), Clamp(e, -1, dim - 1)>>
      BY <1>0, <2>2 DEF SliceBounds
    <3> DEFINE u == b[1]
               v == b[2]
               t == -step
    <3>2. /\ u = (IF s < 0 THEN 0 ELSE IF s > dim - 1 THEN dim - 1 ELSE s)
          /\ v = (IF e < -1 THEN -1 ELSE IF e > dim - 1 THEN dim - 1 ELSE e)
      BY <1>0, <3>1 DEF Clamp
    <3>3. first = IF dim - 1 < (IF s > 0 THEN s ELSE 0) THEN dim - 1 ELSE IF s > 0 THEN s ELSE 0
      <4>1. first = Min({dim - 1, Max({0, s})})
        BY <1>0, <2>2
      <4> HIDE DEF first, s
      <4> QED BY <1>0, <1>1, <1>3, <1>4, <4>1
    <3>4. c = IF u > v THEN CeilDiv(u - v, t) ELSE 0
      <4>1. v \in Int /\ u \in Int
        BY <1>0, <1>1, <3>2
      <4> QED BY <1>0, <2>2, <4>1 DEF SliceCount
    <3> HIDE DEF u, v, c, first, s, e, b
    <3>5. u \in 0 .. dim - 1 /\ v \in -1 .. dim - 1 /\ first = u /\ t \in Nat /\ t >= 1 /\ dim >= 1
      BY <1>0, <1>1, <2>2, <3>2, <3>3
    <3>6. ASSUME NEW k \in Nat
          PROVE  Goes(k) <=> k * t < u - v
      <4> DEFINE p == k * t
      <4>1. p \in Nat
        BY <1>0, <3>5, MulNat
      <4>2. k * step = -p
        BY <1>0
      <4> HIDE DEF p, t
      <4>3. (u - p \in 0 .. dim - 1 /\ u - p > e) <=> p < u - v
        BY <1>0, <1>1, <3>2, <3>5, <4>1
      <4>4. Position(k) = u - p
        BY <1>0, <3>5, <4>1, <4>2
      <4> HIDE DEF Position
      <4>5. Goes(k) <=> (u - p \in 0 .. dim - 1 /\ u - p > e)
        BY <1>0, <2>2, <4>4
      <4> QED BY <1>0, <4>3, <4>5 DEF p
    <3> HIDE DEF t, Goes
    <3>7. CASE u > v
      <4>1. c = CeilDiv(u - v, t) /\ u - v \in Nat /\ u - v >= 1
        BY <1>0, <3>4, <3>5, <3>7
      <4>2. /\ c \in 1 .. u - v /\ c * t >= u - v
            /\ \A w \in 0 .. c - 1 : w * t < u - v
        BY <1>0, <3>5, <4>1, CeilCounts
      <4>3. ~Goes(c)
        <5> DEFINE p == c * t
        <5>1. p \in Nat /\ p >= u - v /\ c \in Nat
          BY <1>0, <3>5, <4>2, MulNat
        <5> HIDE DEF p
        <5>2. ~(p < u - v)
          BY <1>0, <4>1, <5>1
        <5> QED BY <1>0, <3>6, <5>1, <5>2 DEF p
      <4>4. ASSUME NEW k \in 0 .. c - 1
            PROVE  Goes(k)
        BY <1>0, <3>6, <4>2
      <4> QED BY <1>0, <3>5, <4>1, <4>2, <4>3, <4>4 DEF u
    <3>8. CASE ~(u > v)
      <4>1. c = 0 /\ ~(0 < u - v)
        BY <1>0, <3>4, <3>5, <3>8
      <4>2. ~Goes(0)
        <5>1. 0 * t = 0
          BY <1>0, <3>5
        <5> QED BY <1>0, <3>6, <4>1, <5>1
      <4> QED BY <1>0, <4>1, <4>2
    <3> QED BY <1>0, <3>7, <3>8
  <2>3. step > 0 \/ step < 0
    BY <1>0
  <2> HIDE DEF c, Ends, first, b
  <2> QED BY <1>0, <2>1, <2>2, <2>3
<1>6. count = c
  <2> HIDE DEF c, Goes
  <2>1. count \in 0 .. dim /\ Ends(count)
    <3> HIDE DEF Ends
    <3> QED BY <1>0, <1>5, Zenon DEF count
  <2> HIDE DEF count
  <2> QED BY <1>0, <1>5, <2>1
<1>7. [k \in 1 .. count |-> Position(k - 1)] = [k \in 1 .. c |-> b[1] + (k - 1) * step]
  <2> HIDE DEF c, count, first, b
  <2>1. ASSUME NEW k \in 1 .. c
        PROVE  Position(k - 1) = b[1] + (k - 1) * step
    BY <1>0, <1>5
  <2> QED BY <1>0, <1>6, <2>1
<1> HIDE DEF c, count, b, first
<1>8. c \in Nat
  BY <1>0, <1>5
<1> QED BY <1>2, <1>7, <1>8, Zenon DEF c, b, Stepped

\* Every axis named once at most, by a step that is not 0; an empty axis is not walked
\* backwards: the clamp of host_ops.rs panics there.
Excerpts(j) ==
  /\ j.op = "Slice" /\ Operand(j.x[1])
  /\ j.starts \in Seq(Int) /\ j.ends \in Seq(Int) /\ j.axes \in Seq(Int) /\ j.steps \in Seq(Int)
  /\ Len(j.starts) = Len(j.ends) /\ Len(j.axes) = Len(j.starts) /\ Len(j.steps) = Len(j.starts)
  /\ \A i \in DOMAIN j.axes :
       /\ IsAxis(j.axes[i], Rank(j.x[1])) /\ j.steps[i] # 0
       /\ j.x[1].shape[Axis(j.axes[i], Rank(j.x[1]))] = 0 => j.steps[i] > 0
  /\ \A i, k \in DOMAIN j.axes :
       Axis(j.axes[i], Rank(j.x[1])) = Axis(j.axes[k], Rank(j.x[1])) => i = k

\* The positions along axis d of x that a slice visits.
PositionsOf(x, starts, ends, axes, steps, d) ==
  LET on(b) == {i \in DOMAIN axes : Axis(axes[i], Rank(x)) = b}
  IN IF on(d) = {} THEN [k \in 1 .. x.shape[d] |-> k - 1]
     ELSE LET i == CHOOSE i \in on(d) : TRUE IN Visited(x.shape[d], starts[i], ends[i], steps[i])

LEMMA SlicePositions ==
  ASSUME NEW j, Excerpts(j)
  PROVE  /\ SliceOf(j) # Refused
         /\ DOMAIN SliceOf(j).out = 1 .. Rank(j.x[1])
         /\ \A d \in 1 .. Rank(j.x[1]) :
              /\ SliceOf(j).out[d] \in Nat /\ SliceOf(j).start[d] \in Int /\ SliceOf(j).step[d] \in Int
              /\ PositionsOf(j.x[1], j.starts, j.ends, j.axes, j.steps, d)
                   = [k \in 1 .. SliceOf(j).out[d] |-> SliceOf(j).start[d] + (k - 1) * SliceOf(j).step[d]]
<1> DEFINE x == j.x[1]
           s == x.shape
           n == Rank(x)
           params == SliceOf(j)
           on(d) == {i \in DOMAIN j.axes : Axis(j.axes[i], n) = d}
           b(d) == SliceBounds(s[d], j.starts[Max(on(d))], j.ends[Max(on(d))], j.steps[Max(on(d))])
           out == [d \in DOMAIN s |-> IF on(d) = {} THEN s[d] ELSE SliceCount(b(d), j.steps[Max(on(d))])]
           first == [d \in DOMAIN s |-> IF on(d) = {} THEN 0 ELSE b(d)[1]]
           by == [d \in DOMAIN s |-> IF on(d) = {} THEN 1 ELSE j.steps[Max(on(d))]]
           positions(d) == PositionsOf(x, j.starts, j.ends, j.axes, j.steps, d)
<1>1. /\ n = Len(s) /\ n \in Nat /\ DOMAIN s = 1 .. n /\ \A d \in 1 .. n : s[d] \in Nat
  BY OperandIs DEF Excerpts
<1>2. params = [out |-> out, start |-> first, step |-> by]
  BY <1>1 DEF SliceOf, SliceParams, Excerpts
<1>3. params # Refused /\ params.out = out /\ params.start = first /\ params.step = by
  <2> HIDE DEF out, first, by, params
  <2>1. "out" \in DOMAIN params /\ "out" \notin DOMAIN Refused
    BY <1>2 DEF Refused
  <2> QED BY <1>2, <2>1
<1>4. ASSUME NEW d \in 1 .. n
      PROVE  /\ out[d] \in Nat /\ first[d] \in Int /\ by[d] \in Int
             /\ positions(d) = [k \in 1 .. out[d] |-> first[d] + (k - 1) * by[d]]
  <2>1. CASE on(d) = {}
    <3>1. d \in DOMAIN s /\ s[d] \in Nat
      BY <1>1
    <3>2. out[d] = s[d] /\ first[d] = 0 /\ by[d] = 1
      BY <2>1, <3>1, Zenon
    <3>3. positions(d) = [k \in 1 .. s[d] |-> k - 1]
      BY <2>1 DEF PositionsOf
    <3> HIDE DEF out, first, by, s, positions
    <3>4. [k \in 1 .. s[d] |-> k - 1] = [k \in 1 .. out[d] |-> first[d] + (k - 1) * by[d]]
      BY <3>1, <3>2
    <3> QED BY <3>1, <3>2, <3>3, <3>4
  <2>2. CASE on(d) # {}
    <3>1. PICK i \in on(d) : TRUE
      BY <2>2
    <3>2. on(d) = {i} /\ i \in 1 .. Len(j.axes) /\ Axis(j.axes[i], n) = d
      <4>1. i \in DOMAIN j.axes /\ Axis(j.axes[i], n) = d
        BY <3>1
      <4>2. \A k, m \in DOMAIN j.axes : Axis(j.axes[k], n) = Axis(j.axes[m], n) => k = m
        BY DEF Excerpts
      <4>3. \A k \in on(d) : k = i
        BY <4>1, <4>2
      <4>4. DOMAIN j.axes = 1 .. Len(j.axes)
        BY DEF Excerpts
      <4> HIDE DEF on
      <4> QED BY <3>1, <4>1, <4>3, <4>4
    <3>3. Max(on(d)) = i /\ (CHOOSE k \in on(d) : TRUE) = i
      <4> HIDE DEF on
      <4>1. Max({i}) = i
        <5>1. i \in Int
          BY <3>2
        <5> QED BY <5>1, LargestIs
      <4> QED BY <3>2, <4>1
    <3> DEFINE c == SliceBounds(s[d], j.starts[i], j.ends[i], j.steps[i])
    <3>4. /\ s[d] \in Nat /\ j.starts[i] \in Int /\ j.ends[i] \in Int /\ j.steps[i] \in Int
          /\ j.steps[i] # 0 /\ (s[d] = 0 => j.steps[i] > 0)
      <4>1. /\ Len(j.starts) = Len(j.ends) /\ Len(j.axes) = Len(j.starts) /\ Len(j.steps) = Len(j.starts)
            /\ j.starts \in Seq(Int) /\ j.ends \in Seq(Int) /\ j.steps \in Seq(Int)
        BY DEF Excerpts
      <4>2. i \in 1 .. Len(j.starts) /\ i \in 1 .. Len(j.ends) /\ i \in 1 .. Len(j.steps)
        BY <3>2, <4>1, Zenon
      <4>3. j.starts[i] \in Int /\ j.ends[i] \in Int /\ j.steps[i] \in Int
        BY <4>1, <4>2
      <4>4. i \in DOMAIN j.axes
        BY <3>1
      <4>5. j.steps[i] # 0 /\ (s[Axis(j.axes[i], n)] = 0 => j.steps[i] > 0)
        BY <4>4 DEF Excerpts
      <4>6. Axis(j.axes[i], n) = d /\ s[d] \in Nat
        BY <1>1, <3>2
      <4> HIDE DEF s, n
      <4> QED BY <4>3, <4>5, <4>6
    <3>5. out[d] = SliceCount(c, j.steps[i]) /\ first[d] = c[1] /\ by[d] = j.steps[i]
      <4>1. b(d) = c
        BY <3>3
      <4>2. d \in DOMAIN s
        BY <1>1
      <4> HIDE DEF b, on, c
      <4> QED BY <2>2, <3>3, <4>1, <4>2
    <3>6. positions(d) = Visited(s[d], j.starts[i], j.ends[i], j.steps[i])
      <4> DEFINE pick == CHOOSE k \in on(d) : TRUE
      <4>1. positions(d) = Visited(s[d], j.starts[pick], j.ends[pick], j.steps[pick])
        BY <2>2 DEF PositionsOf
      <4>2. pick = i
        BY <3>3
      <4> HIDE DEF pick, positions
      <4> QED BY <4>1, <4>2
    <3>7. /\ SliceCount(c, j.steps[i]) \in Nat
          /\ Visited(s[d], j.starts[i], j.ends[i], j.steps[i])
               = [k \in 1 .. SliceCount(c, j.steps[i]) |-> c[1] + (k - 1) * j.steps[i]]
      <4> DEFINE dim == s[d]
                 start == j.starts[i]
                 end == j.ends[i]
                 step == j.steps[i]
      <4>1. Walkable(dim, start, end, step) /\ c = SliceBounds(dim, start, end, step)
        BY <3>4 DEF Walkable
      <4> HIDE DEF dim, start, end, step, c
      <4>2. SliceCount(c, step) \in Nat /\ Visited(dim, start, end, step) = Stepped(c, step)
        BY <4>1, VisitedIs
      <4> QED BY <4>2 DEF dim, start, end, step, Stepped
    <3>8. c[1] \in Int
      <4>1. Wrapped(j.starts[i], s[d]) \in Int
        BY <3>4 DEF Wrapped
      <4> QED BY <3>4, <4>1 DEF SliceBounds, Clamp
    <3> HIDE DEF c, out, first, by, positions
    <3> QED BY <3>4, <3>5, <3>6, <3>7, <3>8
  <2> QED BY <2>1, <2>2
<1>5. DOMAIN out = 1 .. n
  BY <1>1
<1> HIDE DEF out, first, by, positions, params
<1> QED BY <1>3, <1>4, <1>5 DEF positions, params

\* The elements of a slice.
SliceElements(j) ==
  [o \in 0 .. Product(SliceOf(j).out) - 1 |-> j.x[1].data[SliceFrom(j.x[1], SliceOf(j), o)]]

LEMMA SliceMeantIs ==
  ASSUME NEW j, Excerpts(j)
  PROVE  /\ SliceOf(j) # Refused /\ SliceOf(j).out \in Seq(Nat)
         /\ \A o \in 0 .. Product(SliceOf(j).out) - 1 :
              SliceFrom(j.x[1], SliceOf(j), o) \in 0 .. Product(j.x[1].shape) - 1
         /\ OperatorMeaning(j) = <<New(j.x[1].dtype, SliceOf(j).out, SliceElements(j))>>
<1> DEFINE x == j.x[1]
           s == x.shape
           n == Rank(x)
           params == SliceOf(j)
           out == params.out
           picks == [d \in DOMAIN s |-> PositionsOf(x, j.starts, j.ends, j.axes, j.steps, d)]
           shape == [d \in DOMAIN s |-> Len(picks[d])]
           old(c) == [d \in DOMAIN c |-> picks[d][c[d] + 1]]
           to(o) == [d \in DOMAIN s |-> params.start[d] + Walk(out, o)[d] * params.step[d]]
<1>1. /\ n = Len(s) /\ n \in Nat /\ DOMAIN s = 1 .. n /\ s \in Seq(Nat)
  BY OperandIs DEF Excerpts
<1>2. /\ params # Refused /\ DOMAIN out = 1 .. n
      /\ \A d \in 1 .. n :
           /\ out[d] \in Nat /\ params.start[d] \in Int /\ params.step[d] \in Int
           /\ picks[d] = [k \in 1 .. out[d] |-> params.start[d] + (k - 1) * params.step[d]]
  BY <1>1, SlicePositions
<1>3. /\ out \in Seq(Nat)
      /\ \A o \in 0 .. Product(out) - 1 : SliceFrom(x, params, o) \in 0 .. Product(s) - 1
  BY <1>1, <1>2, SliceReads DEF Excerpts, SliceOf
<1>4. OperatorMeaning(j) = <<New(x.dtype, shape, [o \in 0 .. Product(shape) - 1 |-> x.data[Place(s, old(CoordAt(shape, o)))]])>>
  <2>1. OperatorMeaning(j) = <<MeantSlice(x, j.starts, j.ends, j.axes, j.steps)>>
    BY DEF OperatorMeaning, Excerpts
  <2>2. MeantSlice(x, j.starts, j.ends, j.axes, j.steps)
          = New(x.dtype, shape, [o \in 0 .. Product(shape) - 1 |-> x.data[Place(s, old(CoordAt(shape, o)))]])
    BY DEF MeantSlice, Make, At, PositionsOf
  <2> QED BY <2>1, <2>2
<1> HIDE DEF picks, params
<1>5. shape = out
  <2>1. ASSUME NEW d \in 1 .. n
        PROVE  Len(picks[d]) = out[d]
    <3>1. /\ out[d] \in Nat
          /\ picks[d] = [k \in 1 .. out[d] |-> params.start[d] + (k - 1) * params.step[d]]
      BY <1>2
    <3> HIDE DEF out
    <3> QED BY <3>1
  <2>2. out = [d \in 1 .. n |-> out[d]]
    <3>1. DOMAIN out = 1 .. n /\ out \in Seq(Nat)
      BY <1>2, <1>3
    <3> HIDE DEF out
    <3> QED BY <3>1
  <2> HIDE DEF out
  <2> QED BY <1>1, <2>1, <2>2
<1>6. ASSUME NEW o \in 0 .. Product(out) - 1
      PROVE  Place(s, old(CoordAt(out, o))) = SliceFrom(x, params, o)
  <2> DEFINE c == CoordAt(out, o)
  <2>1. c = Walk(out, o) /\ DOMAIN c = 1 .. n /\ \A d \in 1 .. n : c[d] \in 0 .. out[d] - 1
    <3>1. Len(out) = n
      BY <1>1, <1>2, <1>3
    <3> HIDE DEF out
    <3> QED BY <1>3, <3>1, CoordInside, CoordAtIs
  <2> HIDE DEF c, out, s
  <2>2. old(c) = to(o) /\ \A d \in 1 .. n : to(o)[d] \in Int
    <3> SUFFICES ASSUME NEW d \in 1 .. n
                 PROVE  picks[d][c[d] + 1] = params.start[d] + Walk(out, o)[d] * params.step[d]
                        /\ picks[d][c[d] + 1] \in Int
      BY <1>1, <2>1
    <3>0. /\ out[d] \in Nat /\ params.start[d] \in Int /\ params.step[d] \in Int
          /\ picks[d] = [k \in 1 .. out[d] |-> params.start[d] + (k - 1) * params.step[d]]
      BY <1>2 DEF out
    <3>1. c[d] \in Nat /\ c[d] + 1 \in 1 .. out[d] /\ (c[d] + 1) - 1 = c[d] /\ c[d] \in Int
      BY <2>1, <3>0
    <3>2. c[d] * params.step[d] \in Int
      BY <3>0, <3>1, MulInt
    <3>3. picks[d][c[d] + 1] = params.start[d] + c[d] * params.step[d]
      BY <3>0, <3>1
    <3> QED BY <2>1, <3>0, <3>2, <3>3
  <2>3. Product(s) >= 1
    <3>1. SliceFrom(x, params, o) \in 0 .. Product(s) - 1 /\ Product(s) \in Nat
      BY <1>1, <1>3, ProductNat
    <3> QED BY <3>1
  <2>4. Place(s, to(o)) = Dot(to(o), Strides(s))
    <3>1. DOMAIN to(o) = 1 .. Len(s)
      BY <1>1
    <3> HIDE DEF to
    <3> QED BY <1>1, <2>2, <2>3, <3>1, PlaceIsDot
  <2>5. SliceFrom(x, params, o) = Dot(to(o), Strides(s))
    BY DEF SliceFrom, s, out
  <2> HIDE DEF old, to
  <2> QED BY <2>2, <2>4, <2>5 DEF c
<1>7. [o \in 0 .. Product(out) - 1 |-> x.data[Place(s, old(CoordAt(out, o)))]] = SliceElements(j)
  <2> HIDE DEF old, out
  <2> QED BY <1>6 DEF SliceElements, out, params
<1> HIDE DEF old, shape
<1> QED BY <1>2, <1>3, <1>4, <1>5, <1>7 DEF params

LEMMA SliceRuns ==
  ASSUME NEW j, Excerpts(j)
  PROVE  ResultsMean(j) \/ ThreadsMean(j)
<1> DEFINE x == j.x[1]
           params == SliceOf(j)
           out == params.out
           data == SliceElements(j)
<1>1. /\ params # Refused /\ out \in Seq(Nat)
      /\ \A o \in 0 .. Product(out) - 1 : SliceFrom(x, params, o) \in 0 .. Product(x.shape) - 1
      /\ OperatorMeaning(j) = <<New(x.dtype, out, data)>>
  BY SliceMeantIs
<1>2. Valid(x) /\ x.data \in [0 .. Product(x.shape) - 1 -> Int] /\ j.op = "Slice"
  BY OperandIs DEF Excerpts
<1>3. OperatorPlan(j) = SlicePlan(j)
  BY <1>2 DEF OperatorPlan
<1>4. data = [o \in 0 .. Product(out) - 1 |-> x.data[SliceFrom(x, params, o)]]
  BY DEF SliceElements
<1>5. CASE IsFloat(x)
  <2>1. x.dtype = "FLOAT" /\ OperatorPlan(j) = One("FLOAT", out)
    BY <1>1, <1>3, <1>5 DEF SlicePlan, IsFloat
  <2>2. ASSUME NEW m, NEW e \in 0 .. Product(out) - 1
        PROVE  OperatorStored(j, m, 1, e) = <<1, e, data[e]>>
    <3>1. OperatorStored(j, m, 1, e) = <<1, e, SliceThread(j, e)>>
      BY <1>2 DEF OperatorStored
    <3>2. SliceThread(j, e) = x.data[SliceFrom(x, params, e)]
      <4> DEFINE from == SliceFrom(x, params, e)
      <4>1. from \in DOMAIN x.data /\ SliceThread(j, e) = Load(x.data, from)
        BY <1>1, <1>2 DEF SliceThread
      <4> HIDE DEF from
      <4> QED BY <4>1 DEF Load, from
    <3> HIDE DEF data, out
    <3> QED BY <1>4, <3>1, <3>2
  <2>3. data = [i \in 0 .. Product(out) - 1 |-> data[i]]
    <3> HIDE DEF data
    <3> QED BY <1>4
  <2>4. OperatorMeaning(j) = <<New("FLOAT", out, data)>>
    BY <1>1, <2>1
  <2> HIDE DEF data, out
  <2> QED BY <1>1, <2>1, <2>2, <2>3, <2>4, ThreadsAre
<1>6. CASE ~IsFloat(x)
  <2>1. OperatorPlan(j) = Host(<<Slice(x, params)>>)
    BY <1>1, <1>3, <1>6 DEF SlicePlan
  <2>2. Slice(x, params) = New(x.dtype, out, data)
    BY <1>1, <1>2, <1>4 DEF Slice, Movable, Moved, SliceFrom
  <2> QED BY <1>1, <2>1, <2>2 DEF ResultsMean
<1> QED BY <1>5, <1>6

----------------------------------------------------------------------------
(* Transpose: the same terms in another order.                             *)

Reorders(perm, n) ==
  /\ perm \in [1 .. n -> 1 .. n]
  /\ \A d, e \in 1 .. n : perm[d] = perm[e] => d = e
  /\ \A d \in 1 .. n : \E e \in 1 .. n : perm[e] = d

\* Where the reordering puts a dimension.
PutAt(perm, d) == CHOOSE e \in DOMAIN perm : perm[e] = d

LEMMA PutAtIs ==
  ASSUME NEW n \in Nat, NEW perm, Reorders(perm, n)
  PROVE  /\ \A d \in 1 .. n : PutAt(perm, d) \in 1 .. n /\ perm[PutAt(perm, d)] = d
         /\ \A e \in 1 .. n : PutAt(perm, perm[e]) = e
<1>1. DOMAIN perm = 1 .. n /\ \A e \in 1 .. n : perm[e] \in 1 .. n
  BY DEF Reorders
<1>2. \A d \in 1 .. n : PutAt(perm, d) \in 1 .. n /\ perm[PutAt(perm, d)] = d
  <2> SUFFICES ASSUME NEW d \in 1 .. n
               PROVE  PutAt(perm, d) \in 1 .. n /\ perm[PutAt(perm, d)] = d
    OBVIOUS
  <2>1. \E e \in DOMAIN perm : perm[e] = d
    BY <1>1 DEF Reorders
  <2>2. PutAt(perm, d) \in DOMAIN perm /\ perm[PutAt(perm, d)] = d
    BY <2>1, Zenon DEF PutAt
  <2> QED BY <1>1, <2>2
<1>3. \A d, e \in 1 .. n : perm[d] = perm[e] => d = e
  BY DEF Reorders
<1> QED BY <1>1, <1>2, <1>3

\* Two dot products that agree in every term but one differ by it.
OneMore(f, u, g, n, a) ==
  /\ DOMAIN f = 1 .. n /\ DOMAIN u = 1 .. n /\ u[a] = 0
  /\ \A d \in 1 .. n : f[d] \in Int /\ u[d] \in Int /\ g[d] \in Int
  /\ \A d \in 1 .. n : d = a \/ f[d] = u[d]

LEMMA DotPut ==
  ASSUME NEW n \in Nat, NEW f, NEW u, NEW g, NEW a \in 1 .. n, OneMore(f, u, g, n, a)
  PROVE  Dot(f, g) = Dot(u, g) + f[a] * g[a]
<1>0. /\ DOMAIN f = 1 .. n /\ DOMAIN u = 1 .. n /\ u[a] = 0
      /\ \A d \in 1 .. n : f[d] \in Int /\ u[d] \in Int /\ g[d] \in Int
      /\ \A d \in 1 .. n : d = a \/ f[d] = u[d]
  BY DEF OneMore
<1>1. PICK t : Sums(t, f, g, n) /\ Dot(f, g) = t[n]
  BY <1>0, DotIs
<1>2. PICK r : Sums(r, u, g, n) /\ Dot(u, g) = r[n]
  BY <1>0, DotIs
<1> DEFINE z == f[a] * g[a]
           T == {d \in Nat : d \in 0 .. n => r[d] \in Int /\ t[d] = r[d] + (IF d < a THEN 0 ELSE z)}
<1>3. z \in Int
  BY <1>0, MulInt
<1>4. 0 \in T
  BY <1>1, <1>2 DEF Sums
<1>5. ASSUME NEW d \in 1 .. n, d - 1 \in T
      PROVE  d \in T
  <2>1. r[d - 1] \in Int /\ t[d - 1] = r[d - 1] + (IF d - 1 < a THEN 0 ELSE z)
    BY <1>5
  <2>2. t[d] = t[d - 1] + f[d] * g[d] /\ r[d] = r[d - 1] + u[d] * g[d]
    BY <1>1, <1>2 DEF Sums
  <2>3. u[d] * g[d] \in Int
    BY <1>0, MulInt
  <2>4. CASE d = a
    <3>1. u[d] * g[d] = 0 /\ f[d] * g[d] = z
      BY <1>0, <2>4
    <3> HIDE DEF z
    <3>2. t[d] = r[d] + z /\ r[d] \in Int
      BY <1>3, <2>1, <2>2, <2>4, <3>1
    <3> QED BY <2>4, <3>2
  <2>5. CASE d # a
    <3>1. f[d] * g[d] = u[d] * g[d]
      BY <1>0, <2>5
    <3> DEFINE q == u[d] * g[d]
    <3>2. q \in Int /\ t[d] = t[d - 1] + q /\ r[d] = r[d - 1] + q
      BY <2>2, <2>3, <3>1
    <3> HIDE DEF z, q
    <3>3. r[d] \in Int /\ t[d] = r[d] + (IF d < a THEN 0 ELSE z)
      BY <1>3, <2>1, <2>5, <3>2
    <3> QED BY <3>3
  <2> QED BY <2>4, <2>5
<1>6. n \in T
  <2> HIDE DEF T
  <2>1. T \in SUBSET Nat /\ n \in 0 .. n
    BY DEF T
  <2> QED BY <1>4, <1>5, <2>1, CountsUpTo
<1> QED BY <1>1, <1>2, <1>6

\* A dot product with reordered steps is the one with coordinates put back in order.
Summable(c, g, n) == DOMAIN c = 1 .. n /\ \A d \in 1 .. n : c[d] \in Int /\ g[d] \in Int

LEMMA DotReorders ==
  ASSUME NEW n \in Nat, NEW perm, Reorders(perm, n), NEW c, NEW g, Summable(c, g, n)
  PROVE  Dot(c, Permuted(g, perm)) = Dot([d \in 1 .. n |-> c[PutAt(perm, d)]], g)
<1> DEFINE h == Permuted(g, perm)
           v(k) == [d \in 1 .. n |-> IF PutAt(perm, d) <= k THEN c[PutAt(perm, d)] ELSE 0]
<1>0. DOMAIN c = 1 .. n /\ \A d \in 1 .. n : c[d] \in Int /\ g[d] \in Int
  BY DEF Summable
<1>1. /\ \A d \in 1 .. n : PutAt(perm, d) \in 1 .. n /\ perm[PutAt(perm, d)] = d
      /\ \A e \in 1 .. n : PutAt(perm, perm[e]) = e
  BY PutAtIs
<1>2. DOMAIN perm = 1 .. n /\ \A e \in 1 .. n : perm[e] \in 1 .. n
  BY DEF Reorders
<1>3. \A e \in 1 .. n : h[e] = g[perm[e]]
  BY <1>2 DEF Permuted
<1>4. PICK t : Sums(t, c, h, n) /\ Dot(c, h) = t[n]
  <2> HIDE DEF h
  <2> QED BY <1>0, DotIs
<1> HIDE DEF h
<1> DEFINE T == {k \in Nat : k \in 0 .. n => Dot(v(k), g) = t[k]}
<1>5. 0 \in T
  <2>1. PICK r : Sums(r, v(0), g, n) /\ Dot(v(0), g) = r[n]
    BY DotIs
  <2>2. \A d \in 1 .. n : v(0)[d] * g[d] = 0
    <3> SUFFICES ASSUME NEW d \in 1 .. n
                 PROVE  v(0)[d] * g[d] = 0
      OBVIOUS
    <3>1. v(0)[d] = 0
      BY <1>1
    <3> HIDE DEF v
    <3> QED BY <1>0, <3>1
  <2> HIDE DEF v
  <2> DEFINE R == {k \in Nat : k \in 0 .. n => r[k] = 0}
  <2>3. 0 \in R
    BY <2>1 DEF Sums
  <2>4. ASSUME NEW k \in 1 .. n, k - 1 \in R
        PROVE  k \in R
    <3>1. r[k - 1] = 0 /\ r[k] = r[k - 1] + v(0)[k] * g[k] /\ v(0)[k] * g[k] = 0
      BY <2>1, <2>2, <2>4 DEF Sums
    <3> QED BY <3>1
  <2>5. n \in R
    <3> HIDE DEF R
    <3>1. R \in SUBSET Nat /\ n \in 0 .. n
      BY DEF R
    <3> QED BY <2>3, <2>4, <3>1, CountsUpTo
  <2>6. t[0] = 0
    BY <1>4 DEF Sums
  <2> QED BY <2>1, <2>5, <2>6
<1>6. ASSUME NEW k \in 1 .. n, k - 1 \in T
      PROVE  k \in T
  <2> DEFINE a == perm[k]
  <2>1. a \in 1 .. n /\ PutAt(perm, a) = k
    BY <1>1, <1>2
  <2>2. \A m \in 0 .. n : DOMAIN v(m) = 1 .. n /\ \A d \in 1 .. n : v(m)[d] \in Int
    BY <1>0, <1>1
  <2>3. v(k - 1)[a] = 0 /\ v(k)[a] = c[k]
    BY <2>1
  <2>4. \A d \in 1 .. n : d = a \/ v(k)[d] = v(k - 1)[d]
    <3> SUFFICES ASSUME NEW d \in 1 .. n, d # a
                 PROVE  v(k)[d] = v(k - 1)[d]
      OBVIOUS
    <3>1. PutAt(perm, d) # k /\ PutAt(perm, d) \in 1 .. n
      BY <1>1
    <3> HIDE DEF a
    <3> QED BY <3>1
  <2> HIDE DEF v, a
  <2>5. Dot(v(k), g) = Dot(v(k - 1), g) + v(k)[a] * g[a]
    <3>1. k \in 0 .. n /\ k - 1 \in 0 .. n
      OBVIOUS
    <3> DEFINE f == v(k)
               u == v(k - 1)
    <3>2. OneMore(f, u, g, n, a)
      BY <1>0, <2>2, <2>3, <2>4, <3>1 DEF OneMore
    <3> HIDE DEF f, u
    <3>3. Dot(f, g) = Dot(u, g) + f[a] * g[a]
      BY <2>1, <3>2, DotPut
    <3> QED BY <3>3 DEF f, u
  <2>6. t[k] = t[k - 1] + c[k] * h[k]
    BY <1>4 DEF Sums
  <2>7. h[k] = g[a] /\ v(k)[a] = c[k]
    BY <1>3, <2>3 DEF a
  <2>8. Dot(v(k - 1), g) = t[k - 1]
    BY <1>6
  <2>9. Dot(v(k), g) = t[k]
    BY <1>0, <2>5, <2>6, <2>7, <2>8
  <2> QED BY <2>9
<1>7. n \in T
  <2> HIDE DEF T
  <2>1. T \in SUBSET Nat /\ n \in 0 .. n
    BY DEF T
  <2> QED BY <1>5, <1>6, <2>1, CountsUpTo
<1>8. v(n) = [d \in 1 .. n |-> c[PutAt(perm, d)]]
  BY <1>1
<1> HIDE DEF v
<1> QED BY <1>4, <1>7, <1>8 DEF h

\* A reordering of all axes; the kernel has room for MaxRank of them.
Transposes(j) ==
  /\ j.op = "Transpose" /\ Operand(j.x[1]) /\ Reorders(j.perm, Rank(j.x[1]))
  /\ OnDevice(j, 1) /\ ElemSize(j.x[1].dtype) = 4 => Rank(j.x[1]) <= MaxRank

LEMMA PermutedIs ==
  ASSUME NEW s \in Seq(Nat), NEW perm, Reorders(perm, Len(s))
  PROVE  /\ Permuted(s, perm) \in Seq(Nat) /\ Len(Permuted(s, perm)) = Len(s)
         /\ \A d \in 1 .. Len(s) : perm[d] \in 1 .. Len(s) /\ Permuted(s, perm)[d] = s[perm[d]]
<1> DEFINE n == Len(s)
           f == [d \in 1 .. n |-> s[perm[d]]]
<1>1. n \in Nat /\ DOMAIN s = 1 .. n /\ \A d \in 1 .. n : s[d] \in Nat
  OBVIOUS
<1>2. DOMAIN perm = 1 .. n /\ \A d \in 1 .. n : perm[d] \in 1 .. n
  BY DEF Reorders
<1>3. Permuted(s, perm) = f
  BY <1>2 DEF Permuted
<1> HIDE DEF n
<1>4. Lists(f, n)
  BY <1>1, <1>2 DEF Lists
<1> HIDE DEF f
<1>5. f \in Seq(Nat) /\ Len(f) = n
  BY <1>1, <1>4, ListIs
<1> QED BY <1>2, <1>3, <1>5 DEF n, f

\* The steps that the kernel takes find the element that is meant.
LEMMA TransposedReads ==
  ASSUME NEW x, Operand(x), NEW perm, Reorders(perm, Rank(x)),
         NEW o \in 0 .. Product(Permuted(x.shape, perm)) - 1
  PROVE  /\ TransposedFrom(x, perm, o) \in 0 .. Product(x.shape) - 1
         /\ Place(x.shape, [d \in DOMAIN perm |->
                CoordAt(Permuted(x.shape, perm), o)[CHOOSE e \in DOMAIN perm : perm[e] = d]])
              = TransposedFrom(x, perm, o)
<1> DEFINE s == x.shape
           n == Rank(x)
           out == Permuted(s, perm)
           c == CoordAt(out, o)
           old == [d \in 1 .. n |-> c[PutAt(perm, d)]]
<1>1. /\ n = Len(s) /\ n \in Nat /\ s \in Seq(Nat) /\ DOMAIN perm = 1 .. n
      /\ \A d \in 1 .. n : s[d] \in Nat
  BY OperandIs DEF Reorders
<1> HIDE DEF s, n
<1>2. /\ out \in Seq(Nat) /\ Len(out) = n
      /\ \A d \in 1 .. n : perm[d] \in 1 .. n /\ out[d] = s[perm[d]]
  <2>1. Reorders(perm, Len(s))
    BY <1>1 DEF n
  <2>2. /\ out \in Seq(Nat) /\ Len(out) = Len(s)
        /\ \A d \in 1 .. Len(s) : perm[d] \in 1 .. Len(s) /\ out[d] = s[perm[d]]
    <3>1. s \in Seq(Nat)
      BY <1>1
    <3> QED BY <2>1, <3>1, PermutedIs, Zenon
  <2> HIDE DEF out
  <2> QED BY <1>1, <2>2
<1>3. o \in 0 .. Product(out) - 1
  BY DEF s
<1> HIDE DEF out
<1>4. c = Walk(out, o) /\ DOMAIN c = 1 .. n /\ \A d \in 1 .. n : c[d] \in 0 .. out[d] - 1
  BY <1>2, <1>3, CoordInside, CoordAtIs
<1>5. \A d \in 1 .. n : PutAt(perm, d) \in 1 .. n /\ perm[PutAt(perm, d)] = d
  BY <1>1, PutAtIs DEF n
<1> HIDE DEF c
<1>6. ASSUME NEW d \in 1 .. n
      PROVE  old[d] \in 0 .. s[d] - 1
  <2> DEFINE e == PutAt(perm, d)
  <2>1. e \in 1 .. n /\ perm[e] = d /\ old[d] = c[e]
    BY <1>5
  <2> HIDE DEF e, old
  <2>2. c[e] \in 0 .. out[e] - 1 /\ out[e] = s[d]
    BY <1>2, <1>4, <2>1
  <2> QED BY <2>1, <2>2
<1>7. DOMAIN old = 1 .. n
  OBVIOUS
<1>8. old = [d \in DOMAIN perm |-> c[CHOOSE e \in DOMAIN perm : perm[e] = d]]
  BY <1>1 DEF PutAt
<1> HIDE DEF old
<1>9. Product(s) >= 1 /\ Place(s, old) = Dot(old, Strides(s)) /\ Place(s, old) \in 0 .. Product(s) - 1
  BY <1>1, <1>6, <1>7, AtInside
<1>10. \A d \in 1 .. n : Strides(s)[d] \in Int
  <2>1. \A d \in 1 .. Len(s) : Strides(s)[d] \in Nat
    BY <1>1, <1>9, StridesAre
  <2> QED BY <1>1, <2>1
<1>11. \A d \in 1 .. n : c[d] \in Int
  <2> SUFFICES ASSUME NEW d \in 1 .. n
               PROVE  c[d] \in Int
    OBVIOUS
  <2> QED BY <1>4
<1>12. Dot(c, Permuted(Strides(s), perm)) = Dot(old, Strides(s))
  <2> DEFINE g == Strides(s)
  <2>1. Summable(c, g, n)
    BY <1>4, <1>10, <1>11 DEF Summable
  <2>2. Reorders(perm, n)
    BY DEF n
  <2> HIDE DEF g
  <2>3. Dot(c, Permuted(g, perm)) = Dot([d \in 1 .. n |-> c[PutAt(perm, d)]], g)
    BY <1>1, <2>1, <2>2, DotReorders
  <2> QED BY <2>3 DEF old, g
<1>13. TransposedFrom(x, perm, o) = Dot(c, Permuted(Strides(s), perm))
  BY <1>4 DEF TransposedFrom, s, out
<1> QED BY <1>8, <1>9, <1>12, <1>13 DEF c, out, s

\* The transpose of a matrix by way of tiles reads what the steps find.
LEMMA TiledReads ==
  ASSUME TileRows \in Nat, TileRows >= 1, TileCols \in Nat, TileCols >= 1,
         NEW x, Operand(x), Rank(x) = 2,
         NEW o \in 0 .. Product(Permuted(x.shape, <<2, 1>>)) - 1
  PROVE  TiledFrom(x, o) = TransposedFrom(x, <<2, 1>>, o)
<1> DEFINE s == x.shape
           p == <<2, 1>>
           out == Permuted(s, p)
           rows == s[1]
           cols == s[2]
           i == o % rows
           j == o \div rows
<1>1. Len(s) = 2 /\ s \in Seq(Nat) /\ rows \in Nat /\ cols \in Nat
  BY OperandIs
<1> HIDE DEF s
<1>2. Reorders(p, Len(s)) /\ DOMAIN p = 1 .. 2 /\ p[1] = 2 /\ p[2] = 1
  BY <1>1 DEF Reorders
<1>3. out \in Seq(Nat) /\ Len(out) = 2 /\ out[1] = cols /\ out[2] = rows
  <2> HIDE DEF p
  <2>1. /\ out \in Seq(Nat) /\ Len(out) = Len(s)
        /\ \A d \in 1 .. Len(s) : out[d] = s[p[d]]
    BY <1>1, <1>2, PermutedIs
  <2> HIDE DEF out
  <2>2. 1 \in 1 .. Len(s) /\ 2 \in 1 .. Len(s)
    BY <1>1
  <2> QED BY <1>1, <1>2, <2>1, <2>2
<1>4. o \in 0 .. Product(out) - 1
  BY DEF s
<1> HIDE DEF out, p
<1>5. PICK r : /\ r[0] = Product(out) /\ r[Len(out)] = 1
               /\ \A d \in 0 .. Len(out) : r[d] \in Nat /\ r[d] >= 1
               /\ \A d \in 1 .. Len(out) :
                    /\ out[d] \in Nat /\ out[d] >= 1 /\ r[d - 1] = out[d] * r[d]
                    /\ Strides(out)[d] = r[d]
                    /\ Walk(out, o)[d] = (o \div r[d]) % out[d]
  BY <1>3, <1>4, WalkIs
<1>6. /\ r[1] = rows /\ r[0] = cols * rows /\ rows >= 1 /\ cols >= 1 /\ o \in Nat /\ o < cols * rows
  <2>1. r[2 - 1] = out[2] * r[2] /\ r[1 - 1] = out[1] * r[1] /\ out[1] >= 1 /\ out[2] >= 1
    BY <1>3, <1>5
  <2>2. r[1] = rows /\ r[0] = cols * r[1] /\ rows >= 1 /\ cols >= 1
    BY <1>1, <1>3, <1>5, <2>1
  <2>3. r[0] = cols * rows
    BY <2>2
  <2> QED BY <1>4, <1>5, <2>2, <2>3
<1> HIDE DEF rows, cols
<1>7. /\ i \in 0 .. rows - 1 /\ j \in 0 .. cols - 1
  <2>1. i \in 0 .. rows - 1 /\ j \in Nat /\ o = j * rows + i
    BY <1>1, <1>6, Division
  <2> HIDE DEF i, j
  <2>2. j < cols
    <3> SUFFICES ASSUME j >= cols
                 PROVE  FALSE
      BY <1>1, <2>1
    <3>0. /\ cols \in Int /\ j \in Int /\ cols <= j
          /\ cols \in Nat /\ j \in Nat /\ rows \in Nat
      BY <1>1, <2>1
    <3>1. cols * rows <= j * rows
      BY <3>0, Scaled, Zenon
    <3>2. j * rows \in Nat /\ cols * rows \in Nat
      BY <3>0, MulNat, Zenon
    <3> DEFINE a == j * rows
               b == cols * rows
    <3>3. a \in Nat /\ b \in Nat /\ b <= a /\ o = a + i /\ o < b /\ i \in Nat
      BY <1>6, <2>1, <3>1, <3>2
    <3> HIDE DEF a, b
    <3> QED BY <3>3
  <2> QED BY <1>1, <2>1, <2>2
<1>8. Walk(out, o)[1] = j /\ Walk(out, o)[2] = i
  <2>1. Walk(out, o)[1] = j % cols
    BY <1>3, <1>5, <1>6
  <2>2. Walk(out, o)[2] = o % rows
    <3>1. Walk(out, o)[2] = (o \div 1) % rows
      BY <1>3, <1>5
    <3>2. o \div 1 = o
      BY <1>6
    <3> QED BY <3>1, <3>2
  <2>3. j % cols = j
    <3> HIDE DEF j
    <3> DEFINE q == 0
    <3>1. cols \in Nat /\ j \in 0 .. cols - 1 /\ q \in Nat /\ q * cols + j = j
      BY <1>1, <1>7
    <3> HIDE DEF q
    <3>2. (q * cols + j) % cols = j
      BY <3>1, RemainderOf, Zenon
    <3> QED BY <3>1, <3>2
  <2> QED BY <2>1, <2>2, <2>3
<1>9. TransposedFrom(x, p, o) = i * cols + j
  <2>1. Product(s) >= 1
    <3>1. \A d \in 1 .. 2 : s[d] >= 1
      BY <1>6 DEF rows, cols
    <3> QED BY <1>1, <3>1, ProductNat
  <2>2. PICK q : /\ q = [d \in 0 .. Len(s) |-> Product(After(s, d))]
                 /\ q[0] = Product(s) /\ q[Len(s)] = 1
                 /\ \A d \in 0 .. Len(s) : q[d] \in Nat /\ q[d] >= 1
                 /\ \A d \in 1 .. Len(s) :
                      /\ s[d] \in Nat /\ s[d] >= 1 /\ q[d - 1] = s[d] * q[d]
                      /\ Strides(s)[d] = q[d]
                      /\ Product(s) \div Product(SubSeq(s, 1, d)) = q[d]
    BY <1>1, <2>1, StepsAre
  <2>3. Strides(s)[1] = cols /\ Strides(s)[2] = 1
    <3>1. q[2 - 1] = s[2] * q[2] /\ Strides(s)[1] = q[1] /\ Strides(s)[2] = q[2] /\ q[2] = 1
      BY <1>1, <2>2
    <3> QED BY <1>1, <3>1 DEF cols
  <2> DEFINE g == Permuted(Strides(s), p)
             w == Walk(out, o)
  <2>4. g[1] = 1 /\ g[2] = cols
    BY <1>2, <2>3 DEF Permuted
  <2>5. DOMAIN w = 1 .. 2
    BY <1>3 DEF Walk
  <2>6. TransposedFrom(x, p, o) = Dot(w, g)
    BY DEF TransposedFrom, s, out
  <2> HIDE DEF w, g
  <2>7. PICK t : Sums(t, w, g, 2) /\ Dot(w, g) = t[2]
    <3> DEFINE n == 2
    <3>1. n \in Nat /\ DOMAIN w = 1 .. n
      BY <2>5
    <3> HIDE DEF n
    <3>2. \E t : Sums(t, w, g, n) /\ Dot(w, g) = t[n]
      BY <3>1, DotIs
    <3> QED BY <3>2 DEF n
  <2>8. /\ t[0] = 0 /\ t[1] = t[1 - 1] + w[1] * g[1] /\ t[2] = t[2 - 1] + w[2] * g[2]
    <3>1. 1 \in 1 .. 2 /\ 2 \in 1 .. 2
      OBVIOUS
    <3> QED BY <2>7, <3>1 DEF Sums
  <2>9. w[1] = j /\ w[2] = i
    BY <1>8 DEF w
  <2> HIDE DEF i, j
  <2>10. t[1] = j /\ t[2] = j + i * cols
    <3>1. j \in Int /\ i \in Int /\ j * 1 = j
      BY <1>7
    <3> QED BY <2>4, <2>8, <2>9, <3>1
  <2>11. i * cols \in Int /\ j \in Int
    <3>1. i \in Int /\ j \in Int /\ cols \in Int
      BY <1>1, <1>7
    <3> QED BY <3>1, MulInt
  <2> QED BY <2>6, <2>7, <2>10, <2>11
<1>10. TiledFrom(x, o) = i * cols + j
  <2> DEFINE a == i \div TileRows
             i0 == a * TileRows
             b == j \div TileCols
             j0 == b * TileCols
             tc == IF cols - j0 < TileCols THEN cols - j0 ELSE TileCols
             inTile == (i - i0) * tc + (j - j0)
  <2>1. TiledFrom(x, o) = (i0 + inTile \div tc) * cols + j0 + (inTile % tc)
    BY DEF TiledFrom, s, rows, cols
  <2> HIDE DEF i, j
  <2>2. i0 \in Nat /\ i0 <= i
    <3>0. i \in Nat
      BY <1>7
    <3>1. a \in Nat /\ i % TileRows \in 0 .. TileRows - 1 /\ i = i0 + (i % TileRows)
      BY <3>0, Division, Zenon
    <3>2. i0 \in Nat
      BY <3>1, MulNat
    <3> DEFINE m == i % TileRows
    <3>3. m \in 0 .. TileRows - 1 /\ i = i0 + m
      BY <3>1
    <3> HIDE DEF m, i0
    <3> QED BY <3>0, <3>2, <3>3
  <2>3. j0 \in Nat /\ j0 <= j /\ j - j0 < TileCols
    <3>0. j \in Nat
      BY <1>7
    <3>1. b \in Nat /\ j % TileCols \in 0 .. TileCols - 1 /\ j = j0 + (j % TileCols)
      BY <3>0, Division, Zenon
    <3>2. j0 \in Nat
      BY <3>1, MulNat
    <3> DEFINE m == j % TileCols
    <3>3. m \in 0 .. TileCols - 1 /\ j = j0 + m
      BY <3>1
    <3> HIDE DEF m, j0
    <3> QED BY <3>0, <3>2, <3>3
  <2> HIDE DEF a, i0, b, j0
  <2>4. tc \in Nat /\ i - i0 \in Nat /\ j - j0 \in 0 .. tc - 1
    BY <1>1, <1>7, <2>2, <2>3
  <2> HIDE DEF tc
  <2>5. inTile \div tc = i - i0 /\ inTile % tc = j - j0
    <3> DEFINE k == i - i0
               m == j - j0
    <3>1. k \in Nat /\ m \in 0 .. tc - 1
      BY <2>4
    <3> HIDE DEF k, m
    <3>2. (k * tc + m) \div tc = k /\ (k * tc + m) % tc = m
      BY <2>4, <3>1, RemainderOf
    <3> QED BY <3>2 DEF k, m
  <2> HIDE DEF inTile
  <2>6. i0 + (i - i0) = i /\ i * cols \in Int
    <3>1. i \in Int /\ cols \in Int
      BY <1>1, <1>7
    <3> QED BY <2>2, <3>1, MulInt
  <2>7. (i0 + inTile \div tc) * cols = i * cols
    BY <2>5, <2>6
  <2> DEFINE z == i * cols
  <2>8. z \in Int /\ TiledFrom(x, o) = z + j0 + (j - j0)
    BY <2>1, <2>5, <2>6, <2>7
  <2> HIDE DEF z
  <2>9. TiledFrom(x, o) = z + j
    BY <1>7, <2>3, <2>8
  <2> QED BY <2>9 DEF z
<1> QED BY <1>9, <1>10 DEF p

LEMMA TransposeRuns ==
  ASSUME TileRows \in Nat, TileRows >= 1, TileCols \in Nat, TileCols >= 1,
         NEW j, Transposes(j)
  PROVE  ResultsMean(j) \/ ThreadsMean(j)
<1> DEFINE x == j.x[1]
           s == x.shape
           perm == j.perm
           out == Permuted(s, perm)
           data == [o \in 0 .. Product(out) - 1 |-> x.data[TransposedFrom(x, perm, o)]]
           old(c) == [d \in DOMAIN perm |-> c[CHOOSE e \in DOMAIN perm : perm[e] = d]]
<1>1. j.op = "Transpose" /\ Operand(x) /\ Reorders(perm, Rank(x))
  BY DEF Transposes
<1>2. /\ Rank(x) \in Nat /\ Rank(x) = Len(s) /\ s \in Seq(Nat) /\ Valid(x)
      /\ x.data \in [0 .. Product(s) - 1 -> Int]
  BY <1>1, OperandIs
<1>3. out \in Seq(Nat) /\ Len(perm) = Rank(x)
  <2>1. out \in Seq(Nat)
    BY <1>1, <1>2, PermutedIs
  <2>2. Lists(perm, Rank(x))
    <3> DEFINE n == Rank(x)
    <3>1. perm \in [1 .. n -> 1 .. n]
      BY <1>1 DEF Reorders
    <3> HIDE DEF n, perm
    <3> QED BY <3>1 DEF Lists, n
  <2>3. Len(perm) = Rank(x)
    BY <1>2, <2>2, ListIs
  <2> QED BY <2>1, <2>3
<1>4. \A o \in 0 .. Product(out) - 1 :
        /\ TransposedFrom(x, perm, o) \in 0 .. Product(s) - 1
        /\ Place(s, old(CoordAt(out, o))) = TransposedFrom(x, perm, o)
  BY <1>1, TransposedReads
<1>5. OperatorMeaning(j) = <<New(x.dtype, out, data)>>
  <2>1. OperatorMeaning(j) = <<New(x.dtype, out, [o \in 0 .. Product(out) - 1 |-> x.data[Place(s, old(CoordAt(out, o)))]])>>
    BY <1>1 DEF OperatorMeaning, MeantTranspose, Make, At, Permuted
  <2>2. [o \in 0 .. Product(out) - 1 |-> x.data[Place(s, old(CoordAt(out, o)))]] = data
    <3> HIDE DEF out, old, s, x, perm
    <3> QED BY <1>4
  <2> QED BY <2>1, <2>2
<1>6. OperatorPlan(j) = TransposePlan(j)
  BY <1>1 DEF OperatorPlan
<1>7. CASE OnDevice(j, 1) /\ ElemSize(x.dtype) = 4
  <2>1. Rank(x) <= MaxRank
    BY <1>7 DEF Transposes
  <2>2. OperatorPlan(j) = One(x.dtype, out)
    <3>1. ~(Rank(x) > MaxRank) \/ Rank(x) > MaxRank
      OBVIOUS
    <3> QED BY <1>3, <1>6, <1>7, <2>1, <3>1 DEF TransposePlan
  <2>3. ASSUME NEW m, NEW e \in 0 .. Product(out) - 1
        PROVE  OperatorStored(j, m, 1, e) = <<1, e, data[e]>>
    <3>1. OperatorStored(j, m, 1, e) = <<1, e, TransposeThread(j, e)>>
      BY <1>1 DEF OperatorStored
    <3>2. TransposeThread(j, e) = x.data[TransposedFrom(x, perm, e)]
      <4> DEFINE from == TransposedFrom(x, perm, e)
      <4>1. from \in DOMAIN x.data /\ TransposeThread(j, e) = Load(x.data, from)
        BY <1>2, <1>4 DEF TransposeThread
      <4> HIDE DEF from
      <4> QED BY <4>1 DEF Load, from
    <3> HIDE DEF out
    <3> QED BY <3>1, <3>2
  <2>4. data = [i \in 0 .. Product(out) - 1 |-> data[i]]
    OBVIOUS
  <2> HIDE DEF data, out
  <2> QED BY <1>3, <1>5, <2>2, <2>3, <2>4, ThreadsAre
<1>8. CASE ~(OnDevice(j, 1) /\ ElemSize(x.dtype) = 4)
  <2>1. OperatorPlan(j) = Host(<<HostTransposed(x, perm)>>)
    BY <1>3, <1>6, <1>8 DEF TransposePlan
  <2>2. HostTransposed(x, perm) = New(x.dtype, out, data)
    <3>1. CASE perm = <<2, 1>>
      <4>1. HostTransposed(x, perm) = New(x.dtype, out, [o \in 0 .. Product(out) - 1 |-> x.data[TiledFrom(x, o)]])
        BY <3>1 DEF HostTransposed, Moved
      <4>2. Rank(x) = 2
        BY <1>3, <3>1
      <4>3. \A o \in 0 .. Product(out) - 1 : TiledFrom(x, o) = TransposedFrom(x, perm, o)
        BY <1>1, <3>1, <4>2, TiledReads
      <4> HIDE DEF out, x, perm
      <4> QED BY <4>1, <4>3
    <3>2. CASE perm # <<2, 1>>
      BY <3>2 DEF HostTransposed, Moved
    <3> QED BY <3>1, <3>2
  <2> QED BY <1>5, <2>1, <2>2 DEF ResultsMean
<1> QED BY <1>7, <1>8

----------------------------------------------------------------------------
(* The operators together.                                                 *)

\* A job is one of the operators above, with operands of any shape.
Proved(j) ==
  \/ Pads(j) \/ Tiles(j) \/ Casts(j) \/ Reshapes(j) \/ Fills(j) \/ Maps(j) \/ Normalizes(j)
  \/ Selects(j) \/ Expands(j) \/ Combines(j) \/ Compares(j) \/ Gathers(j) \/ Reduces(j) \/ Picks(j)
  \/ Splits(j) \/ Excerpts(j) \/ Transposes(j)

\* What the device and the build give: workgroups of some threads, launches of some
\* workgroups, axes that a kernel has room for, tiles of some rows and columns.
Limits ==
  /\ Local \in Nat /\ Local >= 1 /\ MaxGroups \in Nat /\ MaxGroups >= 1 /\ MaxRank \in Nat
  /\ TileRows \in Nat /\ TileRows >= 1 /\ TileCols \in Nat /\ TileCols >= 1

LEMMA ProvedRuns ==
  ASSUME Limits, NEW j, Proved(j)
  PROVE  ResultsMean(j) \/ ThreadsMean(j) \/ LaunchesMean(j)
<1>0. /\ MaxRank \in Nat
      /\ TileRows \in Nat /\ TileRows >= 1 /\ TileCols \in Nat /\ TileCols >= 1
  BY DEF Limits
<1>1. CASE Pads(j) \/ Tiles(j) \/ Casts(j) \/ Reshapes(j) \/ Fills(j)
  BY <1>0, <1>1, PadRuns, TileRuns, CastRuns, ReshapeRuns, FillRuns, Zenon
<1>2. CASE Maps(j) \/ Normalizes(j) \/ Selects(j) \/ Expands(j)
  BY <1>0, <1>2, MapRuns, NormalizeRuns, SelectRuns, ExpandRuns, Zenon
<1>3. CASE Combines(j) \/ Compares(j)
  BY <1>0, <1>3, CombineRuns, CompareRuns, Zenon
<1>4. CASE Gathers(j) \/ Reduces(j) \/ Picks(j) \/ Splits(j)
  BY <1>0, <1>4, GatherRuns, ReduceRuns, PickRuns, SplitRuns, Zenon
<1>5. CASE Excerpts(j)
  BY <1>0, <1>5, SliceRuns, Zenon
<1>6. CASE Transposes(j)
  BY <1>0, <1>6, TransposeRuns, Zenon
<1> QED BY <1>1, <1>2, <1>3, <1>4, <1>5, <1>6, Zenon DEF Proved

\* Such a job is computed by the host, or by threads that store in different places.
OperatorsAlone == \A j \in Jobs : HostMeans(j) \/ (DeviceMeans(j) /\ Apart(j))

LEMMA OperatorsRunAlone ==
  ASSUME Limits,
         \A j \in Jobs : RunsOperator(j) /\ Proved(j)
  PROVE  OperatorsAlone
<1> SUFFICES ASSUME NEW j \in Jobs
             PROVE  HostMeans(j) \/ (DeviceMeans(j) /\ Apart(j))
  BY DEF OperatorsAlone
<1>0. Local \in Nat /\ Local >= 1 /\ MaxGroups \in Nat /\ MaxGroups >= 1
  BY DEF Limits
<1>1. RunsOperator(j) /\ Proved(j)
  OBVIOUS
<1>2. CASE ResultsMean(j)
  BY <1>0, <1>1, <1>2, HostOne, Zenon
<1>3. CASE ThreadsMean(j)
  BY <1>0, <1>1, <1>3, DeviceOne, Zenon
<1>4. CASE LaunchesMean(j)
  BY <1>0, <1>1, <1>4, DeviceMany, Zenon
<1> QED BY <1>1, <1>2, <1>3, <1>4, ProvedRuns

\* An operator that the host computes is not launched.
LEMMA NotBoth ==
  ASSUME NEW j, HostMeans(j), DeviceMeans(j)
  PROVE  FALSE
<1>1. Plan(j).path = "device"
  BY DevicePlanIs
<1>2. Plan(j).path = "host"
  BY DEF HostMeans, Host
<1> QED BY <1>1, <1>2

\* Whatever the shapes and the elements of its operands are, and whatever the order of the
\* workgroups is, a run of one of these operators returns what ONNX means by it: the host's
\* loops of host.rs, shape.rs and interp.rs, and the kernels with a thread for every element
\* that interp.rs launches in one grid or in grid-stride steps.
THEOREM OperatorsCompute ==
  ASSUME Limits,
         \A j \in Jobs : RunsOperator(j) /\ Proved(j)
  PROVE  Spec => []Computes
<1>0. Local \in Nat /\ Local >= 1 /\ MaxGroups \in Nat /\ MaxGroups >= 1
  BY DEF Limits
<1>1. Alone
  BY OperatorsRunAlone, Zenon DEF OperatorsAlone, Alone
<1> QED BY <1>0, <1>1, RunComputes

\* The threads of these operators store in the outputs only, every element of them, and load
\* inside their operands only: no element that is meant is the one an outside load gives.
THEOREM OperatorsInBounds ==
  ASSUME Limits,
         \A j \in Jobs : RunsOperator(j) /\ Proved(j) /\ MeansValues(j)
  PROVE  Spec => []InBounds
<1>0. Local \in Nat /\ Local >= 1 /\ MaxGroups \in Nat /\ MaxGroups >= 1
  BY DEF Limits
<1>1. Alone
  BY OperatorsRunAlone, Zenon DEF OperatorsAlone, Alone
<1>2. \A j \in Jobs : DeviceMeans(j) => MeansValues(j)
  OBVIOUS
<1> QED BY <1>0, <1>1, <1>2, RunInBounds

\* No two threads of a launch of these operators store the same element, and none stores an
\* element that another one stored: the order of the workgroups cannot matter.
THEOREM OperatorsStoreOnce ==
  ASSUME Limits,
         \A j \in Jobs : RunsOperator(j) /\ Proved(j)
  PROVE  Spec => StoredOnce
<1>0. Local \in Nat /\ Local >= 1 /\ MaxGroups \in Nat /\ MaxGroups >= 1
  BY DEF Limits
<1>1. OperatorsAlone
  BY OperatorsRunAlone
<1>2. Alone
  BY <1>1, Zenon DEF OperatorsAlone, Alone
<1>3. \A j \in Jobs : DeviceMeans(j) => Apart(j)
  BY <1>1, NotBoth, Zenon DEF OperatorsAlone
<1> QED BY <1>0, <1>2, <1>3, RunStoredOnce

==============================================================================
