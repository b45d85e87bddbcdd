----------------------------- MODULE NatLemmas -----------------------------
(***************************************************************************)
(* Induction over the naturals for the proofs of this project, stated with *)
(* sets (the library states it with operators), what it says of the        *)
(* functions defined by iteration, and quotients and remainders.           *)
(***************************************************************************)
EXTENDS Integers, WellFoundedInduction, TLAPS

\* A set of naturals with 0 and every successor of its elements is all of Nat.
LEMMA SetInduction ==
  ASSUME NEW T, 0 \in T, \A n \in Nat : n \in T => n + 1 \in T
  PROVE  \A n \in Nat : n \in T
<1> DEFINE Bad == {n \in Nat : n \notin T}
           Less == {ss \in Nat \X Nat : ss[1] < ss[2]}
<1> SUFFICES ASSUME Bad # {} PROVE FALSE
  OBVIOUS
<1>1. PICK x \in Bad : \A y \in Bad : ~(<<y, x>> \in Less)
  <2>1. IsWellFoundedOn(Less, Nat)
    BY NatLessThanWellFounded DEF OpToRel
  <2>2. Bad \subseteq Nat
    OBVIOUS
  <2> QED
    BY <2>1, <2>2, WFMin
<1>2. x # 0
  OBVIOUS
<1>3. x - 1 \in Nat /\ x = (x - 1) + 1
  BY <1>2
<1>4. x - 1 \in Bad
  BY <1>3
<1>5. <<x - 1, x>> \in Less
  BY <1>3
<1> QED
  BY <1>1, <1>4, <1>5

\* The table of the first n + 1 iterates of f on S.
Iterates(h, n, f, S) ==
  /\ h \in [0 .. n -> [S -> S]]
  /\ h[0] = [s \in S |-> s]
  /\ \A i \in 0 .. n - 1 : h[i + 1] = [s \in S |-> f[h[i][s]]]

LEMMA IteratesExist ==
  ASSUME NEW S, NEW f \in [S -> S]
  PROVE  \A n \in Nat : \E h \in [0 .. n -> [S -> S]] : Iterates(h, n, f, S)
<1> DEFINE T == {n \in Nat : \E h \in [0 .. n -> [S -> S]] : Iterates(h, n, f, S)}
<1>1. 0 \in T
  <2> DEFINE h == [i \in 0 .. 0 |-> [s \in S |-> s]]
  <2>1. h \in [0 .. 0 -> [S -> S]]
    OBVIOUS
  <2>2. Iterates(h, 0, f, S)
    BY <2>1 DEF Iterates
  <2> QED
    BY <2>1, <2>2
<1>2. ASSUME NEW n \in Nat, n \in T
      PROVE  n + 1 \in T
  <2>1. PICK h \in [0 .. n -> [S -> S]] : Iterates(h, n, f, S)
    BY <1>2
  <2> DEFINE next == [s \in S |-> f[h[n][s]]]
             k == [i \in 0 .. n + 1 |-> IF i = n + 1 THEN next ELSE h[i]]
  <2>2. next \in [S -> S]
    OBVIOUS
  <2>3. k \in [0 .. n + 1 -> [S -> S]]
    <3>1. \A i \in 0 .. n + 1 : i # n + 1 => i \in 0 .. n
      OBVIOUS
    <3> HIDE DEF next
    <3> QED
      BY <2>2, <3>1
  <2>4. Iterates(k, n + 1, f, S)
    <3>1. k[0] = h[0]
      OBVIOUS
    <3>2. ASSUME NEW i \in 0 .. n
          PROVE  k[i + 1] = [s \in S |-> f[k[i][s]]]
      <4>1. k[i] = h[i]
        OBVIOUS
      <4>2. CASE i = n
        <5>1. k[i + 1] = next
          BY <4>2
        <5> QED
          BY <5>1, <4>1, <4>2
      <4>3. CASE i # n
        <5>1. i \in 0 .. n - 1 /\ k[i + 1] = h[i + 1]
          BY <4>3
        <5>2. h[i + 1] = [s \in S |-> f[h[i][s]]]
          BY <5>1, <2>1 DEF Iterates
        <5> HIDE DEF k
        <5> QED
          BY <5>1, <5>2, <4>1
      <4> QED
        BY <4>2, <4>3
    <3>3. h[0] = [s \in S |-> s]
      BY <2>1 DEF Iterates
    <3> HIDE DEF k
    <3>4. \A i \in 0 .. n : k[i + 1] = [s \in S |-> f[k[i][s]]]
      BY <3>2
    <3>5. (n + 1) - 1 = n
      OBVIOUS
    <3>6. \A i \in 0 .. (n + 1) - 1 : k[i + 1] = [s \in S |-> f[k[i][s]]]
      BY <3>4, <3>5
    <3> QED
      BY <2>3, <3>1, <3>3, <3>6 DEF Iterates
  <2> QED
    BY <2>3, <2>4
<1>3. \A n \in Nat : n \in T
  <2> HIDE DEF T
  <2> QED
    BY <1>1, <1>2, SetInduction
<1> QED
  BY <1>3

LEMMA IteratesAgree ==
  ASSUME NEW S, NEW f \in [S -> S],
         NEW m \in Nat, NEW n \in Nat, NEW h, NEW k,
         Iterates(h, m, f, S), Iterates(k, n, f, S)
  PROVE  \A i \in Nat : i <= m /\ i <= n => h[i] = k[i]
<1> DEFINE T == {i \in Nat : i <= m /\ i <= n => h[i] = k[i]}
<1>1. 0 \in T
  BY DEF Iterates
<1>2. ASSUME NEW i \in Nat, i \in T
      PROVE  i + 1 \in T
  <2> SUFFICES ASSUME i + 1 <= m, i + 1 <= n
               PROVE  h[i + 1] = k[i + 1]
    OBVIOUS
  <2>1. i \in 0 .. m - 1 /\ i \in 0 .. n - 1
    OBVIOUS
  <2>2. h[i] = k[i]
    BY <1>2, <2>1
  <2>3. h[i + 1] = [s \in S |-> f[h[i][s]]]
    BY <2>1 DEF Iterates
  <2>4. k[i + 1] = [s \in S |-> f[k[i][s]]]
    BY <2>1 DEF Iterates
  <2> QED
    BY <2>2, <2>3, <2>4
<1>3. \A i \in Nat : i \in T
  <2> HIDE DEF T
  <2> QED
    BY <1>1, <1>2, SetInduction
<1> QED
  BY <1>3

\* The recursive definition of the iterates of a function has a solution,
\* which maps S to S.
THEOREM IterationDefined ==
  ASSUME NEW S, NEW f \in [S -> S]
  PROVE  \E g \in [Nat -> [S -> S]] :
           g = [n \in Nat |-> IF n = 0 THEN [s \in S |-> s]
                              ELSE [s \in S |-> f[g[n - 1][s]]]]
<1> DEFINE Table(n) == CHOOSE h \in [0 .. n -> [S -> S]] : Iterates(h, n, f, S)
           g == [n \in Nat |-> Table(n)[n]]
<1>1. \A n \in Nat : Table(n) \in [0 .. n -> [S -> S]] /\ Iterates(Table(n), n, f, S)
  BY IteratesExist
<1> HIDE DEF Table
<1>2. \A n \in Nat : g[n] \in [S -> S]
  BY <1>1
<1>3. g \in [Nat -> [S -> S]]
  BY <1>2
<1>4. g[0] = [s \in S |-> s]
  BY <1>1 DEF Iterates
<1>5. ASSUME NEW n \in Nat, n # 0
      PROVE  g[n] = [s \in S |-> f[g[n - 1][s]]]
  <2>1. n - 1 \in Nat /\ n - 1 \in 0 .. n - 1 /\ n - 1 <= n /\ (n - 1) + 1 = n
    BY <1>5
  <2>2. Table(n)[n] = [s \in S |-> f[Table(n)[n - 1][s]]]
    BY <1>1, <2>1 DEF Iterates
  <2>3. Table(n)[n - 1] = Table(n - 1)[n - 1]
    <3>1. Iterates(Table(n), n, f, S) /\ Iterates(Table(n - 1), n - 1, f, S)
      BY <1>1, <2>1
    <3>2. \A i \in Nat : i <= n /\ i <= n - 1 => Table(n)[i] = Table(n - 1)[i]
      BY <2>1, <3>1, IteratesAgree
    <3> QED
      BY <2>1, <3>2
  <2> QED
    BY <2>1, <2>2, <2>3
<1>6. g = [n \in Nat |-> IF n = 0 THEN [s \in S |-> s] ELSE [s \in S |-> f[g[n - 1][s]]]]
  <2> DEFINE r == [n \in Nat |-> IF n = 0 THEN [s \in S |-> s] ELSE [s \in S |-> f[g[n - 1][s]]]]
  <2>1. \A n \in Nat : g[n] = r[n]
    <3> HIDE DEF g
    <3> QED
      BY <1>4, <1>5
  <2>2. DOMAIN g = Nat /\ DOMAIN r = Nat
    OBVIOUS
  <2>3. g = [n \in Nat |-> g[n]] /\ r = [n \in Nat |-> r[n]]
    OBVIOUS
  <2> HIDE DEF g, r
  <2>4. g = r
    BY <2>1, <2>3
  <2> QED
    BY <2>4 DEF r
<1> HIDE DEF g
<1> QED
  BY <1>3, <1>6

---------------------------------------------------------------------------
(* Division of integers by a symbolic divisor.                             *)

\* Quotient and remainder of an integer.
LEMMA DivModDef ==
  ASSUME NEW W \in Nat \ {0}, NEW x \in Int
  PROVE  /\ x \div W \in Int /\ x % W \in 0 .. W - 1
         /\ x = (W * (x \div W)) + (x % W)
OBVIOUS

\* A larger factor makes a product larger by a term at least.
LEMMA ProductOrder ==
  ASSUME NEW W \in Nat \ {0}, NEW a \in Int, NEW b \in Int, a + 1 <= b
  PROVE  W * a + W <= W * b
<1>1. W * (b - (a + 1)) >= 0
  OBVIOUS
<1> QED
  BY <1>1

\* They are the only ones.
LEMMA DivUnique ==
  ASSUME NEW W \in Nat \ {0}, NEW q \in Int, NEW r \in 0 .. W - 1
  PROVE  (W * q + r) \div W = q /\ (W * q + r) % W = r
<1> DEFINE x == W * q + r
           p == x \div W
           s == x % W
<1>1. x \in Int /\ p \in Int /\ s \in 0 .. W - 1 /\ x = W * p + s
  BY DivModDef
<1>2. W * p + s = W * q + r
  BY <1>1
<1> HIDE DEF p, s
<1>3. ~(p + 1 <= q)
  BY <1>1, <1>2, ProductOrder
<1>4. ~(q + 1 <= p)
  BY <1>1, <1>2, ProductOrder
<1>5. p = q
  BY <1>1, <1>3, <1>4
<1>6. s = r
  BY <1>1, <1>2, <1>5
<1> QED
  BY <1>5, <1>6 DEF p, s

\* Whole turns do not change a remainder.
LEMMA ModTurns ==
  ASSUME NEW W \in Nat \ {0}, NEW x \in Int, NEW n \in Int
  PROVE  (x + W * n) % W = x % W /\ (x + W * n) \div W = (x \div W) + n
<1>1. PICK q \in Int, r \in 0 .. W - 1 : x = W * q + r /\ q = x \div W /\ r = x % W
  BY DivModDef
<1>2. x + W * n = W * (q + n) + r /\ q + n \in Int
  <2>1. W * (q + n) = W * q + W * n
    OBVIOUS
  <2>2. W * q \in Int /\ W * n \in Int
    OBVIOUS
  <2> QED
    BY <1>1, <2>1, <2>2
<1>3. (W * (q + n) + r) % W = r /\ (W * (q + n) + r) \div W = q + n
  BY <1>2, DivUnique
<1> QED
  BY <1>1, <1>2, <1>3

\* A term of a sum may be replaced by its remainder.
LEMMA ModPlus ==
  ASSUME NEW W \in Nat \ {0}, NEW x \in Int, NEW y \in Int
  PROVE  ((x % W) + y) % W = (x + y) % W
<1>1. PICK q \in Int, r \in 0 .. W - 1 : x = W * q + r /\ r = x % W
  BY DivModDef
<1>2. x + y = (r + y) + W * q /\ r + y \in Int
  BY <1>1
<1>3. ((r + y) + W * q) % W = (r + y) % W
  BY <1>2, ModTurns
<1> QED
  BY <1>1, <1>2, <1>3
=============================================================================
