-------------------------- MODULE WireFormats_proofs --------------------------
(***************************************************************************)
(* What is put into bytes and words comes out again, for every value of    *)
(* the constants: the SOME/IP codec, the AUTOSAR signals and channels, the *)
(* flight-control bridge, the LIN identifier and checksum, and the update  *)
(* package under every signature scheme that keeps its promise.            *)
(*                                                                         *)
(* Powers of two and checksums are recursive functions, so their facts     *)
(* need induction.  The induction principle and the existence of functions *)
(* defined by recursion come first, proved from the well-foundedness of    *)
(* the natural numbers.                                                    *)
(***************************************************************************)
EXTENDS LinCluster, SomeIp, Autosar, FlightControl, UpdatePackage,
        WellFoundedInduction, SequenceTheorems, TLAPS

-----------------------------------------------------------------------------
(* Induction and recursion                                                 *)

\* Every set of naturals that has a member has a smallest one.
LEMMA SmallestMember ==
    ASSUME NEW T \in SUBSET Nat, T # {}
    PROVE  \E m \in T : \A k \in T : m <= k
  <1>1. IsWellFoundedOn(OpToRel(<, Nat), Nat)
    BY NatLessThanWellFounded
  <1>2. PICK m \in T : \A k \in T : ~(<<k, m>> \in OpToRel(<, Nat))
    BY <1>1, WFMin
  <1>3. \A k \in T : ~(k < m)
    BY <1>2 DEF OpToRel
  <1> QED
    BY <1>3

\* Induction, on the set of the numbers a fact holds of.
LEMMA NatInduct ==
    ASSUME NEW S, 0 \in S, \A n \in Nat : n \in S => n + 1 \in S
    PROVE  \A n \in Nat : n \in S
  <1>1. SUFFICES ASSUME Nat \ S # {} PROVE FALSE
    OBVIOUS
  <1>2. PICK m \in Nat \ S : \A k \in Nat \ S : m <= k
    BY <1>1, SmallestMember
  <1>3. m # 0 /\ m - 1 \in Nat /\ (m - 1) + 1 = m
    OBVIOUS
  <1>4. m - 1 \in S
    BY <1>2, <1>3
  <1> QED
    BY <1>2, <1>3, <1>4

\* g starts at a and goes on by Step up to n.
Grows(A, a, Step, n, g) ==
    /\ g \in [0 .. n -> A] /\ g[0] = a
    /\ \A k \in 0 .. n - 1 : g[k + 1] = Step[k][g[k]]

\* f starts at a and goes on by Step for ever.
Recurs(A, a, Step, f) ==
    /\ f \in [Nat -> A] /\ f[0] = a
    /\ \A n \in Nat : f[n + 1] = Step[n][f[n]]

\* Up to every bound there is a function defined by recursion.
LEMMA FiniteRecursion ==
    ASSUME NEW A, NEW a \in A, NEW Step \in [Nat -> [A -> A]]
    PROVE  \A n \in Nat : \E g : Grows(A, a, Step, n, g)
  <1> DEFINE S == {n \in Nat : \E g : Grows(A, a, Step, n, g)}
  <1>1. 0 \in S
    <2> DEFINE g == [k \in 0 .. 0 |-> a]
    <2>1. g \in [0 .. 0 -> A] /\ g[0] = a /\ 0 .. 0 - 1 = {}
      OBVIOUS
    <2>2. Grows(A, a, Step, 0, g)
      BY <2>1 DEF Grows
    <2> QED
      BY <2>2
  <1>2. ASSUME NEW n \in Nat, n \in S PROVE n + 1 \in S
    <2>1. PICK g : Grows(A, a, Step, n, g)
      BY <1>2
    <2> DEFINE h == [k \in 0 .. n + 1 |->
                        IF k = n + 1 THEN Step[n][g[n]] ELSE g[k]]
    <2>2. Step[n][g[n]] \in A
      BY <2>1 DEF Grows
    <2>3. h \in [0 .. n + 1 -> A] /\ h[0] = a
      BY <2>1, <2>2 DEF Grows
    <2>4. ASSUME NEW k \in 0 .. n PROVE h[k + 1] = Step[k][h[k]]
      <3>1. CASE k = n
        BY <3>1
      <3>2. CASE k # n
        <4>1. k \in 0 .. n - 1 /\ k + 1 \in 0 .. n + 1 /\ k + 1 # n + 1
          BY <3>2
        <4>2. h[k + 1] = g[k + 1] /\ h[k] = g[k]
          BY <4>1
        <4> QED
          BY <2>1, <4>1, <4>2 DEF Grows
      <3> QED
        BY <3>1, <3>2
    <2> HIDE DEF h
    <2>5. Grows(A, a, Step, n + 1, h)
      BY <2>3, <2>4 DEF Grows
    <2> QED
      BY <2>5
  <1> HIDE DEF S
  <1>3. \A n \in Nat : n \in S
    BY <1>1, <1>2, NatInduct
  <1> QED
    BY <1>3 DEF S

\* Two such functions agree as far as both go.
LEMMA RecursionAgrees ==
    ASSUME NEW A, NEW a \in A, NEW Step \in [Nat -> [A -> A]],
           NEW m \in Nat, NEW n \in Nat, m <= n, NEW g, NEW h,
           Grows(A, a, Step, m, g), Grows(A, a, Step, n, h)
    PROVE  \A k \in 0 .. m : g[k] = h[k]
  <1> DEFINE S == {k \in Nat : k <= m => g[k] = h[k]}
  <1>1. 0 \in S
    BY DEF Grows
  <1>2. ASSUME NEW k \in Nat, k \in S PROVE k + 1 \in S
    <2>1. SUFFICES ASSUME k + 1 <= m PROVE g[k + 1] = h[k + 1]
      OBVIOUS
    <2>2. k \in 0 .. m - 1 /\ k \in 0 .. n - 1
      BY <2>1
    <2>3. g[k] = h[k]
      BY <1>2, <2>1
    <2> QED
      BY <2>2, <2>3 DEF Grows
  <1> HIDE DEF S
  <1>3. \A k \in Nat : k \in S
    BY <1>1, <1>2, NatInduct
  <1> QED
    BY <1>3 DEF S

\* There is such a function on all naturals.
LEMMA NatRecursion ==
    ASSUME NEW A, NEW a \in A, NEW Step \in [Nat -> [A -> A]]
    PROVE  \E f : Recurs(A, a, Step, f)
  <1> DEFINE part[n \in Nat] == CHOOSE g : Grows(A, a, Step, n, g)
  <1>1. ASSUME NEW n \in Nat PROVE Grows(A, a, Step, n, part[n])
    <2>1. \E g : Grows(A, a, Step, n, g)
      BY FiniteRecursion
    <2>2. Grows(A, a, Step, n, CHOOSE h : Grows(A, a, Step, n, h))
      BY <2>1
    <2> QED
      BY <2>2
  <1> HIDE DEF part
  <1> DEFINE f == [n \in Nat |-> part[n][n]]
  <1>2. f \in [Nat -> A] /\ f[0] = a
    BY <1>1 DEF Grows
  <1>3. ASSUME NEW n \in Nat PROVE f[n + 1] = Step[n][f[n]]
    <2>1. Grows(A, a, Step, n, part[n]) /\ Grows(A, a, Step, n + 1, part[n + 1])
      BY <1>1
    <2>2. n <= n + 1 /\ n \in 0 .. n /\ n \in 0 .. (n + 1) - 1
      OBVIOUS
    <2>3. part[n][n] = part[n + 1][n]
      BY <2>1, <2>2, RecursionAgrees
    <2>4. part[n + 1][n + 1] = Step[n][part[n + 1][n]]
      BY <2>1, <2>2 DEF Grows
    <2> QED
      BY <2>3, <2>4
  <1> HIDE DEF f
  <1> QED
    BY <1>2, <1>3 DEF Recurs

-----------------------------------------------------------------------------
(* Powers of two                                                           *)

\* pow2 is what its recursive definition says.
LEMMA Pow2Recursion ==
    /\ pow2 \in [Nat -> Nat] /\ pow2[0] = 1
    /\ \A n \in Nat : pow2[n + 1] = 2 * pow2[n]
  <1> DEFINE Step == [n \in Nat |-> [x \in Nat |-> 2 * x]]
             body(g) == [n \in Nat |-> IF n = 0 THEN 1 ELSE 2 * g[n - 1]]
  <1>1. PICK f : Recurs(Nat, 1, Step, f)
    <2>1. 1 \in Nat /\ Step \in [Nat -> [Nat -> Nat]]
      OBVIOUS
    <2> HIDE DEF Step
    <2> QED
      BY <2>1, NatRecursion
  <1>2. f = body(f)
    <2>1. ASSUME NEW n \in Nat PROVE f[n] = body(f)[n]
      <3>1. CASE n = 0
        BY <1>1, <3>1 DEF Recurs
      <3>2. CASE n # 0
        <4>1. n - 1 \in Nat /\ (n - 1) + 1 = n
          BY <3>2
        <4> QED
          BY <1>1, <3>2, <4>1 DEF Recurs
      <3> QED
        BY <3>1, <3>2
    <2> QED
      BY <1>1, <2>1 DEF Recurs
  <1>3. pow2 = body(pow2)
    BY <1>2 DEF pow2
  <1> HIDE DEF body
  <1>4. pow2[0] = 1 /\ \A n \in Nat : pow2[n + 1] = 2 * pow2[n]
    BY <1>3 DEF body
  <1>5. \A n \in Nat : pow2[n] \in Nat
    <2> DEFINE S == {n \in Nat : pow2[n] \in Nat}
    <2>1. 0 \in S /\ \A n \in Nat : n \in S => n + 1 \in S
      BY <1>4
    <2> HIDE DEF S
    <2>2. \A n \in Nat : n \in S
      BY <2>1, NatInduct
    <2> QED
      BY <2>2 DEF S
  <1> QED
    BY <1>3, <1>4, <1>5 DEF body

\* Powers of two are positive.
LEMMA Pow2Positive == \A n \in Nat : pow2[n] \in Nat \ {0}
  <1> DEFINE S == {n \in Nat : pow2[n] # 0}
  <1>1. 0 \in S /\ \A n \in Nat : n \in S => n + 1 \in S
    BY Pow2Recursion
  <1> HIDE DEF S
  <1>2. \A n \in Nat : n \in S
    BY <1>1, NatInduct
  <1> QED
    BY <1>2, Pow2Recursion DEF S

\* Powers of two turn sums into products.
LEMMA Pow2Sum == \A m, n \in Nat : pow2[m + n] = pow2[m] * pow2[n]
  <1> SUFFICES ASSUME NEW m \in Nat PROVE \A n \in Nat : pow2[m + n] = pow2[m] * pow2[n]
    OBVIOUS
  <1> DEFINE S == {n \in Nat : pow2[m + n] = pow2[m] * pow2[n]}
  <1>1. 0 \in S
    BY Pow2Recursion
  <1>2. ASSUME NEW n \in Nat, n \in S PROVE n + 1 \in S
    <2>1. pow2[m + (n + 1)] = 2 * pow2[m + n] /\ pow2[n + 1] = 2 * pow2[n]
      BY Pow2Recursion, (m + n) + 1 = m + (n + 1)
    <2>2. pow2[m] \in Nat /\ pow2[n] \in Nat /\ pow2[m + n] = pow2[m] * pow2[n]
      BY <1>2, Pow2Recursion
    <2> DEFINE x == pow2[m]
               y == pow2[n]
    <2>3. 2 * (x * y) = x * (2 * y)
      BY <2>2
    <2> QED
      BY <2>1, <2>2, <2>3
  <1> HIDE DEF S
  <1>3. \A n \in Nat : n \in S
    BY <1>1, <1>2, NatInduct
  <1> QED
    BY <1>3 DEF S

-----------------------------------------------------------------------------
(* Division                                                                *)

\* Quotient and remainder are determined by what they add up to.
LEMMA DivUnique ==
    ASSUME NEW q \in Nat, NEW d \in Nat \ {0}, NEW r \in Nat, r < d
    PROVE  (d * q + r) \div d = q /\ (d * q + r) % d = r
  OBVIOUS

\* Quotient and remainder of a natural number.
LEMMA DivMod ==
    ASSUME NEW x \in Nat, NEW d \in Nat \ {0}
    PROVE  /\ x \div d \in Nat /\ x % d \in Nat /\ x % d < d
           /\ x = d * (x \div d) + (x % d)
  OBVIOUS

\* Division in two steps.
LEMMA DivDiv ==
    ASSUME NEW x \in Nat, NEW c \in Nat \ {0}, NEW d \in Nat \ {0}
    PROVE  /\ (x \div c) \div d = x \div (c * d)
           /\ x % (c * d) = c * ((x \div c) % d) + (x % c)
  <1> DEFINE q  == x \div c
             r  == x % c
             q2 == q \div d
             r2 == q % d
  <1>1. q \in Nat /\ r \in Nat /\ r < c /\ x = c * q + r
    BY DivMod
  <1>2. q2 \in Nat /\ r2 \in Nat /\ r2 < d /\ q = d * q2 + r2
    BY <1>1, DivMod
  <1> HIDE DEF q, r, q2, r2
  <1>3. c * d \in Nat \ {0}
    OBVIOUS
  <1>4. x = (c * d) * q2 + (c * r2 + r)
    <2>1. c * (d * q2 + r2) = (c * d) * q2 + c * r2
      BY <1>2
    <2>2. c * r2 \in Nat /\ (c * d) * q2 \in Nat
      BY <1>2, <1>3
    <2> QED
      BY <1>1, <1>2, <2>1, <2>2
  <1>5. c * r2 + r \in Nat /\ c * r2 + r < c * d
    <2>1. c * (r2 + 1) <= c * d
      BY <1>2
    <2>2. c * (r2 + 1) = c * r2 + c /\ c * r2 \in Nat
      BY <1>2
    <2> QED
      BY <1>1, <1>3, <2>1, <2>2
  <1>6. x \div (c * d) = q2 /\ x % (c * d) = c * r2 + r
    BY <1>2, <1>3, <1>4, <1>5, DivUnique
  <1> QED
    BY <1>6 DEF q, r, q2, r2

-----------------------------------------------------------------------------
(* Bit fields                                                              *)

\* A word in three parts: above a field of range L at P, the field, below it.
Above(word, P, L) == word \div (P * L)
Within(word, P, L) == (word \div P) % L
Below(word, P) == word % P
Join(P, L, hi, v, lo) == P * (L * hi + v) + lo

\* The value u at P is replaced by v.
Move(word, P, u, v) == (word - u * P) + v * P

\* A word is made of what is above, within and below a field.
LEMMA SplitWord ==
    ASSUME NEW word \in Nat, NEW P \in Nat \ {0}, NEW L \in Nat \ {0}
    PROVE  /\ Above(word, P, L) \in Nat
           /\ Within(word, P, L) \in Nat /\ Within(word, P, L) < L
           /\ Below(word, P) \in Nat /\ Below(word, P) < P
           /\ word = Join(P, L, Above(word, P, L), Within(word, P, L), Below(word, P))
  <1> DEFINE q == word \div P
  <1>1. q \in Nat /\ word % P \in Nat /\ word % P < P /\ word = P * q + (word % P)
    BY DivMod
  <1>2. q \div L = word \div (P * L)
    BY DivDiv
  <1> HIDE DEF q
  <1>3. q \div L \in Nat /\ q % L \in Nat /\ q % L < L /\ q = L * (q \div L) + (q % L)
    BY <1>1, DivMod
  <1> QED
    BY <1>1, <1>2, <1>3 DEF q, Above, Within, Below, Join

\* A word put together from its parts has these parts.
LEMMA JoinWord ==
    ASSUME NEW P \in Nat \ {0}, NEW L \in Nat \ {0}, NEW hi \in Nat,
           NEW v \in Nat, NEW lo \in Nat, v < L, lo < P
    PROVE  /\ Join(P, L, hi, v, lo) \in Nat
           /\ Above(Join(P, L, hi, v, lo), P, L) = hi
           /\ Within(Join(P, L, hi, v, lo), P, L) = v
           /\ Below(Join(P, L, hi, v, lo), P) = lo
  <1> DEFINE q == L * hi + v
             w == P * q + lo
  <1>1. q \in Nat
    OBVIOUS
  <1>2. q \div L = hi /\ q % L = v
    BY DivUnique
  <1> HIDE DEF q
  <1>3. w \in Nat
    BY <1>1
  <1>4. w \div P = q /\ w % P = lo
    BY <1>1, DivUnique
  <1> HIDE DEF w
  <1>5. w \div (P * L) = (w \div P) \div L
    BY <1>3, DivDiv
  <1>6. w = Join(P, L, hi, v, lo)
    BY DEF q, w, Join
  <1> QED
    BY <1>2, <1>3, <1>4, <1>5, <1>6 DEF Above, Within, Below

\* Moving the field moves nothing else.
LEMMA JoinMove ==
    ASSUME NEW P \in Nat, NEW L \in Nat, NEW hi \in Nat, NEW v \in Nat,
           NEW u \in Nat, NEW lo \in Nat
    PROVE  Move(Join(P, L, hi, u, lo), P, u, v) = Join(P, L, hi, v, lo)
  <1> DEFINE y == L * hi
  <1>1. y \in Nat
    OBVIOUS
  <1> HIDE DEF y
  <1>2. P * (y + u) = P * y + P * u /\ P * (y + v) = P * y + P * v
        /\ u * P = P * u /\ v * P = P * v
    BY <1>1
  <1>3. P * y \in Nat /\ P * u \in Nat /\ P * v \in Nat
    BY <1>1
  <1>4. ((P * (y + u) + lo) - u * P) + v * P = P * (y + v) + lo
    BY <1>2, <1>3
  <1> QED
    BY <1>4 DEF y, Join, Move

\* The field of l bits at bit k of a word, and the word with v put there.
Field(word, k, l) == Within(word, pow2[k], pow2[l])
Put(word, k, l, v) == Move(word, pow2[k], Field(word, k, l), v)

\* What is above, in and below a field after a value was put into it.
LEMMA PutParts ==
    ASSUME NEW word \in Nat, NEW k \in Nat, NEW l \in Nat,
           NEW v \in Nat, v < pow2[l]
    PROVE  /\ Put(word, k, l, v) \in Nat
           /\ Field(Put(word, k, l, v), k, l) = v
           /\ Above(Put(word, k, l, v), pow2[k], pow2[l])
                = Above(word, pow2[k], pow2[l])
           /\ Below(Put(word, k, l, v), pow2[k]) = Below(word, pow2[k])
  <1> DEFINE P  == pow2[k]
             L  == pow2[l]
             hi == Above(word, P, L)
             f  == Within(word, P, L)
             lo == Below(word, P)
             w  == Move(word, P, f, v)
  <1>1. P \in Nat \ {0} /\ L \in Nat \ {0}
    BY Pow2Positive
  <1>2. w = Put(word, k, l, v) /\ Field(w, k, l) = Within(w, P, L) /\ v < L
    BY DEF Put, Field
  <1> HIDE DEF P, L
  <1>3. /\ hi \in Nat /\ f \in Nat /\ lo \in Nat /\ f < L /\ lo < P
        /\ word = Join(P, L, hi, f, lo)
    BY <1>1, SplitWord
  <1> HIDE DEF hi, f, lo
  <1>4. w = Join(P, L, hi, v, lo)
    <2>1. P \in Nat /\ L \in Nat
      BY <1>1
    <2> QED
      BY <1>3, <2>1, JoinMove, SMTT(30)
  <1>5. /\ w \in Nat /\ Above(w, P, L) = hi
        /\ Within(w, P, L) = v /\ Below(w, P) = lo
    BY <1>1, <1>2, <1>3, <1>4, JoinWord
  <1> QED
    BY <1>2, <1>5 DEF P, L, hi, lo

\* A field reads as what was put into it.
LEMMA PutReads ==
    ASSUME NEW word \in Nat, NEW k \in Nat, NEW l \in Nat,
           NEW v \in Nat, v < pow2[l]
    PROVE  Field(Put(word, k, l, v), k, l) = v
  BY PutParts

\* A quotient stays below what the dividend stays below.
LEMMA QuotientBound ==
    ASSUME NEW x \in Nat, NEW c \in Nat \ {0}, NEW d \in Nat \ {0}
    PROVE  x < c * d <=> x \div c < d
  <1> DEFINE q == x \div c
             r == x % c
  <1>1. q \in Nat /\ r \in Nat /\ r < c /\ x = c * q + r
    BY DivMod
  <1> HIDE DEF q, r
  <1>2. CASE q < d
    <2>1. c * (q + 1) <= c * d
      BY <1>1, <1>2
    <2>2. c * (q + 1) = c * q + c /\ c * q \in Nat /\ c * d \in Nat
      BY <1>1
    <2>3. x < c * d
      BY <1>1, <2>1, <2>2
    <2> QED
      BY <1>2, <2>3 DEF q
  <1>3. CASE d <= q
    <2>1. c * d <= c * q
      BY <1>1, <1>3
    <2>2. c * q \in Nat /\ c * d \in Nat
      BY <1>1
    <2>3. ~(x < c * d) /\ ~(q < d)
      BY <1>1, <1>3, <2>1, <2>2
    <2> QED
      BY <2>3 DEF q
  <1> QED
    BY <1>1, <1>2, <1>3

\* Division by a product is division by its factors.  Written with operators
\* of their own, so that products stay whole in the proofs that use them.
Times(c, d) == c * d
Quot(x, d)  == x \div d
Rem(x, d)   == x % d

\* DivDiv with opaque operators.
LEMMA QuotTimes ==
    ASSUME NEW x \in Nat, NEW c \in Nat \ {0}, NEW d \in Nat \ {0}
    PROVE  /\ Quot(Quot(x, c), d) = Quot(x, Times(c, d))
           /\ Quot(Rem(x, Times(c, d)), c) = Rem(Quot(x, c), d)
           /\ Rem(Rem(x, Times(c, d)), c) = Rem(x, c)
  <1> DEFINE q == (x \div c) % d
             r == x % c
  <1>1. x \div c \in Nat /\ r \in Nat /\ r < c
    BY DivMod
  <1>2. q \in Nat
    BY <1>1, DivMod
  <1>3. x % (c * d) = c * q + r
    BY DivDiv
  <1>4. (x \div c) \div d = x \div (c * d)
    BY DivDiv
  <1> HIDE DEF q, r
  <1>5. (c * q + r) \div c = q /\ (c * q + r) % c = r
    BY <1>1, <1>2, DivUnique
  <1> QED
    BY <1>3, <1>4, <1>5 DEF q, r, Times, Quot, Rem

\* Pow2Sum with a difference and opaque operators.
LEMMA Pow2Times ==
    ASSUME NEW m \in Nat, NEW n \in Nat, m <= n
    PROVE  n - m \in Nat /\ pow2[n] = Times(pow2[m], pow2[n - m])
  BY Pow2Sum, m + (n - m) = n DEF Times

\* What is above a field is a quotient.
LEMMA AboveQuot ==
    ASSUME NEW x \in Nat, NEW k \in Nat, NEW l \in Nat
    PROVE  Above(x, pow2[k], pow2[l]) = Quot(x, pow2[k + l])
  BY Pow2Sum DEF Above, Quot

\* A field above the one written depends on what is above it only.
LEMMA FieldAbove ==
    ASSUME NEW x \in Nat, NEW y \in Nat, NEW k \in Nat, NEW l \in Nat,
           NEW b \in Nat, NEW m \in Nat, k + l <= b,
           Above(x, pow2[k], pow2[l]) = Above(y, pow2[k], pow2[l])
    PROVE  Field(x, b, m) = Field(y, b, m)
  <1> DEFINE c == pow2[k + l]
             d == pow2[b - (k + l)]
  <1>1. b - (k + l) \in Nat /\ pow2[b] = Times(c, d)
    BY Pow2Times
  <1>2. c \in Nat \ {0} /\ d \in Nat \ {0}
    BY <1>1, Pow2Positive
  <1>3. Quot(x, c) = Quot(y, c)
    BY AboveQuot
  <1>4. /\ Field(x, b, m) = Rem(Quot(x, pow2[b]), pow2[m])
        /\ Field(y, b, m) = Rem(Quot(y, pow2[b]), pow2[m])
    BY DEF Field, Within, Quot, Rem
  <1> HIDE DEF c, d
  <1>5. Quot(x, pow2[b]) = Quot(y, pow2[b])
    BY <1>1, <1>2, <1>3, QuotTimes
  <1> QED
    BY <1>4, <1>5

\* A field below it depends on what is below only.
LEMMA FieldBelow ==
    ASSUME NEW x \in Nat, NEW y \in Nat, NEW k \in Nat,
           NEW b \in Nat, NEW m \in Nat, b + m <= k,
           Below(x, pow2[k]) = Below(y, pow2[k])
    PROVE  Field(x, b, m) = Field(y, b, m)
  <1> DEFINE c == pow2[b]
             d == pow2[m]
             n == pow2[b + m]
             e == pow2[k - (b + m)]
             p == pow2[k]
  <1>1. k - (b + m) \in Nat /\ p = Times(n, e)
    BY Pow2Times
  <1>2. n = Times(c, d)
    BY Pow2Sum DEF Times
  <1>3. c \in Nat \ {0} /\ d \in Nat \ {0} /\ e \in Nat \ {0} /\ n \in Nat \ {0}
    BY <1>1, Pow2Positive
  <1>4. Rem(x, p) = Rem(y, p)
    BY DEF Below, Rem
  <1>5. /\ Field(x, b, m) = Rem(Quot(x, c), d)
        /\ Field(y, b, m) = Rem(Quot(y, c), d)
    BY DEF Field, Within, Quot, Rem
  <1> HIDE DEF c, d, e, n, p
  <1>6. Rem(x, n) = Rem(y, n)
    BY <1>1, <1>3, <1>4, QuotTimes
  <1>7. Rem(Quot(x, c), d) = Rem(Quot(y, c), d)
    BY <1>2, <1>3, <1>6, QuotTimes
  <1> QED
    BY <1>5, <1>7

\* A value put below bit n leaves the word below it.
LEMMA PutBound ==
    ASSUME NEW word \in Nat, NEW k \in Nat, NEW l \in Nat,
           NEW v \in Nat, v < pow2[l], NEW n \in Nat, k + l <= n
    PROVE  word < pow2[n] => Put(word, k, l, v) < pow2[n]
  <1> DEFINE w == Put(word, k, l, v)
             c == pow2[k + l]
             d == pow2[n - (k + l)]
  <1>1. w \in Nat
    BY PutParts
  <1>2. Above(w, pow2[k], pow2[l]) = Above(word, pow2[k], pow2[l])
    BY PutParts
  <1>3. n - (k + l) \in Nat /\ pow2[n] = c * d
    BY Pow2Times DEF Times
  <1>4. c \in Nat \ {0} /\ d \in Nat \ {0}
    BY <1>3, Pow2Positive
  <1> HIDE DEF w
  <1>5. Quot(w, c) = Quot(word, c)
    BY <1>1, <1>2, AboveQuot
  <1> HIDE DEF c, d
  <1>6. w \div c = word \div c
    BY <1>5 DEF Quot
  <1>7. word < c * d <=> word \div c < d
    BY <1>4, QuotientBound
  <1>8. w < c * d <=> w \div c < d
    BY <1>1, <1>4, QuotientBound
  <1> QED
    BY <1>3, <1>6, <1>7, <1>8 DEF w

\* Fields that do not overlap keep their values.
LEMMA PutElsewhere ==
    ASSUME NEW word \in Nat, NEW k \in Nat, NEW l \in Nat,
           NEW v \in Nat, v < pow2[l], NEW b \in Nat, NEW m \in Nat,
           k + l <= b \/ b + m <= k
    PROVE  Field(Put(word, k, l, v), b, m) = Field(word, b, m)
  <1> DEFINE w == Put(word, k, l, v)
  <1>1. w \in Nat
    BY PutParts
  <1>2. Above(w, pow2[k], pow2[l]) = Above(word, pow2[k], pow2[l])
    BY PutParts
  <1>3. Below(w, pow2[k]) = Below(word, pow2[k])
    BY PutParts
  <1> HIDE DEF w
  <1>4. CASE k + l <= b
    <2>1. Field(w, b, m) = Field(word, b, m)
      BY <1>1, <1>2, <1>4, FieldAbove
    <2> QED
      BY <2>1 DEF w
  <1>5. CASE b + m <= k
    <2>1. Field(w, b, m) = Field(word, b, m)
      BY <1>1, <1>3, <1>5, FieldBelow
    <2> QED
      BY <2>1 DEF w
  <1> QED
    BY <1>4, <1>5

-----------------------------------------------------------------------------
(* AUTOSAR: signals                                                        *)

\* A signal lies within the word.
LEMMA SignalType ==
    ASSUME NEW s \in Signals
    PROVE  s[1] \in Nat /\ s[2] \in Nat /\ s[1] + s[2] <= Width
  <1>1. PICK entry \in Database : s = cmd_signals(entry)
    BY DEF Signals, Layouts
  <1>2. entry[1] \in 0 .. 255 /\ entry[2] \in 0 .. 255
    BY AutosarAssumption
  <1>3. s[1] = entry[1] % 256 /\ s[2] = entry[2] % 256
    BY <1>1 DEF cmd_signals
  <1>4. s[1] \in Nat /\ s[2] \in Nat
    BY <1>2, <1>3
  <1> QED
    BY <1>4 DEF Signals

\* Signal::unpack reads the field of the signal.
LEMMA UnpackIsField ==
    ASSUME NEW s \in Signals, NEW word \in Nat
    PROVE  unpack(s, word) = Field(word, s[1], s[2])
  <1>1. s[2] \in Nat
    BY SignalType
  <1>2. mask(s) + 1 = pow2[s[2]]
    BY <1>1, Pow2Recursion DEF mask
  <1> QED
    BY <1>2 DEF unpack, Field, Within

\* Signal::pack writes the field of the signal, if the value fits it.
LEMMA PackIsPut ==
    ASSUME NEW s \in Signals, NEW word \in Nat, NEW value \in Nat,
           pack(s, word, value) # None
    PROVE  /\ value < pow2[s[2]]
           /\ pack(s, word, value) = Put(word, s[1], s[2], value)
  <1>1. s[2] \in Nat
    BY SignalType
  <1>2. value <= mask(s)
    <2>1. mask(s) \in Int
      BY <1>1, Pow2Recursion DEF mask
    <2> QED
      BY <2>1 DEF pack
  <1>3. value < pow2[s[2]]
    BY <1>1, <1>2, Pow2Recursion DEF mask
  <1>4. pack(s, word, value)
           = (word - unpack(s, word) * pow2[s[1]]) + value * pow2[s[1]]
    BY <1>2 DEF pack
  <1>5. pack(s, word, value) = Put(word, s[1], s[2], value)
    BY <1>4, UnpackIsField DEF Put, Move
  <1> QED
    BY <1>3, <1>5

\* The word fits its width and each field of it is what was last packed there.
SignalInv ==
    /\ pdu \in Nat /\ pdu < pow2[Width]
    /\ packed \in [Signals -> Nat]
    /\ \A s \in Signals : unpack(s, pdu) = packed[s]

\* The invariant of the signals holds at the start.
LEMMA SignalInit == autInit => SignalInv
  <1> SUFFICES ASSUME autInit PROVE SignalInv
    OBVIOUS
  <1>1. pdu = 0 /\ packed = [s \in Signals |-> 0]
    BY DEF autInit
  <1>2. 0 < pow2[Width]
    BY AutosarAssumption, Pow2Positive
  <1>3. ASSUME NEW s \in Signals PROVE unpack(s, pdu) = packed[s]
    <2>1. s[1] \in Nat /\ s[2] \in Nat
      BY SignalType
    <2>2. pow2[s[1]] \in Nat \ {0} /\ pow2[s[2]] \in Nat \ {0}
      BY <2>1, Pow2Positive
    <2> DEFINE P == pow2[s[1]]
               L == pow2[s[2]]
    <2> HIDE DEF P, L
    <2>3. 0 \div P = 0 /\ 0 % L = 0
      BY <2>2 DEF P, L
    <2>4. Field(0, s[1], s[2]) = 0
      BY <2>3 DEF Field, Within, P, L
    <2> QED
      BY <1>1, <2>4, UnpackIsField
  <1> QED
    BY <1>1, <1>2, <1>3 DEF SignalInv

\* Packing a signal keeps the invariant.
LEMMA SignalPacked ==
    ASSUME SignalInv, NEW s \in Signals, NEW value \in Nat, packSignal(s, value)
    PROVE  SignalInv'
  <1>1. CASE pack(s, pdu, value) = None
    <2>1. UNCHANGED <<pdu, packed>>
      BY <1>1 DEF packSignal
    <2> QED
      BY <2>1 DEF SignalInv, unpack
  <1>2. CASE pack(s, pdu, value) # None
    <2>1. pdu \in Nat /\ pdu < pow2[Width] /\ packed \in [Signals -> Nat]
      BY DEF SignalInv
    <2>2. pdu' = pack(s, pdu, value) /\ packed' = [packed EXCEPT ![s] = value]
      BY <1>2 DEF packSignal
    <2>3. value < pow2[s[2]]
      BY <1>2, <2>1, PackIsPut
    <2>4. pdu' = Put(pdu, s[1], s[2], value)
      BY <1>2, <2>1, <2>2, PackIsPut
    <2>5. s[1] \in Nat /\ s[2] \in Nat /\ s[1] + s[2] <= Width
      BY SignalType
    <2>6. pdu' \in Nat
      BY <2>1, <2>3, <2>4, <2>5, PutParts
    <2>7. pdu' < pow2[Width]
      BY <2>1, <2>3, <2>4, <2>5, AutosarAssumption, PutBound
    <2>8. packed' \in [Signals -> Nat]
      BY <2>1, <2>2
    <2>9. ASSUME NEW t \in Signals PROVE unpack(t, pdu') = packed'[t]
      <3>1. unpack(t, pdu') = Field(pdu', t[1], t[2])
        BY <2>6, UnpackIsField
      <3>2. unpack(t, pdu) = Field(pdu, t[1], t[2])
        BY <2>1, UnpackIsField
      <3>3. t[1] \in Nat /\ t[2] \in Nat
        BY SignalType
      <3>4. CASE t = s
        <4>1. Field(pdu', s[1], s[2]) = value
          <5>1. Field(Put(pdu, s[1], s[2], value), s[1], s[2]) = value
            BY <2>1, <2>3, <2>5, PutReads
          <5> QED
            BY <2>4, <5>1
        <4> QED
          BY <2>1, <2>2, <3>1, <3>4, <4>1
      <3>5. CASE t # s
        <4>1. s[1] + s[2] <= t[1] \/ t[1] + t[2] <= s[1]
          BY <3>5, SignalsAreDisjoint
        <4>2. Field(pdu', t[1], t[2]) = Field(pdu, t[1], t[2])
          <5> DEFINE k == s[1]
                     l == s[2]
                     b == t[1]
                     m == t[2]
          <5>1. k \in Nat /\ l \in Nat /\ b \in Nat /\ m \in Nat
            BY <2>5, <3>3
          <5>2. value < pow2[l] /\ (k + l <= b \/ b + m <= k)
            BY <2>3, <4>1
          <5> HIDE DEF k, l, b, m
          <5>3. Field(Put(pdu, k, l, value), b, m) = Field(pdu, b, m)
            BY <2>1, <5>1, <5>2, PutElsewhere
          <5> QED
            BY <2>4, <5>3 DEF k, l, b, m
        <4>3. unpack(t, pdu) = packed[t]
          BY DEF SignalInv
        <4> QED
          BY <2>1, <2>2, <3>1, <3>2, <3>5, <4>2, <4>3
      <3> QED
        BY <3>4, <3>5
    <2>10. \A t \in Signals : unpack(t, pdu)' = packed'[t]
      BY <2>9 DEF unpack
    <2> QED
      BY <2>6, <2>7, <2>8, <2>10 DEF SignalInv
  <1> QED
    BY <1>1, <1>2

\* Signal::pack and Signal::unpack: for every word width and every database of
\* signals that do not overlap, each signal reads back what it was last given,
\* whatever the others were given since.
THEOREM SignalsIndependent == autSpec => []SignalsAreIndependent
  <1>1. SignalInv /\ [autNext]_autvars => SignalInv'
    <2> SUFFICES ASSUME SignalInv, [autNext]_autvars PROVE SignalInv'
      OBVIOUS
    <2>1. ASSUME NEW s \in Signals, NEW value \in 0 .. mask(s) + 1,
                 packSignal(s, value)
          PROVE  SignalInv'
      BY <2>1, SignalPacked
    <2>2. ASSUME NEW port \in 0 .. Ports, NEW pin \in 0 .. Pins - 1,
                 NEW level \in {"Low", "High"}, write_channel(port, pin, level)
          PROVE  SignalInv'
      BY <2>2 DEF write_channel, SignalInv, unpack
    <2>3. CASE UNCHANGED autvars
      BY <2>3 DEF autvars, SignalInv, unpack
    <2> QED
      BY <2>1, <2>2, <2>3 DEF autNext
  <1>2. SignalInv => SignalsAreIndependent
    <2> SUFFICES ASSUME SignalInv PROVE SignalsAreIndependent
      OBVIOUS
    <2>1. pow2[Width] \in Nat
      BY AutosarAssumption, Pow2Recursion
    <2> QED
      BY <2>1 DEF SignalInv, SignalsAreIndependent
  <1> QED
    BY <1>1, <1>2, SignalInit, PTL DEF autSpec

-----------------------------------------------------------------------------
(* AUTOSAR: digital channels                                               *)

BitOf(level) == IF level = "High" THEN 1 ELSE 0

\* A pin is a field of one bit.
LEMMA PinIsField ==
    ASSUME NEW word \in Nat, NEW pin \in Nat
    PROVE  /\ Field(word, pin, 1) \in {0, 1}
           /\ from_bool(word, pin) = IF Field(word, pin, 1) = 1 THEN "High" ELSE "Low"
  <1>1. pow2[1] = 2 /\ pow2[pin] \in Nat \ {0}
    BY Pow2Recursion, Pow2Positive, 0 + 1 = 1
  <1>2. word \div pow2[pin] \in Nat
    BY <1>1, DivMod
  <1>3. Field(word, pin, 1) = (word \div pow2[pin]) % 2
    BY <1>1 DEF Field, Within
  <1>4. (word \div pow2[pin]) % 2 \in {0, 1}
    BY <1>2
  <1> QED
    BY <1>3, <1>4 DEF from_bool

\* Writing a level is writing a field of one bit.
LEMMA WithLevelIsPut ==
    ASSUME NEW word \in Nat, NEW pin \in Nat, NEW level \in {"Low", "High"}
    PROVE  withLevel(word, pin, level) = Put(word, pin, 1, BitOf(level))
  <1> DEFINE P == pow2[pin]
             f == Field(word, pin, 1)
  <1>1. P \in Nat
    BY Pow2Recursion
  <1>2. f \in {0, 1} /\ from_bool(word, pin) = IF f = 1 THEN "High" ELSE "Low"
    BY PinIsField
  <1>3. Put(word, pin, 1, BitOf(level)) = (word - f * P) + BitOf(level) * P
    BY DEF Put, Move
  <1>4. withLevel(word, pin, level) =
          IF from_bool(word, pin) = level THEN word
          ELSE IF level = "High" THEN word + P ELSE word - P
    BY DEF withLevel
  <1> HIDE DEF P, f
  <1>5. CASE level = "High"
    <2>1. CASE f = 1
      BY <1>1, <1>2, <1>3, <1>4, <1>5, <2>1 DEF BitOf
    <2>2. CASE f = 0
      BY <1>1, <1>2, <1>3, <1>4, <1>5, <2>2 DEF BitOf
    <2> QED
      BY <1>2, <2>1, <2>2
  <1>6. CASE level = "Low"
    <2>1. CASE f = 1
      BY <1>1, <1>2, <1>3, <1>4, <1>6, <2>1 DEF BitOf
    <2>2. CASE f = 0
      BY <1>1, <1>2, <1>3, <1>4, <1>6, <2>2 DEF BitOf
    <2> QED
      BY <1>2, <2>1, <2>2
  <1> QED
    BY <1>5, <1>6

\* What a write does to the pin it names and to the others.
LEMMA WithLevelIsNat ==
    ASSUME NEW word \in Nat, NEW pin \in Nat, NEW level \in {"Low", "High"}
    PROVE  withLevel(word, pin, level) \in Nat
  <1> DEFINE v == BitOf(level)
  <1>1. v \in Nat /\ v < pow2[1]
    BY Pow2Recursion, 0 + 1 = 1 DEF BitOf
  <1>2. withLevel(word, pin, level) = Put(word, pin, 1, v)
    BY WithLevelIsPut
  <1> HIDE DEF v
  <1> QED
    BY <1>1, <1>2, PutParts

\* Of the channels of a word the written one has the new level.
LEMMA WithLevelReads ==
    ASSUME NEW word \in Nat, NEW pin \in Nat, NEW level \in {"Low", "High"},
           NEW other \in Nat
    PROVE  from_bool(withLevel(word, pin, level), other)
             = IF other = pin THEN level ELSE from_bool(word, other)
  <1> DEFINE v == BitOf(level)
             w == withLevel(word, pin, level)
  <1>1. v \in Nat /\ v < pow2[1]
    BY Pow2Recursion, 0 + 1 = 1 DEF BitOf
  <1>2. w = Put(word, pin, 1, v)
    BY WithLevelIsPut
  <1> HIDE DEF v, w
  <1>3. w \in Nat
    BY <1>1, <1>2, PutParts
  <1>4. from_bool(w, other) = IF Field(w, other, 1) = 1 THEN "High" ELSE "Low"
    BY <1>3, PinIsField
  <1>5. CASE other = pin
    <2>1. Field(w, pin, 1) = v
      BY <1>1, <1>2, PutParts
    <2> QED
      BY <1>3, <1>4, <1>5, <2>1 DEF v, w, BitOf
  <1>6. CASE other # pin
    <2>1. pin + 1 <= other \/ other + 1 <= pin
      BY <1>6
    <2>2. Field(Put(word, pin, 1, v), other, 1) = Field(word, other, 1)
      BY <1>1, <2>1, PutElsewhere
    <2>3. from_bool(word, other) = IF Field(word, other, 1) = 1 THEN "High" ELSE "Low"
      BY PinIsField
    <2> QED
      BY <1>2, <1>3, <1>4, <1>6, <2>2, <2>3 DEF w
  <1> QED
    BY <1>5, <1>6

\* Each bit of a port word is the level last written to its channel.
ChannelInv ==
    /\ ports \in [0 .. Ports - 1 -> Nat]
    /\ driven \in [Channels -> {"Low", "High"}]
    /\ \A port \in 0 .. Ports - 1, pin \in 0 .. Pins - 1 :
          from_bool(ports[port], pin) = driven[<<port, pin>>]

\* The invariant of the channels holds at the start.
LEMMA ChannelInit == autInit => ChannelInv
  <1> SUFFICES ASSUME autInit PROVE ChannelInv
    OBVIOUS
  <1>1. ports = [p \in 0 .. Ports - 1 |-> 0] /\ driven = [c \in Channels |-> "Low"]
    BY DEF autInit
  <1>2. ASSUME NEW port \in 0 .. Ports - 1, NEW pin \in 0 .. Pins - 1
        PROVE  from_bool(ports[port], pin) = driven[<<port, pin>>]
    <2>1. driven[<<port, pin>>] = "Low" /\ ports[port] = 0
      BY <1>1 DEF Channels
    <2>2. pin \in Nat /\ pow2[pin] \in Nat \ {0}
      BY AutosarAssumption, Pow2Positive
    <2> DEFINE P == pow2[pin]
    <2> HIDE DEF P
    <2>3. 0 \div P = 0
      BY <2>2 DEF P
    <2>4. from_bool(0, pin) = "Low"
      BY <2>3 DEF from_bool, P
    <2> QED
      BY <2>1, <2>4
  <1> QED
    BY <1>1, <1>2 DEF ChannelInv

\* Writing a channel keeps the invariant.
LEMMA ChannelWritten ==
    ASSUME ChannelInv, NEW port \in 0 .. Ports, NEW pin \in 0 .. Pins - 1,
           NEW level \in {"Low", "High"}, write_channel(port, pin, level)
    PROVE  ChannelInv'
  <1>1. CASE port \notin 0 .. Ports - 1
    <2>1. UNCHANGED <<ports, driven>>
      BY <1>1 DEF write_channel
    <2> QED
      BY <2>1 DEF ChannelInv
  <1>2. CASE port \in 0 .. Ports - 1
    <2>1. /\ ports' = [ports EXCEPT ![port] = withLevel(@, pin, level)]
          /\ driven' = [driven EXCEPT ![<<port, pin>>] = level]
      BY <1>2 DEF write_channel
    <2>2. ports \in [0 .. Ports - 1 -> Nat] /\ driven \in [Channels -> {"Low", "High"}]
      BY DEF ChannelInv
    <2>3. pin \in Nat /\ ports[port] \in Nat /\ <<port, pin>> \in Channels
      BY <1>2, <2>2, AutosarAssumption DEF Channels
    <2>4. withLevel(ports[port], pin, level) \in Nat
      BY <2>3, WithLevelIsNat
    <2>5. ports' \in [0 .. Ports - 1 -> Nat] /\ driven' \in [Channels -> {"Low", "High"}]
      BY <2>1, <2>2, <2>4
    <2>6. ASSUME NEW p \in 0 .. Ports - 1, NEW q \in 0 .. Pins - 1
          PROVE  from_bool(ports'[p], q) = driven'[<<p, q>>]
      <3>1. from_bool(ports[p], q) = driven[<<p, q>>]
        BY DEF ChannelInv
      <3>2. q \in Nat /\ <<p, q>> \in Channels
        BY AutosarAssumption DEF Channels
      <3>3. CASE p = port
        <4>1. ports'[p] = withLevel(ports[port], pin, level)
          BY <1>2, <2>1, <2>2, <3>3
        <4>2. driven'[<<p, q>>] = IF q = pin THEN level ELSE driven[<<p, q>>]
          BY <2>1, <2>2, <3>2, <3>3
        <4> DEFINE word == ports[port]
        <4>3. word \in Nat /\ pin \in Nat /\ q \in Nat
          BY <2>3, <3>2
        <4> HIDE DEF word
        <4>4. from_bool(withLevel(word, pin, level), q)
                = IF q = pin THEN level ELSE from_bool(word, q)
          BY <4>3, WithLevelReads
        <4> QED
          BY <3>1, <3>3, <4>1, <4>2, <4>4 DEF word
      <3>4. CASE p # port
        <4>1. ports'[p] = ports[p] /\ driven'[<<p, q>>] = driven[<<p, q>>]
          BY <2>1, <2>2, <3>2, <3>4
        <4> QED
          BY <3>1, <4>1
      <3> QED
        BY <3>3, <3>4
    <2> QED
      BY <2>5, <2>6 DEF ChannelInv
  <1> QED
    BY <1>1, <1>2

\* write_channel and read_channel: for every number of ports and pins, each
\* channel reads back the level it was last given, whatever was written to the
\* other pins of its port since.
THEOREM ChannelsIndependent == autSpec => []ChannelsAreIndependent
  <1>1. ChannelInv /\ [autNext]_autvars => ChannelInv'
    <2> SUFFICES ASSUME ChannelInv, [autNext]_autvars PROVE ChannelInv'
      OBVIOUS
    <2>1. ASSUME NEW s \in Signals, NEW value \in 0 .. mask(s) + 1,
                 packSignal(s, value)
          PROVE  ChannelInv'
      BY <2>1 DEF packSignal, ChannelInv
    <2>2. ASSUME NEW port \in 0 .. Ports, NEW pin \in 0 .. Pins - 1,
                 NEW level \in {"Low", "High"}, write_channel(port, pin, level)
          PROVE  ChannelInv'
      BY <2>2, ChannelWritten
    <2>3. CASE UNCHANGED autvars
      BY <2>3 DEF autvars, ChannelInv
    <2> QED
      BY <2>1, <2>2, <2>3 DEF autNext
  <1>2. ChannelInv => ChannelsAreIndependent
    BY DEF ChannelInv, ChannelsAreIndependent, Channels, read_channel
  <1> QED
    BY <1>1, <1>2, ChannelInit, PTL DEF autSpec

-----------------------------------------------------------------------------
(* The LIN identifier and checksum                                         *)

\* The bits the proof distinguishes.
LEMMA BitByDivision ==
    ASSUME NEW x \in Nat
    PROVE  /\ bit(x, 0) = x % 2
           /\ bit(x, 1) = (x \div 2) % 2
           /\ bit(x, 2) = (x \div 4) % 2
           /\ bit(x, 3) = (x \div 8) % 2
           /\ bit(x, 4) = (x \div 16) % 2
           /\ bit(x, 5) = (x \div 32) % 2
           /\ bit(x, 6) = (x \div 64) % 2
           /\ bit(x, 7) = (x \div 128) % 2
  BY DEF bit

\* A number of eight bits, its bits given.
Eight(b) == b[0] + 2 * b[1] + 4 * b[2] + 8 * b[3] + 16 * b[4] + 32 * b[5]
              + 64 * b[6] + 128 * b[7]

EightBits == [0 .. 7 -> {0, 1}]

\* The byte of eight bits has these bits.
LEMMA BitsOfEight ==
    ASSUME NEW b \in EightBits
    PROVE  /\ Eight(b) \in 0 .. 255
           /\ \A i \in 0 .. 7 : bit(Eight(b), i) = b[i]
  <1>1. /\ b[0] \in {0, 1} /\ b[1] \in {0, 1} /\ b[2] \in {0, 1} /\ b[3] \in {0, 1}
        /\ b[4] \in {0, 1} /\ b[5] \in {0, 1} /\ b[6] \in {0, 1} /\ b[7] \in {0, 1}
    BY DEF EightBits
  <1> DEFINE x == Eight(b)
  <1>2. x \in 0 .. 255
    BY <1>1 DEF Eight
  <1>3. /\ x % 2 = b[0] /\ (x \div 2) % 2 = b[1]
        /\ (x \div 4) % 2 = b[2] /\ (x \div 8) % 2 = b[3]
        /\ (x \div 16) % 2 = b[4] /\ (x \div 32) % 2 = b[5]
        /\ (x \div 64) % 2 = b[6] /\ (x \div 128) % 2 = b[7]
    BY <1>1 DEF Eight
  <1> HIDE DEF x
  <1>4. ASSUME NEW i \in 0 .. 7 PROVE bit(x, i) = b[i]
    <2>1. i \in {0, 1, 2, 3, 4, 5, 6, 7}
      OBVIOUS
    <2>2. x \in Nat
      BY <1>2
    <2>3. /\ bit(x, 0) = b[0] /\ bit(x, 1) = b[1] /\ bit(x, 2) = b[2]
          /\ bit(x, 3) = b[3] /\ bit(x, 4) = b[4] /\ bit(x, 5) = b[5]
          /\ bit(x, 6) = b[6] /\ bit(x, 7) = b[7]
      BY <1>3, <2>2, BitByDivision
    <2> QED
      BY <2>1, <2>3
  <1> QED
    BY <1>2, <1>4 DEF x

\* What it adds or takes away.
LEMMA FlipByWeight ==
    ASSUME NEW x \in Nat
    PROVE
        /\ Flip(x, 0) = IF bit(x, 0) = 1 THEN x - 1 ELSE x + 1
        /\ Flip(x, 1) = IF bit(x, 1) = 1 THEN x - 2 ELSE x + 2
        /\ Flip(x, 2) = IF bit(x, 2) = 1 THEN x - 4 ELSE x + 4
        /\ Flip(x, 3) = IF bit(x, 3) = 1 THEN x - 8 ELSE x + 8
        /\ Flip(x, 4) = IF bit(x, 4) = 1 THEN x - 16 ELSE x + 16
        /\ Flip(x, 5) = IF bit(x, 5) = 1 THEN x - 32 ELSE x + 32
        /\ Flip(x, 6) = IF bit(x, 6) = 1 THEN x - 64 ELSE x + 64
        /\ Flip(x, 7) = IF bit(x, 7) = 1 THEN x - 128 ELSE x + 128
  BY DEF Flip

\* Inverting a bit of a number inverts it in its bits.
LEMMA FlipIsExcept ==
    ASSUME NEW b \in EightBits, NEW i \in 0 .. 7
    PROVE  Flip(Eight(b), i) = Eight([b EXCEPT ![i] = 1 - @])
  <1> DEFINE c == [b EXCEPT ![i] = 1 - @]
             x == Eight(b)
  <1>1. /\ b[0] \in {0, 1} /\ b[1] \in {0, 1} /\ b[2] \in {0, 1} /\ b[3] \in {0, 1}
        /\ b[4] \in {0, 1} /\ b[5] \in {0, 1} /\ b[6] \in {0, 1} /\ b[7] \in {0, 1}
    BY DEF EightBits
  <1>2. /\ c[0] = IF i = 0 THEN 1 - b[0] ELSE b[0]
        /\ c[1] = IF i = 1 THEN 1 - b[1] ELSE b[1]
        /\ c[2] = IF i = 2 THEN 1 - b[2] ELSE b[2]
        /\ c[3] = IF i = 3 THEN 1 - b[3] ELSE b[3]
        /\ c[4] = IF i = 4 THEN 1 - b[4] ELSE b[4]
        /\ c[5] = IF i = 5 THEN 1 - b[5] ELSE b[5]
        /\ c[6] = IF i = 6 THEN 1 - b[6] ELSE b[6]
        /\ c[7] = IF i = 7 THEN 1 - b[7] ELSE b[7]
    BY DEF EightBits
  <1> HIDE DEF c
  <1>3. x \in Nat /\ Eight(c) \in Nat
    <2>1. /\ c[0] \in {0, 1} /\ c[1] \in {0, 1} /\ c[2] \in {0, 1} /\ c[3] \in {0, 1}
          /\ c[4] \in {0, 1} /\ c[5] \in {0, 1} /\ c[6] \in {0, 1} /\ c[7] \in {0, 1}
      BY <1>1, <1>2
    <2> QED
      BY <1>1, <2>1 DEF Eight
  <1>4. i \in {0, 1, 2, 3, 4, 5, 6, 7}
    OBVIOUS
  <1>5. bit(x, i) = b[i]
    BY BitsOfEight
  <1>7. CASE i = 0
    <2>1. Flip(x, 0) = IF b[0] = 1 THEN x - 1 ELSE x + 1
      BY <1>3, <1>5, <1>7, FlipByWeight
    <2>2. /\ c[0] = 1 - b[0] /\ c[1] = b[1] /\ c[2] = b[2] /\ c[3] = b[3]
          /\ c[4] = b[4] /\ c[5] = b[5] /\ c[6] = b[6] /\ c[7] = b[7]
      BY <1>2, <1>7
    <2>3. Eight(c) = IF b[0] = 1 THEN x - 1 ELSE x + 1
      BY <1>1, <2>2 DEF Eight, x
    <2> QED
      BY <1>7, <2>1, <2>3 DEF c, x
  <1>8. CASE i = 1
    <2>1. Flip(x, 1) = IF b[1] = 1 THEN x - 2 ELSE x + 2
      BY <1>3, <1>5, <1>8, FlipByWeight
    <2>2. /\ c[0] = b[0] /\ c[1] = 1 - b[1] /\ c[2] = b[2] /\ c[3] = b[3]
          /\ c[4] = b[4] /\ c[5] = b[5] /\ c[6] = b[6] /\ c[7] = b[7]
      BY <1>2, <1>8
    <2>3. Eight(c) = IF b[1] = 1 THEN x - 2 ELSE x + 2
      BY <1>1, <2>2 DEF Eight, x
    <2> QED
      BY <1>8, <2>1, <2>3 DEF c, x
  <1>9. CASE i = 2
    <2>1. Flip(x, 2) = IF b[2] = 1 THEN x - 4 ELSE x + 4
      BY <1>3, <1>5, <1>9, FlipByWeight
    <2>2. /\ c[0] = b[0] /\ c[1] = b[1] /\ c[2] = 1 - b[2] /\ c[3] = b[3]
          /\ c[4] = b[4] /\ c[5] = b[5] /\ c[6] = b[6] /\ c[7] = b[7]
      BY <1>2, <1>9
    <2>3. Eight(c) = IF b[2] = 1 THEN x - 4 ELSE x + 4
      BY <1>1, <2>2 DEF Eight, x
    <2> QED
      BY <1>9, <2>1, <2>3 DEF c, x
  <1>10. CASE i = 3
    <2>1. Flip(x, 3) = IF b[3] = 1 THEN x - 8 ELSE x + 8
      BY <1>3, <1>5, <1>10, FlipByWeight
    <2>2. /\ c[0] = b[0] /\ c[1] = b[1] /\ c[2] = b[2] /\ c[3] = 1 - b[3]
          /\ c[4] = b[4] /\ c[5] = b[5] /\ c[6] = b[6] /\ c[7] = b[7]
      BY <1>2, <1>10
    <2>3. Eight(c) = IF b[3] = 1 THEN x - 8 ELSE x + 8
      BY <1>1, <2>2 DEF Eight, x
    <2> QED
      BY <1>10, <2>1, <2>3 DEF c, x
  <1>11. CASE i = 4
    <2>1. Flip(x, 4) = IF b[4] = 1 THEN x - 16 ELSE x + 16
      BY <1>3, <1>5, <1>11, FlipByWeight
    <2>2. /\ c[0] = b[0] /\ c[1] = b[1] /\ c[2] = b[2] /\ c[3] = b[3]
          /\ c[4] = 1 - b[4] /\ c[5] = b[5] /\ c[6] = b[6] /\ c[7] = b[7]
      BY <1>2, <1>11
    <2>3. Eight(c) = IF b[4] = 1 THEN x - 16 ELSE x + 16
      BY <1>1, <2>2 DEF Eight, x
    <2> QED
      BY <1>11, <2>1, <2>3 DEF c, x
  <1>12. CASE i = 5
    <2>1. Flip(x, 5) = IF b[5] = 1 THEN x - 32 ELSE x + 32
      BY <1>3, <1>5, <1>12, FlipByWeight
    <2>2. /\ c[0] = b[0] /\ c[1] = b[1] /\ c[2] = b[2] /\ c[3] = b[3]
          /\ c[4] = b[4] /\ c[5] = 1 - b[5] /\ c[6] = b[6] /\ c[7] = b[7]
      BY <1>2, <1>12
    <2>3. Eight(c) = IF b[5] = 1 THEN x - 32 ELSE x + 32
      BY <1>1, <2>2 DEF Eight, x
    <2> QED
      BY <1>12, <2>1, <2>3 DEF c, x
  <1>13. CASE i = 6
    <2>1. Flip(x, 6) = IF b[6] = 1 THEN x - 64 ELSE x + 64
      BY <1>3, <1>5, <1>13, FlipByWeight
    <2>2. /\ c[0] = b[0] /\ c[1] = b[1] /\ c[2] = b[2] /\ c[3] = b[3]
          /\ c[4] = b[4] /\ c[5] = b[5] /\ c[6] = 1 - b[6] /\ c[7] = b[7]
      BY <1>2, <1>13
    <2>3. Eight(c) = IF b[6] = 1 THEN x - 64 ELSE x + 64
      BY <1>1, <2>2 DEF Eight, x
    <2> QED
      BY <1>13, <2>1, <2>3 DEF c, x
  <1>14. CASE i = 7
    <2>1. Flip(x, 7) = IF b[7] = 1 THEN x - 128 ELSE x + 128
      BY <1>3, <1>5, <1>14, FlipByWeight
    <2>2. /\ c[0] = b[0] /\ c[1] = b[1] /\ c[2] = b[2] /\ c[3] = b[3]
          /\ c[4] = b[4] /\ c[5] = b[5] /\ c[6] = b[6] /\ c[7] = 1 - b[7]
      BY <1>2, <1>14
    <2>3. Eight(c) = IF b[7] = 1 THEN x - 128 ELSE x + 128
      BY <1>1, <2>2 DEF Eight, x
    <2> QED
      BY <1>14, <2>1, <2>3 DEF c, x
  <1> QED
    BY <1>4, <1>7, <1>8, <1>9, <1>10, <1>11, <1>12, <1>13, <1>14

\* The bits of a protected identifier: the upper two are the parities.
ParityHolds(b) ==
    /\ b[6] = (b[0] + b[1] + b[2] + b[4]) % 2
    /\ b[7] = (1 + b[1] + b[3] + b[4] + b[5]) % 2

\* A protected identifier is a byte with both parities right.
LEMMA ProtectedBits ==
    ASSUME NEW id \in 0 .. 63
    PROVE  \E b \in EightBits : protected(id) = Eight(b) /\ ParityHolds(b)
  <1> DEFINE p0 == (bit(id, 0) + bit(id, 1) + bit(id, 2) + bit(id, 4)) % 2
             p1 == (1 + bit(id, 1) + bit(id, 3) + bit(id, 4) + bit(id, 5)) % 2
             b == [i \in 0 .. 7 |->
                     IF i = 6 THEN p0 ELSE IF i = 7 THEN p1 ELSE bit(id, i)]
  <1>1. /\ bit(id, 0) = id % 2 /\ bit(id, 1) = (id \div 2) % 2
        /\ bit(id, 2) = (id \div 4) % 2 /\ bit(id, 3) = (id \div 8) % 2
        /\ bit(id, 4) = (id \div 16) % 2 /\ bit(id, 5) = (id \div 32) % 2
    <2>1. id \in Nat
      OBVIOUS
    <2> QED
      BY <2>1, BitByDivision
  <1>2. /\ bit(id, 0) \in {0, 1} /\ bit(id, 1) \in {0, 1} /\ bit(id, 2) \in {0, 1}
        /\ bit(id, 3) \in {0, 1} /\ bit(id, 4) \in {0, 1} /\ bit(id, 5) \in {0, 1}
    BY <1>1
  <1>3. id = bit(id, 0) + 2 * bit(id, 1) + 4 * bit(id, 2) + 8 * bit(id, 3)
               + 16 * bit(id, 4) + 32 * bit(id, 5)
    <2>1. id = (id % 2) + 2 * ((id \div 2) % 2) + 4 * ((id \div 4) % 2)
                 + 8 * ((id \div 8) % 2) + 16 * ((id \div 16) % 2)
                 + 32 * ((id \div 32) % 2)
      OBVIOUS
    <2> QED
      BY <1>1, <2>1
  <1>4. p0 \in {0, 1} /\ p1 \in {0, 1}
    BY <1>2
  <1>5. protected(id) = id + 64 * p0 + 128 * p1
    BY DEF protected
  <1> HIDE DEF p0, p1
  <1>6. /\ b[0] = bit(id, 0) /\ b[1] = bit(id, 1) /\ b[2] = bit(id, 2)
        /\ b[3] = bit(id, 3) /\ b[4] = bit(id, 4) /\ b[5] = bit(id, 5)
        /\ b[6] = p0 /\ b[7] = p1
    OBVIOUS
  <1>7. b \in EightBits
    <2>1. ASSUME NEW i \in 0 .. 7 PROVE b[i] \in {0, 1}
      <3>1. i \in {0, 1, 2, 3, 4, 5, 6, 7}
        OBVIOUS
      <3> HIDE DEF b
      <3> QED
        BY <1>2, <1>4, <1>6, <3>1
    <2> QED
      BY <2>1 DEF EightBits
  <1> HIDE DEF b
  <1>8. protected(id) = Eight(b)
    BY <1>2, <1>3, <1>4, <1>5, <1>6 DEF Eight
  <1>9. ParityHolds(b)
    BY <1>6 DEF ParityHolds, p0, p1
  <1> QED
    BY <1>7, <1>8, <1>9

\* Every bit of the identifier is in a parity, and a parity is a bit.
LEMMA FlipBreaksParity ==
    ASSUME NEW b \in EightBits, NEW i \in 0 .. 7, ParityHolds(b)
    PROVE  ~ParityHolds([b EXCEPT ![i] = 1 - @])
  <1> DEFINE c == [b EXCEPT ![i] = 1 - @]
  <1>1. /\ b[0] \in {0, 1} /\ b[1] \in {0, 1} /\ b[2] \in {0, 1} /\ b[3] \in {0, 1}
        /\ b[4] \in {0, 1} /\ b[5] \in {0, 1} /\ b[6] \in {0, 1} /\ b[7] \in {0, 1}
    BY DEF EightBits
  <1>2. /\ c[0] = IF i = 0 THEN 1 - b[0] ELSE b[0]
        /\ c[1] = IF i = 1 THEN 1 - b[1] ELSE b[1]
        /\ c[2] = IF i = 2 THEN 1 - b[2] ELSE b[2]
        /\ c[3] = IF i = 3 THEN 1 - b[3] ELSE b[3]
        /\ c[4] = IF i = 4 THEN 1 - b[4] ELSE b[4]
        /\ c[5] = IF i = 5 THEN 1 - b[5] ELSE b[5]
        /\ c[6] = IF i = 6 THEN 1 - b[6] ELSE b[6]
        /\ c[7] = IF i = 7 THEN 1 - b[7] ELSE b[7]
    BY DEF EightBits
  <1>3. i \in {0, 1, 2, 3, 4, 5, 6, 7}
    OBVIOUS
  <1> HIDE DEF c
  <1>4. /\ c[0] \in {0, 1} /\ c[1] \in {0, 1} /\ c[2] \in {0, 1} /\ c[3] \in {0, 1}
        /\ c[4] \in {0, 1} /\ c[5] \in {0, 1} /\ c[6] \in {0, 1} /\ c[7] \in {0, 1}
    BY <1>1, <1>2
  <1>5. CASE i \in {0, 2, 6}
    <2>1. /\ c[1] = b[1] /\ c[4] = b[4]
          /\ \/ c[0] = 1 - b[0] /\ c[2] = b[2] /\ c[6] = b[6]
             \/ c[0] = b[0] /\ c[2] = 1 - b[2] /\ c[6] = b[6]
             \/ c[0] = b[0] /\ c[2] = b[2] /\ c[6] = 1 - b[6]
      BY <1>2, <1>5
    <2>2. (c[0] + c[1] + c[2] + c[4]) % 2 # c[6]
      BY <1>1, <1>4, <2>1 DEF ParityHolds
    <2> QED
      BY <2>2 DEF ParityHolds, c
  <1>6. CASE i \in {1, 3, 4, 5, 7}
    <2>1. \/ /\ c[7] = b[7] /\ c[1] + c[3] + c[4] + c[5] = b[1] + b[3] + b[4] + b[5] + 1
          \/ /\ c[7] = b[7] /\ c[1] + c[3] + c[4] + c[5] = b[1] + b[3] + b[4] + b[5] - 1
          \/ /\ c[7] = 1 - b[7] /\ c[1] + c[3] + c[4] + c[5] = b[1] + b[3] + b[4] + b[5]
      BY <1>1, <1>2, <1>4, <1>6
    <2>2. (1 + c[1] + c[3] + c[4] + c[5]) % 2 # c[7]
      BY <1>1, <1>4, <2>1 DEF ParityHolds
    <2> QED
      BY <2>2 DEF ParityHolds, c
  <1> QED
    BY <1>3, <1>5, <1>6

\* No identifier is protected by a byte one bit away from another.
LEMMA FlippedIsNoPid ==
    ASSUME NEW id \in 0 .. 63, NEW i \in 0 .. 7
    PROVE  Flip(protected(id), i) \notin Pids
  <1>1. SUFFICES ASSUME NEW other \in 0 .. 63, Flip(protected(id), i) = protected(other)
                 PROVE  FALSE
    BY DEF Pids
  <1>2. PICK b \in EightBits : protected(id) = Eight(b) /\ ParityHolds(b)
    BY ProtectedBits
  <1>3. PICK d \in EightBits : protected(other) = Eight(d) /\ ParityHolds(d)
    BY ProtectedBits
  <1> DEFINE c == [b EXCEPT ![i] = 1 - @]
  <1>4. c \in EightBits
    BY DEF EightBits
  <1>5. Eight(c) = Eight(d)
    BY <1>1, <1>2, <1>3, FlipIsExcept
  <1>6. ~ParityHolds(c)
    BY <1>2, FlipBreaksParity
  <1> HIDE DEF c
  <1>7. \A j \in 0 .. 7 : c[j] = d[j]
    BY <1>4, <1>5, BitsOfEight
  <1>8. c = d
    BY <1>4, <1>7 DEF EightBits
  <1> QED
    BY <1>3, <1>6, <1>8

\* The frame on the wire is one the constructors built.
LEMMA FrameIsBuilt == linSpec => [](frame # None => frame \in Frames)
  <1> DEFINE I == frame # None => frame \in Frames
  <1>1. linInit => I
    BY DEF linInit
  <1>2. I /\ [linNext]_lvars => I'
    BY DEF linNext, lvars, linNode, linTransmit, linReceive, linBusOff
  <1> QED
    BY <1>1, <1>2, PTL DEF linSpec

\* LinId::protected: no protected identifier becomes another by the inversion
\* of one of its eight bits, whatever the parity bits are.
THEOREM PidFlipDetected == linSpec => []PidDetectsFlip
  <1>1. (frame # None => frame \in Frames) => PidDetectsFlip
    BY FlippedIsNoPid, LinAssumption DEF LinFrame, PidDetectsFlip
  <1> QED
    BY <1>1, FrameIsBuilt, PTL

\* A function that takes the step wherever it is in A is in A throughout.
LEMMA GrowsByStep ==
    ASSUME NEW A, NEW a \in A, NEW Step \in [Nat -> [A -> A]], NEW n \in Nat, NEW f,
           f = [k \in 0 .. n |-> f[k]], f[0] = a,
           \A k \in 0 .. n - 1 : f[k] \in A => f[k + 1] = Step[k][f[k]]
    PROVE  Grows(A, a, Step, n, f)
  <1> DEFINE S == {k \in Nat : k <= n => f[k] \in A}
  <1>1. 0 \in S
    OBVIOUS
  <1>2. ASSUME NEW k \in Nat, k \in S PROVE k + 1 \in S
    <2>1. SUFFICES ASSUME k + 1 <= n PROVE f[k + 1] \in A
      OBVIOUS
    <2>2. k \in 0 .. n - 1 /\ f[k] \in A
      BY <1>2, <2>1
    <2>3. Step[k] \in [A -> A]
      OBVIOUS
    <2>4. Step[k][f[k]] \in A
      BY <2>2, <2>3
    <2> QED
      BY <2>2, <2>4
  <1> HIDE DEF S
  <1>3. \A k \in Nat : k \in S
    BY <1>1, <1>2, NatInduct
  <1>4. \A k \in 0 .. n : f[k] \in A
    BY <1>3 DEF S
  <1>5. f \in [0 .. n -> A]
    BY <1>4
  <1>6. ASSUME NEW k \in 0 .. n - 1 PROVE f[k + 1] = Step[k][f[k]]
    <2>1. k \in 0 .. n
      OBVIOUS
    <2> QED
      BY <1>4, <2>1
  <1> QED
    BY <1>5, <1>6 DEF Grows

ByteAt(data, k) == IF k \in 1 .. Len(data) THEN data[k] ELSE 0

\* A byte of a payload or the zero behind it is a byte.
LEMMA ByteIsByte ==
    ASSUME NEW data \in Seq(0 .. 255), NEW k \in Nat
    PROVE  ByteAt(data, k) \in 0 .. 255
  <1>1. CASE k \in 1 .. Len(data)
    <2>1. data[k] \in 0 .. 255
      BY <1>1, ElementOfSeq
    <2> QED
      BY <1>1, <2>1 DEF ByteAt
  <1>2. CASE k \notin 1 .. Len(data)
    BY <1>2 DEF ByteAt
  <1> QED
    BY <1>1, <1>2

\* g counts the bytes of data with the carry wrapped round, h without.
CarriesTo(data, g) ==
    /\ g \in [0 .. Len(data) -> 0 .. 255] /\ g[0] = 0
    /\ \A k \in 1 .. Len(data) : g[k] = addWithCarry(g[k - 1], data[k])
    /\ carrySum(data) = g[Len(data)]

TotalsTo(data, h) ==
    /\ h \in [0 .. Len(data) -> Nat] /\ h[0] = 0
    /\ \A k \in 1 .. Len(data) : h[k] = h[k - 1] + data[k]
    /\ Total(data) = h[Len(data)]

\* The sum with carry is defined by recursion over the payload.
LEMMA CarrySumRecursion ==
    ASSUME NEW data \in Seq(0 .. 255)
    PROVE  \E g : CarriesTo(data, g)
  <1> DEFINE n == Len(data)
             Step == [k \in Nat |-> [x \in 0 .. 255 |-> addWithCarry(x, ByteAt(data, k + 1))]]
             sum[k \in 0 .. n] == IF k = 0 THEN 0 ELSE addWithCarry(sum[k - 1], data[k])
             body(f) == [k \in 0 .. n |-> IF k = 0 THEN 0 ELSE addWithCarry(f[k - 1], data[k])]
  <1>1. carrySum(data) = sum[n]
    BY DEF carrySum
  <1> HIDE DEF sum
  <1>2. n \in Nat /\ 0 \in 0 .. 255
    OBVIOUS
  <1>3. \A k \in Nat : ByteAt(data, k) \in 0 .. 255
    BY ByteIsByte
  <1>4. \A k \in 1 .. n : ByteAt(data, k) = data[k]
    BY DEF ByteAt
  <1>5. Step \in [Nat -> [0 .. 255 -> 0 .. 255]]
    <2>1. ASSUME NEW k \in Nat, NEW x \in 0 .. 255
          PROVE  addWithCarry(x, ByteAt(data, k + 1)) \in 0 .. 255
      <3> DEFINE y == ByteAt(data, k + 1)
      <3>1. y \in 0 .. 255
        BY <1>3
      <3> HIDE DEF y
      <3>2. addWithCarry(x, y) \in 0 .. 255
        BY <3>1 DEF addWithCarry
      <3> QED
        BY <3>2 DEF y
    <2> QED
      BY <2>1
  <1> HIDE DEF n
  <1>6. ASSUME NEW k \in 0 .. n - 1, NEW x \in 0 .. 255
        PROVE  Step[k][x] = addWithCarry(x, data[k + 1])
    <2>1. k \in Nat /\ k + 1 \in 1 .. n
      BY <1>2
    <2> QED
      BY <1>4, <2>1
  <1> HIDE DEF Step
  <1>7. PICK g : Grows(0 .. 255, 0, Step, n, g)
    BY <1>2, <1>5, FiniteRecursion
  <1>8. g = body(g)
    <2>1. ASSUME NEW k \in 0 .. n PROVE g[k] = body(g)[k]
      <3>1. CASE k = 0
        BY <1>7, <3>1 DEF Grows
      <3>2. CASE k # 0
        <4>1. k - 1 \in 0 .. n - 1 /\ k - 1 \in 0 .. n /\ (k - 1) + 1 = k
          BY <1>2, <3>2
        <4>2. g[k] = Step[k - 1][g[k - 1]] /\ g[k - 1] \in 0 .. 255
          BY <1>7, <4>1 DEF Grows
        <4> QED
          BY <1>6, <3>2, <4>1, <4>2
      <3> QED
        BY <3>1, <3>2
    <2> QED
      BY <1>7, <2>1 DEF Grows
  <1>9. sum = body(sum)
    BY <1>8 DEF sum
  <1>10. /\ sum = [k \in 0 .. n |-> sum[k]] /\ sum[0] = 0
         /\ \A k \in 0 .. n - 1 : sum[k] \in 0 .. 255 => sum[k + 1] = Step[k][sum[k]]
    <2>1. sum = [k \in 0 .. n |-> sum[k]] /\ sum[0] = 0
      BY <1>2, <1>9
    <2>2. ASSUME NEW k \in 0 .. n - 1, sum[k] \in 0 .. 255
          PROVE  sum[k + 1] = Step[k][sum[k]]
      <3>1. k + 1 \in 0 .. n /\ k + 1 # 0 /\ (k + 1) - 1 = k
        BY <1>2
      <3>2. sum[k + 1] = body(sum)[k + 1]
        BY <1>9
      <3> QED
        BY <1>6, <2>2, <3>1, <3>2
    <2> QED
      BY <2>1, <2>2
  <1> HIDE DEF body
  <1>11. Grows(0 .. 255, 0, Step, n, sum)
    BY <1>2, <1>5, <1>10, GrowsByStep
  <1>12. ASSUME NEW k \in 1 .. n PROVE sum[k] = addWithCarry(sum[k - 1], data[k])
    <2>1. k - 1 \in 0 .. n - 1 /\ k - 1 \in 0 .. n /\ (k - 1) + 1 = k
      BY <1>2
    <2>2. sum[k - 1] \in 0 .. 255 /\ sum[k] = Step[k - 1][sum[k - 1]]
      BY <1>11, <2>1 DEF Grows
    <2> QED
      BY <1>6, <2>1, <2>2
  <1>13. CarriesTo(data, sum)
    BY <1>1, <1>11, <1>12 DEF CarriesTo, Grows, n
  <1> QED
    BY <1>13

\* The plain sum is defined by recursion over the payload.
LEMMA TotalRecursion ==
    ASSUME NEW data \in Seq(0 .. 255)
    PROVE  \E h : TotalsTo(data, h)
  <1> DEFINE n == Len(data)
             Step == [k \in Nat |-> [x \in Nat |-> x + ByteAt(data, k + 1)]]
             sum[k \in 0 .. n] == IF k = 0 THEN 0 ELSE sum[k - 1] + data[k]
             body(f) == [k \in 0 .. n |-> IF k = 0 THEN 0 ELSE f[k - 1] + data[k]]
  <1>1. Total(data) = sum[n]
    BY DEF Total
  <1> HIDE DEF sum
  <1>2. n \in Nat /\ 0 \in Nat
    OBVIOUS
  <1>3. \A k \in Nat : ByteAt(data, k) \in 0 .. 255
    BY ByteIsByte
  <1>4. \A k \in 1 .. n : ByteAt(data, k) = data[k]
    BY DEF ByteAt
  <1>5. Step \in [Nat -> [Nat -> Nat]]
    <2>1. ASSUME NEW k \in Nat, NEW x \in Nat
          PROVE  x + ByteAt(data, k + 1) \in Nat
      <3> DEFINE y == ByteAt(data, k + 1)
      <3>1. y \in 0 .. 255
        BY <1>3
      <3> HIDE DEF y
      <3>2. x + y \in Nat
        BY <3>1
      <3> QED
        BY <3>2 DEF y
    <2> QED
      BY <2>1
  <1> HIDE DEF n
  <1>6. ASSUME NEW k \in 0 .. n - 1, NEW x \in Nat
        PROVE  Step[k][x] = x + data[k + 1]
    <2>1. k \in Nat /\ k + 1 \in 1 .. n
      BY <1>2
    <2> QED
      BY <1>4, <2>1
  <1> HIDE DEF Step
  <1>7. PICK g : Grows(Nat, 0, Step, n, g)
    BY <1>2, <1>5, FiniteRecursion
  <1>8. g = body(g)
    <2>1. ASSUME NEW k \in 0 .. n PROVE g[k] = body(g)[k]
      <3>1. CASE k = 0
        BY <1>7, <3>1 DEF Grows
      <3>2. CASE k # 0
        <4>1. k - 1 \in 0 .. n - 1 /\ k - 1 \in 0 .. n /\ (k - 1) + 1 = k
          BY <1>2, <3>2
        <4>2. g[k] = Step[k - 1][g[k - 1]] /\ g[k - 1] \in Nat
          BY <1>7, <4>1 DEF Grows
        <4> QED
          BY <1>6, <3>2, <4>1, <4>2
      <3> QED
        BY <3>1, <3>2
    <2> QED
      BY <1>7, <2>1 DEF Grows
  <1>9. sum = body(sum)
    BY <1>8 DEF sum
  <1>10. /\ sum = [k \in 0 .. n |-> sum[k]] /\ sum[0] = 0
         /\ \A k \in 0 .. n - 1 : sum[k] \in Nat => sum[k + 1] = Step[k][sum[k]]
    <2>1. sum = [k \in 0 .. n |-> sum[k]] /\ sum[0] = 0
      BY <1>2, <1>9
    <2>2. ASSUME NEW k \in 0 .. n - 1, sum[k] \in Nat
          PROVE  sum[k + 1] = Step[k][sum[k]]
      <3>1. k + 1 \in 0 .. n /\ k + 1 # 0 /\ (k + 1) - 1 = k
        BY <1>2
      <3>2. sum[k + 1] = body(sum)[k + 1]
        BY <1>9
      <3> QED
        BY <1>6, <2>2, <3>1, <3>2
    <2> QED
      BY <2>1, <2>2
  <1> HIDE DEF body
  <1>11. Grows(Nat, 0, Step, n, sum)
    BY <1>2, <1>5, <1>10, GrowsByStep
  <1>12. ASSUME NEW k \in 1 .. n PROVE sum[k] = sum[k - 1] + data[k]
    <2>1. k - 1 \in 0 .. n - 1 /\ k - 1 \in 0 .. n /\ (k - 1) + 1 = k
      BY <1>2
    <2>2. sum[k - 1] \in Nat /\ sum[k] = Step[k - 1][sum[k - 1]]
      BY <1>11, <2>1 DEF Grows
    <2> QED
      BY <1>6, <2>1, <2>2
  <1>13. TotalsTo(data, sum)
    BY <1>1, <1>11, <1>12 DEF TotalsTo, Grows, n
  <1> QED
    BY <1>13

\* Wrapping the carry round takes away 255.
LEMMA CarryIsModulo ==
    ASSUME NEW data \in Seq(0 .. 255)
    PROVE  /\ carrySum(data) \in 0 .. 255 /\ Total(data) \in Nat
           /\ (Total(data) - carrySum(data)) % 255 = 0
  <1> DEFINE n == Len(data)
  <1>1. PICK g : CarriesTo(data, g)
    BY CarrySumRecursion
  <1>2. PICK h : TotalsTo(data, h)
    BY TotalRecursion
  <1>3. n \in Nat
    OBVIOUS
  <1> DEFINE S == {k \in Nat : k <= n => (h[k] - g[k]) % 255 = 0}
  <1>4. 0 \in S
    BY <1>1, <1>2 DEF CarriesTo, TotalsTo
  <1>5. ASSUME NEW k \in Nat, k \in S PROVE k + 1 \in S
    <2>1. SUFFICES ASSUME k + 1 <= n PROVE (h[k + 1] - g[k + 1]) % 255 = 0
      OBVIOUS
    <2> DEFINE x == g[k]
               y == h[k]
               b == data[k + 1]
    <2>2. /\ k \in 0 .. n /\ k + 1 \in 1 .. n /\ (k + 1) - 1 = k
      BY <1>3, <2>1
    <2>3. b \in 0 .. 255
      BY <2>2, ElementOfSeq
    <2>4. x \in 0 .. 255 /\ g[k + 1] = addWithCarry(x, b)
      BY <1>1, <2>2 DEF CarriesTo
    <2>5. y \in Nat /\ h[k + 1] = y + b
      BY <1>2, <2>2 DEF TotalsTo
    <2>6. (y - x) % 255 = 0
      BY <1>5, <2>2
    <2> HIDE DEF x, y, b
    <2>7. CASE x + b > 255
      BY <2>3, <2>4, <2>5, <2>6, <2>7 DEF addWithCarry
    <2>8. CASE ~(x + b > 255)
      BY <2>3, <2>4, <2>5, <2>6, <2>8 DEF addWithCarry
    <2> QED
      BY <2>7, <2>8
  <1> HIDE DEF S
  <1>6. \A k \in Nat : k \in S
    BY <1>4, <1>5, NatInduct
  <1>7. (h[n] - g[n]) % 255 = 0
    BY <1>3, <1>6 DEF S
  <1>8. carrySum(data) = g[n] /\ g[n] \in 0 .. 255
    <2>1. g \in [0 .. n -> 0 .. 255] /\ n \in 0 .. n
      BY <1>1, <1>3 DEF CarriesTo
    <2>2. carrySum(data) = g[n]
      BY <1>1 DEF CarriesTo
    <2> QED
      BY <2>1, <2>2
  <1>9. Total(data) = h[n] /\ h[n] \in Nat
    BY <1>2, <1>3 DEF TotalsTo
  <1> QED
    BY <1>7, <1>8, <1>9

\* Changing a byte changes the total by as much.
LEMMA TotalExcept ==
    ASSUME NEW data \in Seq(0 .. 255), NEW p \in 1 .. Len(data), NEW v \in 0 .. 255
    PROVE  Total([data EXCEPT ![p] = v]) = Total(data) + (v - data[p])
  <1> DEFINE n == Len(data)
             changed == [data EXCEPT ![p] = v]
             old == data[p]
             d == v - old
  <1>1. changed \in Seq(0 .. 255) /\ Len(changed) = n /\ n \in Nat
    OBVIOUS
  <1>2. /\ changed[p] = v
        /\ \A k \in 1 .. n : k # p => changed[k] = data[k]
    OBVIOUS
  <1>3. old \in 0 .. 255
    BY ElementOfSeq
  <1> HIDE DEF changed, old
  <1>3a. d \in Int /\ v = old + d
    BY <1>3
  <1> HIDE DEF d
  <1>4. PICK h : TotalsTo(data, h)
    BY TotalRecursion
  <1>5. PICK c : TotalsTo(changed, c)
    BY <1>1, TotalRecursion
  <1> DEFINE S == {k \in Nat : k <= n =>
                     c[k] = h[k] + (IF p <= k THEN d ELSE 0)}
  <1>6. 0 \in S
    BY <1>4, <1>5 DEF TotalsTo
  <1>7. ASSUME NEW k \in Nat, k \in S PROVE k + 1 \in S
    <2>1. SUFFICES ASSUME k + 1 <= n
                   PROVE  c[k + 1] = h[k + 1] + (IF p <= k + 1 THEN d ELSE 0)
      OBVIOUS
    <2>2. k \in 0 .. n /\ k + 1 \in 1 .. n /\ (k + 1) - 1 = k
      BY <1>1, <2>1
    <2>3. /\ h[k + 1] = h[k] + data[k + 1] /\ h[k] \in Nat
      BY <1>4, <2>2 DEF TotalsTo
    <2>4. /\ c[k + 1] = c[k] + changed[k + 1] /\ c[k] \in Nat
      BY <1>1, <1>5, <2>2 DEF TotalsTo
    <2>5. c[k] = h[k] + (IF p <= k THEN d ELSE 0)
      BY <1>7, <2>2
    <2> DEFINE e == data[k + 1]
    <2>6. e \in 0 .. 255
      BY <2>2, ElementOfSeq
    <2>7. CASE p = k + 1
      <3>1. e = old /\ changed[k + 1] = v /\ p <= k + 1 /\ ~(p <= k)
        BY <1>2, <2>7 DEF old
      <3>2. c[k + 1] = c[k] + v /\ h[k + 1] = h[k] + e
        BY <2>3, <2>4, <3>1
      <3> HIDE DEF e
      <3>3. c[k] = h[k]
        BY <2>3, <2>5, <3>1
      <3>4. c[k + 1] = h[k + 1] + d
        BY <1>3, <1>3a, <2>3, <3>1, <3>2, <3>3
      <3> QED
        BY <3>1, <3>4
    <2>8. CASE p # k + 1
      <3>1. changed[k + 1] = e /\ (p <= k + 1 <=> p <= k)
        BY <1>2, <2>2, <2>8
      <3>2. c[k + 1] = c[k] + e /\ h[k + 1] = h[k] + e
        BY <2>3, <2>4, <3>1
      <3> HIDE DEF e
      <3>3. e \in Nat
        BY <2>6
      <3>4. CASE p <= k
        BY <1>3a, <2>3, <2>5, <3>1, <3>2, <3>3, <3>4
      <3>5. CASE ~(p <= k)
        BY <1>3a, <2>3, <2>5, <3>1, <3>2, <3>3, <3>5
      <3> QED
        BY <3>4, <3>5
    <2> QED
      BY <2>7, <2>8
  <1> HIDE DEF S
  <1>8. \A k \in Nat : k \in S
    BY <1>6, <1>7, NatInduct
  <1>9. c[n] = h[n] + (d)
    BY <1>1, <1>8 DEF S
  <1> QED
    BY <1>1, <1>4, <1>5, <1>9 DEF TotalsTo, changed, d, old

\* An inverted bit changes a byte, by less than the modulus.
LEMMA FlipMoves ==
    ASSUME NEW x \in 0 .. 255, NEW i \in 0 .. 7
    PROVE  Flip(x, i) \in 0 .. 255 /\ Flip(x, i) - x \in (-128 .. 128) \ {0}
  <1>1. i \in {0, 1, 2, 3, 4, 5, 6, 7} /\ x \in Nat
    OBVIOUS
  <1>2. /\ bit(x, 0) = x % 2
        /\ bit(x, 1) = (x \div 2) % 2
        /\ bit(x, 2) = (x \div 4) % 2
        /\ bit(x, 3) = (x \div 8) % 2
        /\ bit(x, 4) = (x \div 16) % 2
        /\ bit(x, 5) = (x \div 32) % 2
        /\ bit(x, 6) = (x \div 64) % 2
        /\ bit(x, 7) = (x \div 128) % 2
    BY <1>1, BitByDivision
  <1>3. /\ Flip(x, 0) = IF bit(x, 0) = 1 THEN x - 1 ELSE x + 1
        /\ Flip(x, 1) = IF bit(x, 1) = 1 THEN x - 2 ELSE x + 2
        /\ Flip(x, 2) = IF bit(x, 2) = 1 THEN x - 4 ELSE x + 4
        /\ Flip(x, 3) = IF bit(x, 3) = 1 THEN x - 8 ELSE x + 8
        /\ Flip(x, 4) = IF bit(x, 4) = 1 THEN x - 16 ELSE x + 16
        /\ Flip(x, 5) = IF bit(x, 5) = 1 THEN x - 32 ELSE x + 32
        /\ Flip(x, 6) = IF bit(x, 6) = 1 THEN x - 64 ELSE x + 64
        /\ Flip(x, 7) = IF bit(x, 7) = 1 THEN x - 128 ELSE x + 128
    BY <1>1, FlipByWeight
  <1>4. CASE i = 0
    <2>1. Flip(x, 0) \in 0 .. 255 /\ Flip(x, 0) - x \in (-128 .. 128) \ {0}
      BY <1>2, <1>3
    <2> QED
      BY <1>4, <2>1
  <1>5. CASE i = 1
    <2>1. Flip(x, 1) \in 0 .. 255 /\ Flip(x, 1) - x \in (-128 .. 128) \ {0}
      BY <1>2, <1>3
    <2> QED
      BY <1>5, <2>1
  <1>6. CASE i = 2
    <2>1. Flip(x, 2) \in 0 .. 255 /\ Flip(x, 2) - x \in (-128 .. 128) \ {0}
      BY <1>2, <1>3
    <2> QED
      BY <1>6, <2>1
  <1>7. CASE i = 3
    <2>1. Flip(x, 3) \in 0 .. 255 /\ Flip(x, 3) - x \in (-128 .. 128) \ {0}
      BY <1>2, <1>3
    <2> QED
      BY <1>7, <2>1
  <1>8. CASE i = 4
    <2>1. Flip(x, 4) \in 0 .. 255 /\ Flip(x, 4) - x \in (-128 .. 128) \ {0}
      BY <1>2, <1>3
    <2> QED
      BY <1>8, <2>1
  <1>9. CASE i = 5
    <2>1. Flip(x, 5) \in 0 .. 255 /\ Flip(x, 5) - x \in (-128 .. 128) \ {0}
      BY <1>2, <1>3
    <2> QED
      BY <1>9, <2>1
  <1>10. CASE i = 6
    <2>1. Flip(x, 6) \in 0 .. 255 /\ Flip(x, 6) - x \in (-128 .. 128) \ {0}
      BY <1>2, <1>3
    <2> QED
      BY <1>10, <2>1
  <1>11. CASE i = 7
    <2>1. Flip(x, 7) \in 0 .. 255 /\ Flip(x, 7) - x \in (-128 .. 128) \ {0}
      BY <1>2, <1>3
    <2> QED
      BY <1>11, <2>1
  <1> QED
    BY <1>1, <1>4, <1>5, <1>6, <1>7, <1>8, <1>9, <1>10, <1>11

\* The checksum fits its payload and none with a bit flipped.
LEMMA FrameVerifies ==
    ASSUME NEW data \in Seq(0 .. 255)
    PROVE  /\ Verifies(data, checksum(data))
           /\ \A k \in DOMAIN data : \A i \in 0 .. 7 :
                 ~Verifies([data EXCEPT ![k] = Flip(@, i)], checksum(data))
  <1> DEFINE T == Total(data)
             s == carrySum(data)
  <1>1. T \in Nat /\ s \in 0 .. 255 /\ (T - s) % 255 = 0
    BY CarryIsModulo
  <1>2. checksum(data) = 255 - s
    BY DEF checksum
  <1> HIDE DEF T, s
  <1>3. (T + (255 - s)) % 255 = 0
    BY <1>1
  <1>4. ASSUME NEW k \in DOMAIN data, NEW i \in 0 .. 7
        PROVE  ~Verifies([data EXCEPT ![k] = Flip(@, i)], checksum(data))
    <2> DEFINE x == data[k]
               y == Flip(x, i)
               flipped == [data EXCEPT ![k] = y]
    <2>1. k \in 1 .. Len(data)
      OBVIOUS
    <2>2. x \in 0 .. 255
      BY <2>1, ElementOfSeq
    <2> HIDE DEF x
    <2>3. y \in 0 .. 255 /\ y - x \in (-128 .. 128) \ {0}
      BY <2>2, FlipMoves
    <2> HIDE DEF y
    <2>4. Total(flipped) = T + (y - x)
      BY <2>1, <2>3, TotalExcept DEF T, x
    <2> HIDE DEF flipped
    <2>5. (Total(flipped) + (255 - s)) % 255 # 0
      <3> DEFINE z == T + (255 - s)
                 w == y - x
      <3>1. z \in Nat /\ z % 255 = 0 /\ w \in (-128 .. 128) \ {0}
        BY <1>1, <1>3, <2>3
      <3>2. Total(flipped) + (255 - s) = z + w
        BY <1>1, <2>2, <2>3, <2>4
      <3> HIDE DEF z, w
      <3>3. (z + w) % 255 # 0
        BY <3>1
      <3> QED
        BY <3>2, <3>3
    <2> QED
      BY <1>2, <2>5 DEF Verifies, flipped, y, x
  <1> QED
    BY <1>2, <1>3, <1>4 DEF Verifies, T

\* LinFrame::checksum: a receiver accepts the checksum of every frame, and
\* not with one data bit inverted: wrapping the carry round counts modulo 255,
\* which no power of two below 256 is a multiple of.
THEOREM ChecksumsVerify == linSpec => []ChecksumVerifies
  <1>1. (frame # None => frame \in Frames) => ChecksumVerifies
    BY FrameVerifies, LinAssumption DEF LinFrame, ChecksumVerifies
  <1> QED
    BY <1>1, FrameIsBuilt, PTL

-----------------------------------------------------------------------------
(* The flight-control bridge                                               *)

U32 == {v \in Nat : v \div 65536 < 65536}
I16 == {v \in Int : -32768 <= v /\ v <= 32767}

\* What from_state makes of values in their ranges.
TelemetryFrame ==
    [timestamp_ms : U32, speed_cmps : U32, steer_deci_deg : I16,
     autonomy_armed : BOOLEAN, event_code : U16]

\* The bytes of a payload in their places.
Payload(h1, h2, a1, a2, a3, a4, a5, a6, a7, a8, a9, a10, a11, a12, a13) ==
    (<<84, 80, 84, 1>> \o <<h1, h2>>)
    \o (   (<<a1, a2>> \o <<a3, a4>>) \o (<<a5, a6>> \o <<a7, a8>>)
        \o <<a9, a10>> \o <<a11>> \o <<a12, a13>>)

\* What is at each place of an encoded telemetry frame.
LEMMA PayloadBytes ==
    ASSUME NEW h1, NEW h2, NEW a1, NEW a2, NEW a3, NEW a4, NEW a5, NEW a6, NEW a7,
           NEW a8, NEW a9, NEW a10, NEW a11, NEW a12, NEW a13, NEW p,
           p = Payload(h1, h2, a1, a2, a3, a4, a5, a6, a7, a8, a9, a10, a11, a12, a13)
    PROVE  /\ p[7] = a1 /\ p[8] = a2 /\ p[9] = a3 /\ p[10] = a4
           /\ p[11] = a5 /\ p[12] = a6 /\ p[13] = a7 /\ p[14] = a8
           /\ p[15] = a9 /\ p[16] = a10 /\ p[17] = a11 /\ p[18] = a12 /\ p[19] = a13
  BY DEF Payload

\* Two bytes make a word again, and two words a double word.
LEMMA WordFromBytes ==
    ASSUME NEW v \in U16
    PROVE  (v % 256) + 256 * ((v \div 256) % 256) = v
  <1>1. v \in Nat /\ v <= 65535
    BY DEF U16
  <1> QED
    BY <1>1

\* A u32 is its two halves.
LEMMA U32FromWords ==
    ASSUME NEW v \in U32
    PROVE  /\ v % 65536 \in U16
           /\ v \div 65536 \in U16
           /\ (v % 65536) + 65536 * (v \div 65536) = v
  <1>1. v \in Nat /\ v \div 65536 < 65536
    BY DEF U32
  <1> QED
    BY <1>1 DEF U16

\* Low and high byte of a word.
Lo(x) == x % 256
Hi(x) == (x \div 256) % 256

\* A u16 is its two bytes.
LEMMA LoHi ==
    ASSUME NEW x \in U16
    PROVE  Lo(x) + 256 * Hi(x) = x
  BY WordFromBytes DEF Lo, Hi

\* Low and high word of a double word.
LoW(x) == x % 65536
HiW(x) == x \div 65536

\* A u32 is its two words.
LEMMA LoHiWords ==
    ASSUME NEW v \in U32
    PROVE  LoW(v) \in U16 /\ HiW(v) \in U16 /\ LoW(v) + 65536 * HiW(v) = v
  BY U32FromWords DEF LoW, HiW

\* The reader finds each field of a telemetry frame.
LEMMA ReadBytes ==
    ASSUME NEW t \in U32, NEW v \in U32, NEW s \in U16, NEW armed,
           NEW c \in U16, NEW h1, NEW h2, NEW p,
           p = Payload(h1, h2, Lo(LoW(t)), Hi(LoW(t)), Lo(HiW(t)), Hi(HiW(t)),
                       Lo(LoW(v)), Hi(LoW(v)), Lo(HiW(v)), Hi(HiW(v)),
                       Lo(s), Hi(s), armed, Lo(c), Hi(c))
    PROVE  /\ U16At(p, 6) + 65536 * U16At(p, 8) = t
           /\ U16At(p, 10) + 65536 * U16At(p, 12) = v
           /\ U16At(p, 14) = s
           /\ p[17] = armed
           /\ U16At(p, 17) = c
  <1>1. /\ p[7] = Lo(LoW(t)) /\ p[8] = Hi(LoW(t))
        /\ p[9] = Lo(HiW(t)) /\ p[10] = Hi(HiW(t))
        /\ p[11] = Lo(LoW(v)) /\ p[12] = Hi(LoW(v))
        /\ p[13] = Lo(HiW(v)) /\ p[14] = Hi(HiW(v))
        /\ p[15] = Lo(s) /\ p[16] = Hi(s) /\ p[17] = armed
        /\ p[18] = Lo(c) /\ p[19] = Hi(c)
    BY PayloadBytes
  <1>2. /\ U16At(p, 6) = Lo(LoW(t)) + 256 * Hi(LoW(t))
        /\ U16At(p, 8) = Lo(HiW(t)) + 256 * Hi(HiW(t))
        /\ U16At(p, 10) = Lo(LoW(v)) + 256 * Hi(LoW(v))
        /\ U16At(p, 12) = Lo(HiW(v)) + 256 * Hi(HiW(v))
        /\ U16At(p, 14) = Lo(s) + 256 * Hi(s)
        /\ U16At(p, 17) = Lo(c) + 256 * Hi(c)
    BY <1>1 DEF U16At
  <1>3. LoW(t) \in U16 /\ HiW(t) \in U16 /\ LoW(t) + 65536 * HiW(t) = t
    BY LoHiWords
  <1>4. LoW(v) \in U16 /\ HiW(v) \in U16 /\ LoW(v) + 65536 * HiW(v) = v
    BY LoHiWords
  <1>5. /\ U16At(p, 6) = LoW(t) /\ U16At(p, 8) = HiW(t)
        /\ U16At(p, 10) = LoW(v) /\ U16At(p, 12) = HiW(v)
        /\ U16At(p, 14) = s /\ U16At(p, 17) = c
    BY <1>2, <1>3, <1>4, LoHi
  <1> QED
    BY <1>1, <1>3, <1>4, <1>5

\* Reading a u16 as an i16 undoes the cast.
LEMMA SignIsRestored ==
    ASSUME NEW x \in I16
    PROVE  /\ unsigned(x) \in U16
           /\ (IF unsigned(x) >= 32768 THEN unsigned(x) - 65536 ELSE unsigned(x)) = x
  BY DEF unsigned, U16, I16

Telemetry(t, v, x, armed, c) ==
    [timestamp_ms |-> t, speed_cmps |-> v, steer_deci_deg |-> x,
     autonomy_armed |-> armed, event_code |-> c]

\* to_le_bytes of a u16.
LEMMA Le16Bytes == \A v : le16(v) = <<Lo(v), Hi(v)>>
  BY DEF le16, Lo, Hi

\* to_le_bytes of a u32.
LEMMA Le32Bytes ==
    \A v : le32(v) = <<Lo(LoW(v)), Hi(LoW(v))>> \o <<Lo(HiW(v)), Hi(HiW(v))>>
  <1>1. \A v : le32(v) = le16(LoW(v)) \o le16(HiW(v))
    BY DEF le32, LoW, HiW
  <1> QED
    BY <1>1, Le16Bytes

\* encode_frame writes header and fields in their order.
LEMMA EncodeIsPayload ==
    ASSUME NEW t, NEW v, NEW x, NEW armed, NEW c
    PROVE  encode_frame(Telemetry(t, v, x, armed, c)) =
             Payload(Lo(13), Hi(13),
                     Lo(LoW(t)), Hi(LoW(t)), Lo(HiW(t)), Hi(HiW(t)),
                     Lo(LoW(v)), Hi(LoW(v)), Lo(HiW(v)), Hi(HiW(v)),
                     Lo(unsigned(x)), Hi(unsigned(x)),
                     IF armed THEN 1 ELSE 0, Lo(c), Hi(c))
  <1> DEFINE f == Telemetry(t, v, x, armed, c)
             one == IF armed THEN 1 ELSE 0
  <1>1. /\ f.timestamp_ms = t /\ f.speed_cmps = v /\ f.steer_deci_deg = x
        /\ f.autonomy_armed = armed /\ f.event_code = c
    BY DEF Telemetry
  <1> HIDE DEF f
  <1>2. record(f) = le32(t) \o le32(v) \o le16(unsigned(x)) \o <<one>> \o le16(c)
    BY <1>1, Zenon DEF record
  <1> HIDE DEF one
  <1>3. encode_frame(f) = (<<84, 80, 84, 1>> \o le16(13))
             \o (le32(t) \o le32(v) \o le16(unsigned(x)) \o <<one>> \o le16(c))
    BY <1>2, Zenon DEF encode_frame, Header
  <1>4. le16(13) = <<Lo(13), Hi(13)>>
    BY Le16Bytes, Zenon
  <1>5. le16(c) = <<Lo(c), Hi(c)>>
    BY Le16Bytes, Zenon
  <1>6. le16(unsigned(x)) = <<Lo(unsigned(x)), Hi(unsigned(x))>>
    BY Le16Bytes, Zenon
  <1>7. le32(t) = <<Lo(LoW(t)), Hi(LoW(t))>> \o <<Lo(HiW(t)), Hi(HiW(t))>>
    BY Le32Bytes, Zenon
  <1>8. le32(v) = <<Lo(LoW(v)), Hi(LoW(v))>> \o <<Lo(HiW(v)), Hi(HiW(v))>>
    BY Le32Bytes, Zenon
  <1> QED
    BY <1>3, <1>4, <1>5, <1>6, <1>7, <1>8, Zenon DEF Payload, f, one

\* A decoded frame is the frame that was encoded.
LEMMA TelemetryDecoded ==
    ASSUME NEW t \in U32, NEW v \in U32, NEW x \in I16,
           NEW armed \in BOOLEAN, NEW c \in U16
    PROVE  Decoded(encode_frame(Telemetry(t, v, x, armed, c)))
             = Telemetry(t, v, x, armed, c)
  <1> DEFINE p == encode_frame(Telemetry(t, v, x, armed, c))
             s == unsigned(x)
             one == IF armed THEN 1 ELSE 0
  <1>1. s \in U16 /\ (IF s >= 32768 THEN s - 65536 ELSE s) = x
    BY SignIsRestored
  <1>2. p = Payload(Lo(13), Hi(13),
                    Lo(LoW(t)), Hi(LoW(t)), Lo(HiW(t)), Hi(HiW(t)),
                    Lo(LoW(v)), Hi(LoW(v)), Lo(HiW(v)), Hi(HiW(v)),
                    Lo(s), Hi(s), one, Lo(c), Hi(c))
    BY EncodeIsPayload
  <1>3. (one = 1) = armed
    OBVIOUS
  <1> HIDE DEF p, s, one
  <1>4. /\ U16At(p, 6) + 65536 * U16At(p, 8) = t
        /\ U16At(p, 10) + 65536 * U16At(p, 12) = v
        /\ U16At(p, 14) = s
        /\ p[17] = one
        /\ U16At(p, 17) = c
    BY <1>1, <1>2, ReadBytes
  <1>5. Decoded(p) = Telemetry(t, v, x, armed, c)
    BY <1>1, <1>3, <1>4 DEF Decoded, Telemetry
  <1> QED
    BY <1>5 DEF p

\* What a receiver decodes is what encode_frame was given.
LEMMA DecodedIsEncoded ==
    ASSUME NEW f \in TelemetryFrame
    PROVE  Decoded(encode_frame(f)) = f
  <1>1. /\ f.timestamp_ms \in U32 /\ f.speed_cmps \in U32
        /\ f.steer_deci_deg \in I16
        /\ f.autonomy_armed \in BOOLEAN /\ f.event_code \in U16
    BY DEF TelemetryFrame
  <1>2. f = Telemetry(f.timestamp_ms, f.speed_cmps, f.steer_deci_deg,
                      f.autonomy_armed, f.event_code)
    BY DEF TelemetryFrame, Telemetry
  <1> QED
    BY <1>1, <1>2, TelemetryDecoded

\* What the transport may have accepted.
Wire == {encode_frame(f) : f \in TelemetryFrame}

\* Payloads are of snapshots taken, in order, and the pending snapshot is
\* later than all of them.
BeamInv ==
    /\ snapshots \in Seq(TelemetryFrame)
    /\ Len(snapshots) <= MaxSnapshots
    /\ \A t \in DOMAIN snapshots : snapshots[t].timestamp_ms = t
    /\ link \in Seq(Wire)
    /\ StreamIsFaithful
    /\ pending => /\ Len(snapshots) > 0
                  /\ \A i \in DOMAIN link :
                        Decoded(link[i]).timestamp_ms < Len(snapshots)

\* The invariant of the bridge holds at the start.
LEMMA BeamInitial == beamInit => BeamInv
  <1> SUFFICES ASSUME beamInit PROVE BeamInv
    OBVIOUS
  <1>1. snapshots = <<>> /\ link = <<>> /\ ~pending
    BY DEF beamInit
  <1>2. MaxSnapshots \in Nat
    BY BridgeAssumption
  <1>3. <<>> \in Seq(TelemetryFrame) /\ <<>> \in Seq(Wire)
    OBVIOUS
  <1>4. Len(snapshots) = 0 /\ DOMAIN snapshots = {} /\ DOMAIN link = {}
    BY <1>1
  <1> QED
    BY <1>1, <1>2, <1>3, <1>4 DEF BeamInv, StreamIsFaithful

\* A snapshot keeps the invariant.
LEMMA SnapshotTaken ==
    ASSUME BeamInv, NEW speed \in Speeds, NEW steer \in Steers, NEW code \in Codes,
           snapshot(speed, steer, code)
    PROVE  BeamInv'
  <1> DEFINE n == Len(snapshots)
             f == from_state(n + 1, speed, steer, interlock, code)
  <1>1. /\ n < MaxSnapshots /\ snapshots' = Append(snapshots, f)
        /\ pending' = TRUE /\ link' = link
    BY DEF snapshot
  <1>2. n \in Nat /\ snapshots \in Seq(TelemetryFrame) /\ link \in Seq(Wire)
    BY DEF BeamInv
  <1>3. n + 1 \in U32
    <2>1. MaxSnapshots \in Nat /\ MaxSnapshots \div 65536 < 65536
      BY BridgeAssumption
    <2> HIDE DEF n
    <2> QED
      BY <1>1, <1>2, <2>1 DEF U32
  <1>4. speed \in U32 /\ steer \in I16 /\ code \in U16
    BY BridgeAssumption DEF U32, I16, U16
  <1>5. f \in TelemetryFrame /\ f.timestamp_ms = n + 1
    BY <1>3, <1>4 DEF from_state, TelemetryFrame
  <1> HIDE DEF f
  <1>6. /\ snapshots' \in Seq(TelemetryFrame) /\ Len(snapshots') = n + 1
        /\ DOMAIN snapshots' = 1 .. n + 1 /\ DOMAIN snapshots = 1 .. n
        /\ snapshots'[n + 1] = f
        /\ \A t \in 1 .. n : snapshots'[t] = snapshots[t]
    BY <1>1, <1>2, <1>5
  <1> HIDE DEF n
  <1>7. n + 1 <= MaxSnapshots
    BY <1>1, <1>2, BridgeAssumption
  <1>8. \A t \in DOMAIN snapshots' : snapshots'[t].timestamp_ms = t
    <2> TAKE t \in DOMAIN snapshots'
    <2>1. CASE t = n + 1
      BY <1>5, <1>6, <2>1
    <2>2. CASE t # n + 1
      <3>1. t \in 1 .. n
        BY <1>2, <1>6, <2>2
      <3> QED
        BY <1>6, <3>1 DEF BeamInv
    <2> QED
      BY <2>1, <2>2
  <1>9. ASSUME NEW i \in DOMAIN link
        PROVE  LET g == Decoded(link[i])
               IN  /\ g.timestamp_ms \in DOMAIN snapshots'
                   /\ snapshots'[g.timestamp_ms] = g
                   /\ g.timestamp_ms < n + 1
    <2> DEFINE g == Decoded(link[i])
    <2>1. g.timestamp_ms \in DOMAIN snapshots /\ snapshots[g.timestamp_ms] = g
      BY DEF BeamInv, StreamIsFaithful
    <2> HIDE DEF g
    <2>2. g.timestamp_ms \in 1 .. n
      BY <1>6, <2>1
    <2>3. /\ g.timestamp_ms \in DOMAIN snapshots'
          /\ snapshots'[g.timestamp_ms] = g
          /\ g.timestamp_ms < n + 1
      BY <1>2, <1>6, <2>1, <2>2
    <2> QED
      BY <2>3 DEF g
  <1>10. StreamIsFaithful'
    BY <1>1, <1>9 DEF BeamInv, StreamIsFaithful
  <1>11. pending' => /\ Len(snapshots') > 0
                     /\ \A i \in DOMAIN link' :
                           Decoded(link'[i]).timestamp_ms < Len(snapshots')
    BY <1>1, <1>2, <1>6, <1>9
  <1> QED
    BY <1>1, <1>2, <1>6, <1>7, <1>8, <1>10, <1>11 DEF BeamInv

\* Publishing keeps the invariant.
LEMMA SnapshotPublished ==
    ASSUME BeamInv, NEW outcome \in BeamError \cup {"Ok"}, publish(outcome)
    PROVE  BeamInv'
  <1> DEFINE n == Len(snapshots)
             f == snapshots[n]
             m == Len(link)
  <1>1. pending /\ snapshots' = snapshots
    BY DEF publish
  <1>2. CASE outcome # "Ok"
    <2>1. UNCHANGED <<link, pending>>
      BY <1>2 DEF publish
    <2> QED
      BY <1>1, <2>1 DEF BeamInv, StreamIsFaithful
  <1>3. CASE outcome = "Ok"
    <2>1. link' = Append(link, encode_frame(f)) /\ pending' = FALSE
      BY <1>3 DEF publish
    <2>2. /\ snapshots \in Seq(TelemetryFrame) /\ link \in Seq(Wire)
          /\ n \in Nat /\ n > 0 /\ m \in Nat
      BY <1>1 DEF BeamInv
    <2>3. n \in DOMAIN snapshots /\ f \in TelemetryFrame /\ f.timestamp_ms = n
      <3>1. n \in 1 .. Len(snapshots) /\ DOMAIN snapshots = 1 .. Len(snapshots)
        BY <2>2
      <3>2. f \in TelemetryFrame
        BY <2>2, <3>1, ElementOfSeq
      <3> QED
        BY <3>1, <3>2 DEF BeamInv
    <2> HIDE DEF f, n
    <2>4. encode_frame(f) \in Wire /\ Decoded(encode_frame(f)) = f
      BY <2>3, DecodedIsEncoded DEF Wire
    <2>5. /\ link' \in Seq(Wire) /\ Len(link') = m + 1
          /\ DOMAIN link' = 1 .. m + 1 /\ DOMAIN link = 1 .. m
          /\ link'[m + 1] = encode_frame(f)
          /\ \A i \in 1 .. m : link'[i] = link[i]
      BY <2>1, <2>2, <2>4
    <2> HIDE DEF m
    <2>6. ASSUME NEW i \in 1 .. m
          PROVE  /\ Decoded(link'[i]).timestamp_ms \in DOMAIN snapshots
                 /\ snapshots[Decoded(link'[i]).timestamp_ms] = Decoded(link'[i])
                 /\ Decoded(link'[i]).timestamp_ms < n
      BY <1>1, <2>5 DEF BeamInv, StreamIsFaithful, n
    <2>7. Decoded(link'[m + 1]) = f /\ snapshots[n] = f
      BY <2>4, <2>5 DEF f
    <2>8. \A i \in DOMAIN link' :
             /\ Decoded(link'[i]).timestamp_ms \in DOMAIN snapshots
             /\ snapshots[Decoded(link'[i]).timestamp_ms] = Decoded(link'[i])
      <3> TAKE i \in DOMAIN link'
      <3>1. CASE i = m + 1
        BY <2>3, <2>7, <3>1
      <3>2. CASE i # m + 1
        <4>1. i \in 1 .. m
          BY <2>2, <2>5, <3>2
        <4> QED
          BY <2>6, <4>1
      <3> QED
        BY <3>1, <3>2
    <2>9. ASSUME NEW i \in DOMAIN link', NEW j \in DOMAIN link', i < j
          PROVE  Decoded(link'[i]).timestamp_ms < Decoded(link'[j]).timestamp_ms
      <3>1. i \in 1 .. m
        BY <2>2, <2>5, <2>9
      <3>2. CASE j = m + 1
        BY <2>3, <2>6, <2>7, <3>1, <3>2
      <3>3. CASE j # m + 1
        <4>1. j \in 1 .. m
          BY <2>2, <2>5, <3>3
        <4>2. link'[i] = link[i] /\ link'[j] = link[j]
          BY <2>5, <3>1, <4>1
        <4> QED
          BY <2>5, <2>9, <3>1, <4>1, <4>2 DEF BeamInv, StreamIsFaithful
      <3> QED
        BY <3>2, <3>3
    <2>10. StreamIsFaithful'
      BY <1>1, <2>8, <2>9 DEF StreamIsFaithful
    <2> QED
      BY <1>1, <2>1, <2>5, <2>10 DEF BeamInv
  <1> QED
    BY <1>2, <1>3

\* FlightControlBridge::publish: for every snapshot and whatever the transport
\* answers, an accepted payload decodes to a snapshot that was taken, and
\* payloads come in the order of the snapshots, none twice.
THEOREM StreamFaithful == beamSpec => []StreamIsFaithful
  <1>1. BeamInv /\ [beamNext]_beamvars => BeamInv'
    <2> SUFFICES ASSUME BeamInv, [beamNext]_beamvars PROVE BeamInv'
      OBVIOUS
    <2>1. CASE toggle
      BY <2>1 DEF toggle, BeamInv, StreamIsFaithful
    <2>2. ASSUME NEW speed \in Speeds, NEW steer \in Steers, NEW code \in Codes,
                 snapshot(speed, steer, code)
          PROVE  BeamInv'
      BY <2>2, SnapshotTaken
    <2>3. ASSUME NEW outcome \in BeamError \cup {"Ok"}, publish(outcome)
          PROVE  BeamInv'
      BY <2>3, SnapshotPublished
    <2>4. CASE UNCHANGED beamvars
      BY <2>4 DEF beamvars, BeamInv, StreamIsFaithful
    <2> QED
      BY <2>1, <2>2, <2>3, <2>4 DEF beamNext
  <1>2. BeamInv => StreamIsFaithful
    BY DEF BeamInv
  <1> QED
    BY <1>1, <1>2, BeamInitial, PTL DEF beamSpec

-----------------------------------------------------------------------------
(* Cutting sequences                                                       *)

\* A slice is the sequence that has its elements.
LEMMA SliceIs ==
    ASSUME NEW s \in Seq(Bytes), NEW m \in Nat \ {0}, NEW t \in Seq(Bytes),
           m + Len(t) - 1 <= Len(s),
           \A i \in 1 .. Len(t) : s[m + i - 1] = t[i]
    PROVE  SubSeq(s, m, m + Len(t) - 1) = t
  <1> DEFINE n == m + Len(t) - 1
             u == SubSeq(s, m, n)
  <1>1. n \in Int /\ Len(t) \in Nat /\ n - m + 1 = Len(t) /\ (m <= n <=> Len(t) > 0)
    OBVIOUS
  <1>2. \A i \in m .. n : s[i] \in Bytes
    <2> TAKE i \in m .. n
    <2>1. i \in 1 .. Len(s)
      OBVIOUS
    <2> QED
      BY <2>1, ElementOfSeq
  <1> HIDE DEF n
  <1>3. /\ u \in Seq(Bytes)
        /\ Len(u) = IF m <= n THEN n - m + 1 ELSE 0
        /\ \A i \in 1 .. n - m + 1 : u[i] = s[m + i - 1]
    BY <1>1, <1>2, SubSeqProperties
  <1> HIDE DEF u
  <1>4. Len(u) = Len(t)
    BY <1>1, <1>3
  <1>5. \A i \in 1 .. Len(u) : u[i] = t[i]
    BY <1>1, <1>3, <1>4
  <1>6. u = t
    BY <1>3, <1>4, <1>5, SeqEqual
  <1> QED
    BY <1>6 DEF u, n

\* The two parts of a concatenation.
LEMMA CutConcat ==
    ASSUME NEW S, NEW s \in Seq(S), NEW t \in Seq(S)
    PROVE  /\ SubSeq(s \o t, 1, Len(s)) = s
           /\ SubSeq(s \o t, Len(s) + 1, Len(s \o t)) = t
  <1>1. Len(s) \in Nat /\ Len(t) \in Nat /\ Len(s \o t) = Len(s) + Len(t)
    BY ConcatProperties
  <1>2. SubSeq(s, 1, Len(s)) = s /\ SubSeq(t, 1, Len(t)) = t
    BY SubSeqFull
  <1> QED
    BY <1>1, <1>2, SubSeqOfConcat1, SubSeqOfConcat2

\* A sequence with one element changed.
Replaced(s, k, x) == [s EXCEPT ![k] = x]

\* A change of one element is a change of one element of one part.
LEMMA ExceptConcat ==
    ASSUME NEW s \in Seq(Bytes), NEW t \in Seq(Bytes), NEW x \in Bytes,
           NEW k \in 1 .. Len(s \o t)
    PROVE  IF k <= Len(s)
           THEN k \in 1 .. Len(s)
                /\ Replaced(s \o t, k, x) = Replaced(s, k, x) \o t
           ELSE k - Len(s) \in 1 .. Len(t)
                /\ Replaced(s \o t, k, x) = s \o Replaced(t, k - Len(s), x)
  <1> DEFINE w == s \o t
             v == [w EXCEPT ![k] = x]
  <1>1. /\ w \in Seq(Bytes) /\ Len(w) = Len(s) + Len(t)
        /\ \A i \in 1 .. Len(s) + Len(t) :
              w[i] = IF i <= Len(s) THEN s[i] ELSE t[i - Len(s)]
    BY ConcatProperties
  <1>2. Len(s) \in Nat /\ Len(t) \in Nat
    OBVIOUS
  <1> HIDE DEF w
  <1>3. /\ v \in Seq(Bytes) /\ Len(v) = Len(w)
        /\ \A j \in 1 .. Len(w) : v[j] = IF j = k THEN x ELSE w[j]
    <2>1. k \in 1 .. Len(w)
      BY DEF w
    <2> QED
      BY <1>1, <2>1, ExceptSeq
  <1> HIDE DEF v
  <1>4. CASE k <= Len(s)
    <2> DEFINE r == [s EXCEPT ![k] = x]
               u == r \o t
    <2>1. k \in 1 .. Len(s)
      BY <1>1, <1>2, <1>4 DEF w
    <2>2. /\ r \in Seq(Bytes) /\ Len(r) = Len(s)
          /\ \A j \in 1 .. Len(s) : r[j] = IF j = k THEN x ELSE s[j]
      BY <2>1, ExceptSeq
    <2> HIDE DEF r
    <2>3. /\ u \in Seq(Bytes) /\ Len(u) = Len(r) + Len(t)
          /\ \A i \in 1 .. Len(r) + Len(t) :
                u[i] = IF i <= Len(r) THEN r[i] ELSE t[i - Len(r)]
      BY <2>2, ConcatProperties
    <2> HIDE DEF u
    <2>4. Len(v) = Len(u)
      BY <1>1, <1>3, <2>2, <2>3
    <2>5. ASSUME NEW i \in 1 .. Len(v) PROVE v[i] = u[i]
      <3>1. i \in 1 .. Len(s) + Len(t)
        BY <1>1, <1>3
      <3>2. CASE i <= Len(s)
        <4>1. i \in 1 .. Len(s)
          BY <3>2
        <4>2. u[i] = r[i]
          BY <2>2, <2>3, <3>1, <3>2
        <4> QED
          BY <1>1, <1>3, <2>2, <3>1, <3>2, <4>1, <4>2
      <3>3. CASE ~(i <= Len(s))
        <4>1. i # k
          BY <2>1, <3>3
        <4>2. u[i] = t[i - Len(s)]
          BY <2>2, <2>3, <3>1, <3>3
        <4> QED
          BY <1>1, <1>3, <3>1, <3>3, <4>1, <4>2
      <3> QED
        BY <3>2, <3>3
    <2>6. v = u
      BY <1>3, <2>3, <2>4, <2>5, SeqEqual
    <2> QED
      BY <1>4, <2>1, <2>6 DEF v, w, u, r, Replaced
  <1>5. CASE ~(k <= Len(s))
    <2> DEFINE q == k - Len(s)
               r == [t EXCEPT ![q] = x]
               u == s \o r
    <2>1. q \in 1 .. Len(t) /\ k = Len(s) + q
      BY <1>1, <1>2, <1>5 DEF w
    <2> HIDE DEF q
    <2>2. /\ r \in Seq(Bytes) /\ Len(r) = Len(t)
          /\ \A j \in 1 .. Len(t) : r[j] = IF j = q THEN x ELSE t[j]
      BY <2>1, ExceptSeq
    <2> HIDE DEF r
    <2>3. /\ u \in Seq(Bytes) /\ Len(u) = Len(s) + Len(r)
          /\ \A i \in 1 .. Len(s) + Len(r) :
                u[i] = IF i <= Len(s) THEN s[i] ELSE r[i - Len(s)]
      BY <2>2, ConcatProperties
    <2> HIDE DEF u
    <2>4. Len(v) = Len(u)
      BY <1>1, <1>3, <2>2, <2>3
    <2>5. ASSUME NEW i \in 1 .. Len(v) PROVE v[i] = u[i]
      <3>1. i \in 1 .. Len(s) + Len(t)
        BY <1>1, <1>3
      <3>2. CASE i <= Len(s)
        <4>1. i # k
          BY <1>2, <2>1, <3>2
        <4>2. u[i] = s[i]
          BY <2>2, <2>3, <3>1, <3>2
        <4> QED
          BY <1>1, <1>3, <3>1, <3>2, <4>1, <4>2
      <3>3. CASE ~(i <= Len(s))
        <4>1. i - Len(s) \in 1 .. Len(t) /\ (i - Len(s) = q <=> i = k)
          BY <1>2, <2>1, <3>1, <3>3
        <4>2. u[i] = r[i - Len(s)]
          BY <2>2, <2>3, <3>1, <3>3
        <4>3. r[i - Len(s)] = IF i = k THEN x ELSE t[i - Len(s)]
          BY <2>2, <4>1
        <4> QED
          BY <1>1, <1>3, <3>1, <3>3, <4>2, <4>3
      <3> QED
        BY <3>2, <3>3
    <2>6. v = u
      BY <1>3, <2>3, <2>4, <2>5, SeqEqual
    <2> QED
      BY <1>5, <2>1, <2>6 DEF v, w, u, r, q, Replaced
  <1> QED
    BY <1>4, <1>5

-----------------------------------------------------------------------------
(* The update package                                                      *)

\* Lengths the header has room for.
Length == {n \in Nat : n \div 65536 < 65536}

\* The bytes of a length, and the word four bytes make.
Byte1(n) == n \div 16777216
Byte2(n) == (n \div 65536) % 256
Byte3(n) == (n \div 256) % 256
Byte4(n) == n % 256
FromBytes(b1, b2, b3, b4) == Word(b1 * 256 + b2, b3 * 256 + b4)

\* A length that fits the header is its four bytes.
LEMMA BigEndian ==
    ASSUME NEW n \in Length
    PROVE  /\ Byte1(n) \in Bytes /\ Byte2(n) \in Bytes
           /\ Byte3(n) \in Bytes /\ Byte4(n) \in Bytes
           /\ u32(n) = FromBytes(Byte1(n), Byte2(n), Byte3(n), Byte4(n))
           /\ u32(n) \in [hi : Nat, lo : Nat]
  <1>1. n \in Nat /\ n \div 65536 < 65536
    BY DEF Length
  <1>2. Byte1(n) \in 0 .. 255 /\ Byte2(n) \in 0 .. 255
    BY <1>1 DEF Byte1, Byte2
  <1>3. Byte3(n) \in 0 .. 255 /\ Byte4(n) \in 0 .. 255
    BY <1>1 DEF Byte3, Byte4
  <1>4. Byte1(n) * 256 + Byte2(n) = n \div 65536
    BY <1>1 DEF Byte1, Byte2
  <1>5. Byte3(n) * 256 + Byte4(n) = n % 65536
    BY <1>1 DEF Byte3, Byte4
  <1>6. n \div 65536 \in Nat /\ n % 65536 \in Nat
    BY <1>1
  <1> QED
    BY <1>2, <1>3, <1>4, <1>5, <1>6 DEF Bytes, u32, Word, FromBytes

\* The bytes of a word.
Octet1(w) == w.hi \div 256
Octet2(w) == w.hi % 256
Octet3(w) == w.lo \div 256
Octet4(w) == w.lo % 256

\* The bytes of a word are those it was made of.
LEMMA SameBytes ==
    ASSUME NEW b1 \in Bytes, NEW b2 \in Bytes, NEW b3 \in Bytes, NEW b4 \in Bytes
    PROVE  /\ Octet1(FromBytes(b1, b2, b3, b4)) = b1
           /\ Octet2(FromBytes(b1, b2, b3, b4)) = b2
           /\ Octet3(FromBytes(b1, b2, b3, b4)) = b3
           /\ Octet4(FromBytes(b1, b2, b3, b4)) = b4
  <1>1. \A x \in Bytes : x \in Nat /\ x < 256
    BY DEF Bytes
  <1>2. /\ b1 \in Nat /\ b2 \in Nat /\ b2 < 256
        /\ b3 \in Nat /\ b4 \in Nat /\ b4 < 256
    BY <1>1
  <1>3. (b1 * 256 + b2) \div 256 = b1 /\ (b1 * 256 + b2) % 256 = b2
    BY <1>2
  <1>4. (b3 * 256 + b4) \div 256 = b3 /\ (b3 * 256 + b4) % 256 = b4
    BY <1>2
  <1> QED
    BY <1>3, <1>4 DEF FromBytes, Word, Octet1, Octet2, Octet3, Octet4

\* What a header looks like, byte by byte.
HeaderStart(h, slot, n) ==
    /\ h[1] = 84 /\ h[2] = 80 /\ h[3] = 84 /\ h[4] = 49
    /\ h[5] = OTA_FORMAT_VERSION /\ h[6] = slot
    /\ h[7] = Byte1(n) /\ h[8] = Byte2(n) /\ h[9] = Byte3(n) /\ h[10] = Byte4(n)

\* encode_header writes ten bytes of that shape.
LEMMA HeaderBytes ==
    ASSUME NEW slot, NEW n
    PROVE  /\ Len(encode_header(slot, n)) = HEADER_LEN
           /\ HeaderStart(encode_header(slot, n), slot, n)
  <1> DEFINE h == encode_header(slot, n)
             b1 == Byte1(n)
             b2 == Byte2(n)
             b3 == Byte3(n)
             b4 == Byte4(n)
  <1>1. h = <<84, 80, 84, 49>> \o <<1, slot>> \o <<b1, b2, b3, b4>>
    BY DEF encode_header, be32, OTA_MAGIC, OTA_FORMAT_VERSION, Byte1, Byte2, Byte3, Byte4
  <1> HIDE DEF h, b1, b2, b3, b4
  <1>2. /\ Len(h) = 10
        /\ h[1] = 84 /\ h[2] = 80 /\ h[3] = 84 /\ h[4] = 49
        /\ h[5] = 1 /\ h[6] = slot
        /\ h[7] = b1 /\ h[8] = b2 /\ h[9] = b3 /\ h[10] = b4
    BY <1>1
  <1> QED
    BY <1>2 DEF h, b1, b2, b3, b4, HEADER_LEN, OTA_FORMAT_VERSION, HeaderStart

\* What follows a header does not change its bytes.
LEMMA StartOfConcat ==
    ASSUME NEW h \in Seq(Bytes), NEW t \in Seq(Bytes), NEW slot, NEW n,
           Len(h) = HEADER_LEN, HeaderStart(h, slot, n)
    PROVE  HeaderStart(h \o t, slot, n)
  <1> DEFINE d == h \o t
  <1>1. Len(h) = 10 /\ Len(t) \in Nat
    BY DEF HEADER_LEN
  <1>2. \A i \in 1 .. Len(h) + Len(t) : d[i] = IF i <= Len(h) THEN h[i] ELSE t[i - Len(h)]
    BY ConcatProperties
  <1> HIDE DEF d
  <1>3. \A i \in 1 .. 10 : d[i] = h[i]
    BY <1>1, <1>2
  <1>4. HeaderStart(d, slot, n)
    BY <1>3 DEF HeaderStart
  <1> QED
    BY <1>4 DEF d

\* A header is a sequence of bytes.
LEMMA HeaderIsBytes ==
    ASSUME NEW slot \in Bytes, NEW n \in Length
    PROVE  encode_header(slot, n) \in Seq(Bytes)
  <1>1. 84 \in Bytes /\ 80 \in Bytes /\ 49 \in Bytes /\ 1 \in Bytes
    BY DEF Bytes
  <1>2. OTA_MAGIC \in Seq(Bytes)
    BY <1>1 DEF OTA_MAGIC
  <1>3. <<OTA_FORMAT_VERSION, slot>> \in Seq(Bytes)
    BY <1>1 DEF OTA_FORMAT_VERSION
  <1>4. be32(n) \in Seq(Bytes)
    BY BigEndian DEF be32, Byte1, Byte2, Byte3, Byte4
  <1> QED
    BY <1>2, <1>3, <1>4, ConcatProperties DEF encode_header

\* Header and payload as the tool signs them.
LEMMA SignedBytes ==
    ASSUME NEW slot \in Bytes, NEW payload \in Seq(Bytes), Len(payload) \in Length
    PROVE  LET data == encode_header(slot, Len(payload)) \o payload
           IN  /\ data \in Seq(Bytes)
               /\ Len(data) = HEADER_LEN + Len(payload)
               /\ SubSeq(data, 1, HEADER_LEN) = encode_header(slot, Len(payload))
               /\ SubSeq(data, HEADER_LEN + 1, Len(data)) = payload
  <1> DEFINE h == encode_header(slot, Len(payload))
  <1>1. h \in Seq(Bytes) /\ Len(h) = HEADER_LEN
    BY HeaderIsBytes, HeaderBytes
  <1> HIDE DEF h
  <1>2. h \o payload \in Seq(Bytes) /\ Len(h \o payload) = Len(h) + Len(payload)
    BY <1>1, ConcatProperties
  <1>3. /\ SubSeq(h \o payload, 1, Len(h)) = h
        /\ SubSeq(h \o payload, Len(h) + 1, Len(h \o payload)) = payload
    BY <1>1, CutConcat
  <1> QED
    BY <1>1, <1>2, <1>3 DEF h

\* What judged does once the three parts are cut out.
JudgedParts(d, s) ==
    LET package == decode_header(d)
        payload == SubSeq(d, HEADER_LEN + 1, Len(d))
    IN  IF package = None THEN Refused("None")
        ELSE IF package.payload_len # u32(Len(payload)) THEN Refused("BadPackage")
        ELSE IF Len(payload) > OTA_MAX_PAYLOAD THEN Refused("PayloadTooLarge")
        ELSE IF ~verify(DeviceKey, encode_header(package.slot, Len(payload)) \o payload, s)
        THEN Refused("BadSignature")
        ELSE [slot |-> package.slot, payload |-> payload]

\* judged cuts the file at the signature.
LEMMA JudgedIsJudgedParts ==
    ASSUME NEW d \in Seq(Bytes), NEW s \in Seq(Bytes), Len(d) >= HEADER_LEN,
           Len(s) = OTA_SIGNATURE_LEN
    PROVE  judged(d \o s) = JudgedParts(d, s)
  <1> DEFINE g == d \o s
  <1>1. /\ Len(d) \in Nat /\ Len(s) \in Nat /\ Len(g) = Len(d) + Len(s)
        /\ \A i \in 1 .. Len(d) : g[i] = d[i]
    BY ConcatProperties
  <1>2. SubSeq(g, Len(d) + 1, Len(g)) = s
    BY CutConcat
  <1>3. Len(g) - OTA_SIGNATURE_LEN = Len(d)
    BY <1>1
  <1>4. ASSUME NEW m \in Nat \ {0}, NEW k \in Nat, k <= Len(d)
        PROVE  SubSeq(g, m, k) = SubSeq(d, m, k)
    <2>1. CASE m <= k
      <3>1. m \in 1 .. Len(d) /\ k \in 1 .. Len(d)
        BY <1>1, <1>4, <2>1
      <3> QED
        BY <3>1, SubSeqOfConcat1
    <2>2. CASE ~(m <= k)
      BY <2>2, SubSeqEmpty
    <2> QED
      BY <2>1, <2>2
  <1>5. /\ SubSeq(g, 1, 4) = SubSeq(d, 1, 4) /\ SubSeq(g, 7, 10) = SubSeq(d, 7, 10)
        /\ SubSeq(g, HEADER_LEN + 1, Len(d)) = SubSeq(d, HEADER_LEN + 1, Len(d))
    BY <1>1, <1>4 DEF HEADER_LEN
  <1>6. g[5] = d[5] /\ g[6] = d[6] /\ Len(g) >= HEADER_LEN
    BY <1>1 DEF HEADER_LEN
  <1> HIDE DEF g
  <1>7. decode_header(g) = decode_header(d)
    <2>1. ~(Len(g) < HEADER_LEN) /\ ~(Len(d) < HEADER_LEN)
      BY <1>1, <1>6 DEF HEADER_LEN
    <2> QED
      BY <1>5, <1>6, <2>1, Zenon DEF decode_header
  <1> QED
    BY <1>2, <1>3, <1>5, <1>7 DEF judged, JudgedParts, signedData, g

\* A header that decodes.
LEMMA DecodedHeader ==
    ASSUME NEW d \in Seq(Bytes), Len(d) >= HEADER_LEN
    PROVE  decode_header(d) =
             IF /\ d[1] = 84 /\ d[2] = 80 /\ d[3] = 84 /\ d[4] = 49
                /\ d[5] = OTA_FORMAT_VERSION /\ d[6] <= 1
             THEN [slot |-> d[6], payload_len |-> FromBytes(d[7], d[8], d[9], d[10])]
             ELSE None
  <1>1. Len(d) \in Nat /\ Len(d) >= 10
    BY DEF HEADER_LEN
  <1>2. \A i \in 1 .. Len(d) : d[i] \in Bytes
    BY ElementOfSeq
  <1> DEFINE m == SubSeq(d, 1, 4)
             b == SubSeq(d, 7, 10)
  <1>3. m \in Seq(Bytes) /\ Len(m) = 4 /\ \A i \in 1 .. 4 : m[i] = d[i]
    BY <1>1, <1>2, SubSeqProperties
  <1>4. b \in Seq(Bytes) /\ Len(b) = 4 /\ \A i \in 1 .. 4 : b[i] = d[7 + i - 1]
    BY <1>1, <1>2, SubSeqProperties
  <1> HIDE DEF m, b
  <1>5. b[1] = d[7] /\ b[2] = d[8] /\ b[3] = d[9] /\ b[4] = d[10]
    BY <1>4
  <1>6. m = OTA_MAGIC <=> d[1] = 84 /\ d[2] = 80 /\ d[3] = 84 /\ d[4] = 49
    <2>1. m = <<m[1], m[2], m[3], m[4]>>
      BY <1>3
    <2>2. m[1] = d[1] /\ m[2] = d[2] /\ m[3] = d[3] /\ m[4] = d[4]
      BY <1>3
    <2> QED
      BY <2>1, <2>2 DEF OTA_MAGIC
  <1>7. d[6] \in Nat
    <2>1. d[6] \in Bytes /\ Bytes \subseteq Nat
      BY <1>1, <1>2 DEF Bytes
    <2> QED
      BY <2>1, Zenon
  <1>8. decode_header(d) =
          IF m # OTA_MAGIC \/ d[5] # OTA_FORMAT_VERSION \/ d[6] > 1 THEN None
          ELSE [slot |-> d[6], payload_len |-> from_be(b)]
    BY <1>1 DEF decode_header, HEADER_LEN, m, b
  <1>9. from_be(b) = FromBytes(d[7], d[8], d[9], d[10])
    BY <1>5 DEF from_be, FromBytes
  <1> QED
    BY <1>6, <1>7, <1>8, <1>9

\* A length that matches puts the header together again.
LEMMA HeaderAgain ==
    ASSUME NEW d \in Seq(Bytes), Len(d) >= HEADER_LEN, NEW n \in Length,
           n = Len(d) - HEADER_LEN,
           d[1] = 84, d[2] = 80, d[3] = 84, d[4] = 49, d[5] = OTA_FORMAT_VERSION,
           FromBytes(d[7], d[8], d[9], d[10]) = u32(n)
    PROVE  encode_header(d[6], n) \o SubSeq(d, HEADER_LEN + 1, Len(d)) = d
  <1> DEFINE slot == d[6]
             d7 == d[7]
             d8 == d[8]
             d9 == d[9]
             d10 == d[10]
             h == encode_header(slot, n)
             p == SubSeq(d, HEADER_LEN + 1, Len(d))
             f == SubSeq(d, 1, HEADER_LEN)
  <1>1. Len(d) \in Nat /\ Len(d) >= 10 /\ HEADER_LEN = 10
    BY DEF HEADER_LEN
  <1>2. \A i \in 1 .. 10 : d[i] \in Bytes
    BY <1>1, ElementOfSeq
  <1>3. /\ d7 \in Bytes /\ d8 \in Bytes /\ d9 \in Bytes /\ d10 \in Bytes
        /\ slot \in Bytes
    BY <1>2
  <1>4. FromBytes(d7, d8, d9, d10) = u32(n)
    OBVIOUS
  <1> HIDE DEF slot, d7, d8, d9, d10
  <1>5. h \in Seq(Bytes)
    BY <1>3, HeaderIsBytes
  <1>6. PICK b1 \in Bytes, b2 \in Bytes, b3 \in Bytes, b4 \in Bytes :
           /\ b1 = Byte1(n) /\ b2 = Byte2(n) /\ b3 = Byte3(n) /\ b4 = Byte4(n)
           /\ FromBytes(d7, d8, d9, d10) = FromBytes(b1, b2, b3, b4)
    BY <1>4, BigEndian
  <1>7. d7 = b1 /\ d8 = b2 /\ d9 = b3 /\ d10 = b4
    BY <1>3, <1>6, SameBytes
  <1>8. h = encode_header(slot, n)
    OBVIOUS
  <1> HIDE DEF h
  <1>9. /\ Len(h) = HEADER_LEN
        /\ h[1] = 84 /\ h[2] = 80 /\ h[3] = 84 /\ h[4] = 49
        /\ h[5] = OTA_FORMAT_VERSION /\ h[6] = slot
        /\ h[7] = Byte1(n) /\ h[8] = Byte2(n) /\ h[9] = Byte3(n) /\ h[10] = Byte4(n)
    <2>1. Len(h) = HEADER_LEN /\ HeaderStart(h, slot, n)
      BY <1>8, HeaderBytes
    <2> QED
      BY <2>1 DEF HeaderStart
  <1>10. /\ h[1] = d[1] /\ h[2] = d[2] /\ h[3] = d[3] /\ h[4] = d[4] /\ h[5] = d[5]
         /\ h[6] = d[6] /\ h[7] = d[7] /\ h[8] = d[8] /\ h[9] = d[9] /\ h[10] = d[10]
    BY <1>6, <1>7, <1>9 DEF slot, d7, d8, d9, d10
  <1>11. f \in Seq(Bytes) /\ Len(f) = 10 /\ \A i \in 1 .. 10 : f[i] = d[i]
    BY <1>1, <1>2, SubSeqProperties
  <1> HIDE DEF f
  <1>12. h = f
    <2>1. ASSUME NEW i \in 1 .. 10 PROVE h[i] = f[i]
      <3>1. i \in {1, 2, 3, 4, 5, 6, 7, 8, 9, 10}
        OBVIOUS
      <3> QED
        BY <1>10, <1>11, <3>1
    <2>2. Len(h) = 10
      BY <1>1, <1>9
    <2>3. Len(h) = Len(f) /\ \A i \in 1 .. Len(h) : h[i] = f[i]
      BY <1>11, <2>1, <2>2
    <2> QED
      BY <1>5, <1>11, <2>3, SeqEqual
  <1>13. f \o p = SubSeq(d, 1, Len(d))
    BY <1>1, ConcatAdjacentSubSeq, SMTT(30) DEF f
  <1> QED
    BY <1>8, <1>12, <1>13, SubSeqFull DEF slot

Refusals == {"None", "BadPackage", "PayloadTooLarge", "BadSignature"}

\* Whatever is staged, the signature was accepted for the bytes it came with.
LEMMA StagedIsVerified ==
    ASSUME NEW d \in Seq(Bytes), Len(d) >= HEADER_LEN, Len(d) - HEADER_LEN \in Length,
           NEW s, ~verify(DeviceKey, d, s)
    PROVE  \E why \in Refusals : JudgedParts(d, s) = Refused(why)
  <1> DEFINE package == decode_header(d)
             payload == SubSeq(d, HEADER_LEN + 1, Len(d))
             n == Len(d) - HEADER_LEN
  <1>14. n \in Length
    OBVIOUS
  <1>1. Len(payload) = n
    <2> DEFINE k == Len(d)
               l == Len(payload)
    <2>1. k \in Nat /\ k >= 10
      BY DEF HEADER_LEN
    <2>2. \A i \in 11 .. k : d[i] \in Bytes
      BY <2>1, ElementOfSeq
    <2>3. l = IF 11 <= k THEN k - 11 + 1 ELSE 0
      BY <2>1, <2>2, SubSeqProperties DEF HEADER_LEN
    <2> HIDE DEF k, l
    <2>4. l = k - 10
      BY <2>1, <2>3
    <2> QED
      BY <2>4 DEF HEADER_LEN, k, l
  <1> HIDE DEF package, payload, n
  <1>2. JudgedParts(d, s) =
          IF package = None THEN Refused("None")
          ELSE IF package.payload_len # u32(n) THEN Refused("BadPackage")
          ELSE IF n > OTA_MAX_PAYLOAD THEN Refused("PayloadTooLarge")
          ELSE IF ~verify(DeviceKey, encode_header(package.slot, n) \o payload, s)
          THEN Refused("BadSignature")
          ELSE [slot |-> package.slot, payload |-> payload]
    BY <1>1, Zenon DEF JudgedParts, package, payload
  <1>3. SUFFICES ASSUME package # None, package.payload_len = u32(n)
                 PROVE  ~verify(DeviceKey, encode_header(package.slot, n) \o payload, s)
    <2>1. /\ "None" \in Refusals /\ "BadPackage" \in Refusals
          /\ "PayloadTooLarge" \in Refusals /\ "BadSignature" \in Refusals
      BY DEF Refusals
    <2> QED
      BY <1>2, <2>1
  <1>4. /\ d[1] = 84 /\ d[2] = 80 /\ d[3] = 84 /\ d[4] = 49
        /\ d[5] = OTA_FORMAT_VERSION
        /\ package = [slot |-> d[6],
                      payload_len |-> FromBytes(d[7], d[8], d[9], d[10])]
    BY <1>3, DecodedHeader DEF package
  <1>5. package.slot = d[6] /\ FromBytes(d[7], d[8], d[9], d[10]) = u32(n)
    BY <1>3, <1>4
  <1>6. encode_header(d[6], n) \o payload = d
    BY <1>14, <1>4, <1>5, HeaderAgain DEF payload, n
  <1> QED
    BY <1>5, <1>6

\* A package as the tool wrote it.
LEMMA IntactIsJudged ==
    ASSUME NEW slot \in Bytes, NEW payload \in Seq(Bytes), Len(payload) \in Length,
           NEW s, NEW d, d = encode_header(slot, Len(payload)) \o payload
    PROVE  JudgedParts(d, s) =
             IF slot > 1 THEN Refused("None")
             ELSE IF Len(payload) > OTA_MAX_PAYLOAD THEN Refused("PayloadTooLarge")
             ELSE IF ~verify(DeviceKey, d, s) THEN Refused("BadSignature")
             ELSE [slot |-> slot, payload |-> payload]
  <1> DEFINE n == Len(payload)
             h == encode_header(slot, n)
             package == decode_header(d)
             ok == [slot |-> slot, payload_len |-> u32(n)]
  <1>1. /\ d \in Seq(Bytes) /\ Len(d) = HEADER_LEN + n
        /\ SubSeq(d, HEADER_LEN + 1, Len(d)) = payload
    BY SignedBytes
  <1>2. h \in Seq(Bytes) /\ h = encode_header(slot, n) /\ d = h \o payload
    BY HeaderIsBytes
  <1>6. n \in Nat /\ n \in Length /\ slot \in Nat /\ Len(payload) = n
    BY DEF Bytes
  <1> HIDE DEF h, n, package
  <1>3. Len(h) = HEADER_LEN /\ HeaderStart(h, slot, n)
    BY <1>2, HeaderBytes
  <1>4. HeaderStart(d, slot, n)
    BY <1>2, <1>3, StartOfConcat
  <1>5. /\ d[1] = 84 /\ d[2] = 80 /\ d[3] = 84 /\ d[4] = 49
        /\ d[5] = OTA_FORMAT_VERSION /\ d[6] = slot
        /\ d[7] = Byte1(n) /\ d[8] = Byte2(n) /\ d[9] = Byte3(n) /\ d[10] = Byte4(n)
    BY <1>4 DEF HeaderStart
  <1>7. FromBytes(d[7], d[8], d[9], d[10]) = u32(n)
    BY <1>5, <1>6, BigEndian
  <1>8. package = IF slot <= 1 THEN ok ELSE None
    <2>1. Len(d) >= HEADER_LEN
      BY <1>1, <1>6 DEF HEADER_LEN
    <2> QED
      BY <1>1, <1>5, <1>7, <2>1, DecodedHeader DEF package
  <1>9. ok # None
    <2>1. u32(n) \in [hi : Nat, lo : Nat]
      BY <1>6, BigEndian
    <2>2. ok \in [slot : Bytes, payload_len : [hi : Nat, lo : Nat]]
      BY <2>1
    <2> QED
      BY <2>2, PackageAssumption
  <1>10. d = encode_header(slot, n) \o payload /\ Len(payload) = n
    BY <1>2, <1>6
  <1>11. JudgedParts(d, s) =
          IF package = None THEN Refused("None")
          ELSE IF package.payload_len # u32(n) THEN Refused("BadPackage")
          ELSE IF n > OTA_MAX_PAYLOAD THEN Refused("PayloadTooLarge")
          ELSE IF ~verify(DeviceKey, encode_header(package.slot, n) \o payload, s)
          THEN Refused("BadSignature")
          ELSE [slot |-> package.slot, payload |-> payload]
    BY <1>1, <1>10, Zenon DEF JudgedParts, package
  <1>12. CASE slot > 1
    <2>1. package = None
      BY <1>6, <1>8, <1>12
    <2> QED
      BY <1>11, <1>12, <2>1
  <1>13. CASE ~(slot > 1)
    <2>1. package = ok /\ package # None
      BY <1>6, <1>8, <1>9, <1>13
    <2>2. package.slot = slot /\ package.payload_len = u32(n)
      BY <2>1
    <2> QED
      BY <1>10, <1>11, <1>13, <2>1, <2>2
  <1> QED
    BY <1>12, <1>13

\* What the tool signs, and what one changed byte makes of a package.
Data(payload, slot) == encode_header(slot, Len(payload)) \o payload
Damaged(data, signature) ==
    {d \o signature : d \in OneAltered(data)}
        \cup {data \o s : s \in OneAltered(signature)}

\* A change of a byte keeps a sequence of bytes as long as it is.
LEMMA AlteredIsAsLong ==
    ASSUME NEW bytes \in Seq(Bytes), NEW a \in OneAltered(bytes)
    PROVE  a \in Seq(Bytes) /\ Len(a) = Len(bytes)
  <1>4. PICK k \in DOMAIN bytes :
           \E byte \in altered(bytes[k]) : a = [bytes EXCEPT ![k] = byte]
    BY DEF OneAltered
  <1>1. PICK byte \in altered(bytes[k]) : a = [bytes EXCEPT ![k] = byte]
    BY <1>4
  <1>2. k \in 1 .. Len(bytes) /\ bytes[k] \in Bytes
    BY ElementOfSeq
  <1>3. byte \in Bytes
    BY <1>2, PackageAssumption
  <1> QED
    BY <1>1, <1>2, <1>3, ExceptSeq

\* What damage makes of one byte is an altered sequence.
LEMMA AlteringOne ==
    ASSUME NEW bytes, NEW k \in DOMAIN bytes, NEW byte \in altered(bytes[k])
    PROVE  Replaced(bytes, k, byte) \in OneAltered(bytes)
  <1>1. OneAltered(bytes) =
          UNION {{Replaced(bytes, i, b) : b \in altered(bytes[i])} : i \in DOMAIN bytes}
    BY DEF OneAltered, Replaced
  <1>2. Replaced(bytes, k, byte) \in {Replaced(bytes, k, b) : b \in altered(bytes[k])}
    OBVIOUS
  <1>3. {Replaced(bytes, k, b) : b \in altered(bytes[k])} \in
          {{Replaced(bytes, i, b) : b \in altered(bytes[i])} : i \in DOMAIN bytes}
    OBVIOUS
  <1> QED
    BY <1>1, <1>2, <1>3

\* A byte of the package is a byte of the data or one of the signature.
LEMMA DamageHitsOnePart ==
    ASSUME NEW data \in Seq(Bytes), NEW signature \in Seq(Bytes),
           NEW k \in DOMAIN (data \o signature),
           NEW byte \in altered((data \o signature)[k])
    PROVE  Replaced(data \o signature, k, byte) \in Damaged(data, signature)
  <1> DEFINE f == data \o signature
  <1>1. /\ f \in Seq(Bytes) /\ Len(f) = Len(data) + Len(signature)
        /\ \A i \in 1 .. Len(data) + Len(signature) :
              f[i] = IF i <= Len(data) THEN data[i] ELSE signature[i - Len(data)]
    BY ConcatProperties
  <1>2. Len(data) \in Nat /\ Len(signature) \in Nat
        /\ DOMAIN data = 1 .. Len(data) /\ DOMAIN signature = 1 .. Len(signature)
    OBVIOUS
  <1>3. k \in DOMAIN f /\ byte \in altered(f[k])
    OBVIOUS
  <1> HIDE DEF f
  <1>4. k \in 1 .. Len(f)
    BY <1>1, <1>3
  <1>5. byte \in Bytes
    <2>1. f[k] \in Bytes
      BY <1>1, <1>4, ElementOfSeq
    <2> QED
      BY <1>3, <2>1, PackageAssumption
  <1>6. CASE k <= Len(data)
    <2>1. k \in 1 .. Len(data) /\ Replaced(f, k, byte) = Replaced(data, k, byte) \o signature
      BY <1>4, <1>5, <1>6, ExceptConcat DEF f
    <2>2. f[k] = data[k]
      BY <1>1, <1>2, <1>6, <2>1
    <2>3. Replaced(data, k, byte) \in OneAltered(data)
      BY <1>2, <1>3, <2>1, <2>2, AlteringOne
    <2> QED
      BY <2>1, <2>3 DEF Damaged, f
  <1>7. CASE ~(k <= Len(data))
    <2> DEFINE i == k - Len(data)
    <2>1. i \in 1 .. Len(signature) /\ Replaced(f, k, byte) = data \o Replaced(signature, i, byte)
      <3>1. k \in 1 .. Len(data \o signature)
        BY <1>4 DEF f
      <3>2. IF k <= Len(data)
            THEN k \in 1 .. Len(data)
                 /\ Replaced(data \o signature, k, byte) = Replaced(data, k, byte) \o signature
            ELSE k - Len(data) \in 1 .. Len(signature)
                 /\ Replaced(data \o signature, k, byte)
                       = data \o Replaced(signature, k - Len(data), byte)
        BY <1>5, <3>1, ExceptConcat, Zenon
      <3>3. /\ k - Len(data) \in 1 .. Len(signature)
            /\ Replaced(data \o signature, k, byte)
                  = data \o Replaced(signature, k - Len(data), byte)
        BY <1>7, <3>2, Zenon
      <3> QED
        BY <3>3, Zenon DEF f
    <2>2. f[k] = signature[i]
      BY <1>1, <1>4, <1>7
    <2> HIDE DEF i
    <2>3. Replaced(signature, i, byte) \in OneAltered(signature)
      BY <1>2, <1>3, <2>1, <2>2, AlteringOne
    <2> QED
      BY <2>1, <2>3 DEF Damaged, f
  <1> QED
    BY <1>6, <1>7

\* What the tool writes for one of its calls.
LEMMA ToolWrites ==
    ASSUME NEW payload \in Payloads, NEW slot \in SlotArgs, NEW key \in Keys
    PROVE  LET data == Data(payload, slot)
               signature == sign(key, data)
           IN  /\ slot \in Bytes /\ payload \in Seq(Bytes) /\ Len(payload) \in Length
               /\ data \in Signable /\ data \in Seq(Bytes)
               /\ Len(data) >= HEADER_LEN /\ Len(data) - HEADER_LEN \in Length
               /\ signature \in Seq(Bytes) /\ Len(signature) = OTA_SIGNATURE_LEN
               /\ verify(DeviceKey, data, signature) <=> key = DeviceKey
               /\ \A d \in OneAltered(data) : ~verify(DeviceKey, d, signature)
               /\ \A s \in OneAltered(signature) : ~verify(DeviceKey, data, s)
  <1> DEFINE data == Data(payload, slot)
             n == Len(payload)
             l == Len(data)
  <1>1. slot \in Bytes /\ payload \in Seq(Bytes) /\ n \in Length
    BY PackageAssumption DEF Length
  <1>2. data \in Signable
    BY DEF Data, Signable
  <1>3. data \in Seq(Bytes) /\ l = HEADER_LEN + n
    BY <1>1, SignedBytes DEF Data
  <1>4. n \in Nat
    BY <1>1 DEF Length
  <1> HIDE DEF data, n, l
  <1>5. l >= HEADER_LEN /\ l - HEADER_LEN = n
    BY <1>3, <1>4 DEF HEADER_LEN
  <1>6. LET signature == sign(key, data)
        IN  /\ signature \in Seq(Bytes) /\ Len(signature) = OTA_SIGNATURE_LEN
            /\ verify(DeviceKey, data, signature) <=> key = DeviceKey
            /\ \A d \in OneAltered(data) : ~verify(DeviceKey, d, signature)
            /\ \A s \in OneAltered(signature) : ~verify(DeviceKey, data, s)
    BY <1>2, SignerAssumption, Zenon
  <1> QED
    BY <1>1, <1>2, <1>3, <1>5, <1>6, Zenon DEF data, n, l

\* An undamaged package is judged by its slot, its length and its key.
LEMMA IntactPackage ==
    ASSUME NEW payload \in Payloads, NEW slot \in SlotArgs, NEW key \in Keys
    PROVE  LET data == Data(payload, slot)
           IN  judged(data \o sign(key, data)) =
                 IF slot > 1 THEN Refused("None")
                 ELSE IF Len(payload) > OTA_MAX_PAYLOAD THEN Refused("PayloadTooLarge")
                 ELSE IF key # DeviceKey THEN Refused("BadSignature")
                 ELSE [slot |-> slot, payload |-> payload]
  <1> DEFINE data == Data(payload, slot)
             signature == sign(key, data)
  <1>1. /\ slot \in Bytes /\ payload \in Seq(Bytes) /\ Len(payload) \in Length
        /\ data \in Seq(Bytes) /\ Len(data) >= HEADER_LEN
        /\ signature \in Seq(Bytes) /\ Len(signature) = OTA_SIGNATURE_LEN
        /\ verify(DeviceKey, data, signature) <=> key = DeviceKey
    BY ToolWrites
  <1>2. data = encode_header(slot, Len(payload)) \o payload
    BY DEF Data
  <1> HIDE DEF data, signature
  <1>3. judged(data \o signature) = JudgedParts(data, signature)
    BY <1>1, JudgedIsJudgedParts
  <1>4. JudgedParts(data, signature) =
             IF slot > 1 THEN Refused("None")
             ELSE IF Len(payload) > OTA_MAX_PAYLOAD THEN Refused("PayloadTooLarge")
             ELSE IF ~verify(DeviceKey, data, signature) THEN Refused("BadSignature")
             ELSE [slot |-> slot, payload |-> payload]
    BY <1>1, <1>2, IntactIsJudged
  <1> QED
    BY <1>1, <1>3, <1>4, Zenon DEF data, signature

\* A damaged package is refused, whichever part the damage is in.
LEMMA DamagedPackage ==
    ASSUME NEW payload \in Payloads, NEW slot \in SlotArgs, NEW key \in Keys,
           NEW f \in Damaged(Data(payload, slot), sign(key, Data(payload, slot)))
    PROVE  \E why \in Refusals : judged(f) = Refused(why)
  <1> DEFINE data == Data(payload, slot)
             signature == sign(key, data)
  <1>1. /\ data \in Seq(Bytes)
        /\ Len(data) >= HEADER_LEN /\ Len(data) - HEADER_LEN \in Length
        /\ signature \in Seq(Bytes) /\ Len(signature) = OTA_SIGNATURE_LEN
        /\ \A d \in OneAltered(data) : ~verify(DeviceKey, d, signature)
        /\ \A s \in OneAltered(signature) : ~verify(DeviceKey, data, s)
    BY ToolWrites
  <1>2. f \in Damaged(data, signature)
    OBVIOUS
  <1> HIDE DEF data, signature
  <1>3. CASE \E d \in OneAltered(data) : f = d \o signature
    <2>1. PICK d \in OneAltered(data) : f = d \o signature
      BY <1>3
    <2>2. d \in Seq(Bytes) /\ Len(d) = Len(data) /\ ~verify(DeviceKey, d, signature)
      BY <1>1, AlteredIsAsLong
    <2>3. judged(f) = JudgedParts(d, signature)
      BY <1>1, <2>1, <2>2, JudgedIsJudgedParts
    <2> QED
      BY <1>1, <2>2, <2>3, StagedIsVerified
  <1>4. CASE \E s \in OneAltered(signature) : f = data \o s
    <2>1. PICK s \in OneAltered(signature) : f = data \o s
      BY <1>4
    <2>2. s \in Seq(Bytes) /\ Len(s) = OTA_SIGNATURE_LEN /\ ~verify(DeviceKey, data, s)
      BY <1>1, AlteredIsAsLong
    <2>3. judged(f) = JudgedParts(data, s)
      BY <1>1, <2>1, <2>2, JudgedIsJudgedParts
    <2> QED
      BY <1>1, <2>2, <2>3, StagedIsVerified
  <1> QED
    BY <1>2, <1>3, <1>4 DEF Damaged

\* The file is the package of the call in args, with one byte changed once it is
\* damaged, and the verdict is what the file deserves.
PkgCall(payload, slot, key) ==
    LET data == Data(payload, slot)
        signature == sign(key, data)
    IN  /\ args = [payload |-> payload, slot |-> slot, key |-> key]
        /\ fileDamaged \in BOOLEAN
        /\ ~fileDamaged => file = data \o signature
        /\ fileDamaged => file \in Damaged(data, signature)
        /\ verdict # None => verdict = judged(file)

\* No package is on its way, or the one of some call of the tool is.
PkgInv ==
    \/ pkgInit
    \/ \E payload \in Payloads, slot \in SlotArgs, key \in Keys :
          PkgCall(payload, slot, key)

\* The invariant of the update package.
LEMMA PkgInvariant == pkgSpec => []PkgInv
  <1>1. pkgInit => PkgInv
    BY DEF PkgInv
  <1>2. PkgInv /\ [pkgNext]_pkgvars => PkgInv'
    <2> SUFFICES ASSUME PkgInv, [pkgNext]_pkgvars PROVE PkgInv'
      OBVIOUS
    <2>1. ASSUME NEW payload \in Payloads, NEW slot \in SlotArgs, NEW key \in Keys,
                 cmd_ota_stage(payload, slot, key)
          PROVE  PkgInv'
      <3>1. args = None
        BY <2>1 DEF cmd_ota_stage
      <3>2. pkgInit
        <4>1. ASSUME NEW p \in Payloads, NEW t \in SlotArgs, NEW k \in Keys,
                     PkgCall(p, t, k)
              PROVE  FALSE
          <5>1. args = [payload |-> p, slot |-> t, key |-> k]
            BY <4>1 DEF PkgCall
          <5> QED
            BY <3>1, <5>1, PackageAssumption
        <4> QED
          BY <4>1 DEF PkgInv
      <3>3. /\ args' = [payload |-> payload, slot |-> slot, key |-> key]
            /\ file' = encode_header(slot, Len(payload)) \o payload
                       \o sign(key, encode_header(slot, Len(payload)) \o payload)
            /\ fileDamaged' = fileDamaged /\ verdict' = verdict
        BY <2>1 DEF cmd_ota_stage, signedData
      <3>4. fileDamaged' = FALSE /\ verdict' = None
        BY <3>2, <3>3 DEF pkgInit
      <3>5. PkgCall(payload, slot, key)'
        BY <3>3, <3>4 DEF PkgCall, Data
      <3> QED
        BY <3>5 DEF PkgInv
    <2>2. ASSUME NEW k \in DOMAIN file, NEW byte \in altered(file[k]), damageFile(k, byte)
          PROVE  PkgInv'
      <3>1. /\ file # <<>> /\ ~fileDamaged /\ verdict = None
            /\ file' = [file EXCEPT ![k] = byte] /\ fileDamaged' = TRUE
            /\ args' = args /\ verdict' = verdict
        BY <2>2 DEF damageFile
      <3>2. PICK payload \in Payloads, slot \in SlotArgs, key \in Keys :
               PkgCall(payload, slot, key)
        BY <3>1 DEF PkgInv, pkgInit
      <3> DEFINE data == Data(payload, slot)
                 signature == sign(key, data)
      <3>3. data \in Seq(Bytes) /\ signature \in Seq(Bytes)
        BY ToolWrites
      <3>4. args = [payload |-> payload, slot |-> slot, key |-> key] /\ file = data \o signature
        BY <3>1, <3>2 DEF PkgCall
      <3> HIDE DEF data, signature
      <3>5. file' \in Damaged(data, signature)
        BY <3>1, <3>3, <3>4, DamageHitsOnePart DEF Replaced
      <3>6. PkgCall(payload, slot, key)'
        BY <3>1, <3>4, <3>5 DEF PkgCall, data, signature
      <3> QED
        BY <3>6 DEF PkgInv
    <2>3. CASE deliver
      <3>1. /\ file # <<>> /\ verdict' = judged(file)
            /\ args' = args /\ file' = file /\ fileDamaged' = fileDamaged
        BY <2>3 DEF deliver
      <3>2. PICK payload \in Payloads, slot \in SlotArgs, key \in Keys :
               PkgCall(payload, slot, key)
        BY <3>1 DEF PkgInv, pkgInit
      <3>3. PkgCall(payload, slot, key)'
        BY <3>1, <3>2 DEF PkgCall
      <3> QED
        BY <3>3 DEF PkgInv
    <2>4. CASE forget
      BY <2>4 DEF forget, PkgInv, pkgInit
    <2>5. CASE UNCHANGED pkgvars
      BY <2>5 DEF PkgInv, PkgCall, pkgInit, pkgvars
    <2> QED
      BY <2>1, <2>2, <2>3, <2>4, <2>5 DEF pkgNext
  <1> QED
    BY <1>1, <1>2, PTL DEF pkgSpec

\* A package that arrives as the tool wrote it is staged if the slot exists, the
\* keys agree and the payload is not too long (OtaEngine::stage over the bytes of
\* tpt-cli ota stage).
THEOREM PackageIsStaged == pkgSpec => []PackageArrives
  <1>1. PkgInv => PackageArrives
    <2> SUFFICES ASSUME PkgInv, verdict # None, ~fileDamaged PROVE PackageArrives
      BY DEF PackageArrives
    <2>1. PICK payload \in Payloads, slot \in SlotArgs, key \in Keys :
             PkgCall(payload, slot, key)
      BY DEF PkgInv, pkgInit
    <2>2. /\ args.payload = payload /\ args.slot = slot /\ args.key = key
          /\ verdict = judged(Data(payload, slot) \o sign(key, Data(payload, slot)))
      BY <2>1 DEF PkgCall
    <2>3. verdict =
             IF slot > 1 THEN Refused("None")
             ELSE IF Len(payload) > OTA_MAX_PAYLOAD THEN Refused("PayloadTooLarge")
             ELSE IF key # DeviceKey THEN Refused("BadSignature")
             ELSE [slot |-> slot, payload |-> payload]
      BY <2>2, IntactPackage
    <2>4. slot \in Nat /\ Len(payload) \in Nat /\ OTA_MAX_PAYLOAD \in Nat
      <3>1. slot \in Bytes /\ payload \in Seq(Bytes)
        BY ToolWrites
      <3>2. Bytes \subseteq Nat
        BY DEF Bytes
      <3> QED
        BY <3>1, <3>2, PackageAssumption
    <2> QED
      BY <2>2, <2>3, <2>4 DEF PackageArrives
  <1> QED
    BY <1>1, PkgInvariant, PTL

\* A package with a byte changed in the header, the payload or the signature is
\* never staged: decode_header, the length or the signature gives it away.
THEOREM DamagedIsNotStaged == pkgSpec => []DamagedIsRefused
  <1>1. PkgInv => DamagedIsRefused
    <2> SUFFICES ASSUME PkgInv, verdict # None, fileDamaged PROVE DamagedIsRefused
      BY DEF DamagedIsRefused
    <2>1. PICK payload \in Payloads, slot \in SlotArgs, key \in Keys :
             PkgCall(payload, slot, key)
      BY DEF PkgInv, pkgInit
    <2>2. /\ file \in Damaged(Data(payload, slot), sign(key, Data(payload, slot)))
          /\ verdict = judged(file)
      BY <2>1 DEF PkgCall
    <2>3. \E why \in Refusals : verdict = Refused(why)
      BY <2>2, DamagedPackage
    <2> QED
      BY <2>3 DEF DamagedIsRefused, Refusals
  <1> QED
    BY <1>1, PkgInvariant, PTL

-----------------------------------------------------------------------------
(* SOME/IP                                                                 *)

\* The two bytes of a u16 and back.
Upper(v) == v \div 256
Lower(v) == v % 256

\* A u16 is its two bytes.
LEMMA U16Bytes ==
    ASSUME NEW v \in U16
    PROVE  Upper(v) \in Bytes /\ Lower(v) \in Bytes /\ u16(Upper(v), Lower(v)) = v
  <1>1. v \in Nat /\ v <= 65535
    BY DEF U16
  <1>2. v \div 256 \in 0 .. 255 /\ v % 256 \in 0 .. 255 /\ (v \div 256) * 256 + (v % 256) = v
    BY <1>1
  <1> QED
    BY <1>2 DEF Upper, Lower, Bytes, u16

\* Two bytes make a u16.
LEMMA BytesU16 ==
    ASSUME NEW hi \in Bytes, NEW lo \in Bytes
    PROVE  u16(hi, lo) \in U16
  BY DEF Bytes, U16, u16

\* from_u8 takes back what the code gave a name.
LEMMA CodeReadBack ==
    ASSUME NEW code, \A a, b \in DOMAIN code : code[a] = code[b] => a = b,
           NEW name \in DOMAIN code
    PROVE  from_u8(code, code[name]) = name
  <1> DEFINE back == CHOOSE a \in DOMAIN code : code[a] = code[name]
  <1>1. back \in DOMAIN code /\ code[back] = code[name]
    OBVIOUS
  <1>2. back = name
    BY <1>1
  <1>3. from_u8(code, code[name]) = back
    BY DEF from_u8
  <1> QED
    BY <1>2, <1>3

\* A name from_u8 returns is one of the code.
LEMMA CodeIsKnown ==
    ASSUME NEW code, NEW v, from_u8(code, v) # None
    PROVE  from_u8(code, v) \in DOMAIN code
  <1>1. \E name \in DOMAIN code : code[name] = v
    BY DEF from_u8
  <1> DEFINE back == CHOOSE a \in DOMAIN code : code[a] = v
  <1>2. back \in DOMAIN code
    BY <1>1
  <1>3. from_u8(code, v) = back
    BY <1>1 DEF from_u8
  <1> QED
    BY <1>2, <1>3

\* Every message type has a byte of its own.
LEMMA MessageTypeCode ==
    /\ \A a, b \in DOMAIN MessageType : MessageType[a] = MessageType[b] => a = b
    /\ \A a \in DOMAIN MessageType : MessageType[a] \in Bytes
  BY DEF MessageType, Bytes

\* Every return code has a byte of its own.
LEMMA ReturnCodeCode ==
    /\ \A a, b \in DOMAIN ReturnCode : ReturnCode[a] = ReturnCode[b] => a = b
    /\ \A a \in DOMAIN ReturnCode : ReturnCode[a] \in Bytes
  BY DEF ReturnCode, Bytes

\* The sixteen bytes of a header, two for each u16.
Sixteen(h, v1, v2, v3, v4, v5, version, type, code) ==
    /\ h[1] = Upper(v1) /\ h[2] = Lower(v1) /\ h[3] = Upper(v2) /\ h[4] = Lower(v2)
    /\ h[5] = 0 /\ h[6] = 0 /\ h[7] = Upper(v3) /\ h[8] = Lower(v3)
    /\ h[9] = Upper(v4) /\ h[10] = Lower(v4) /\ h[11] = Upper(v5) /\ h[12] = Lower(v5)
    /\ h[13] = SOMEIP_PROTOCOL_VERSION /\ h[14] = version /\ h[15] = type /\ h[16] = code

\* What the first sixteen bytes of an encoded message are.
Heads(h, m) ==
    Sixteen(h, m.service, m.method, length_field(Len(m.payload)), m.client, m.session,
            m.interface_version, MessageType[m.message_type], ReturnCode[m.return_code])

\* SomeIpHeader::encode writes these sixteen bytes.
LEMMA HeaderHeads ==
    ASSUME NEW m
    PROVE  Len(header(m)) = SOMEIP_HEADER_LEN /\ Heads(header(m), m)
  <1> DEFINE a1 == Upper(m.service)
             a2 == Lower(m.service)
             a3 == Upper(m.method)
             a4 == Lower(m.method)
             a7 == Upper(length_field(Len(m.payload)))
             a8 == Lower(length_field(Len(m.payload)))
             a9 == Upper(m.client)
             a10 == Lower(m.client)
             a11 == Upper(m.session)
             a12 == Lower(m.session)
             a13 == SOMEIP_PROTOCOL_VERSION
             a14 == m.interface_version
             a15 == MessageType[m.message_type]
             a16 == ReturnCode[m.return_code]
             h == header(m)
  <1>1. h = <<a1, a2>> \o <<a3, a4>> \o <<0, 0>> \o <<a7, a8>> \o <<a9, a10>>
            \o <<a11, a12>> \o <<a13, a14, a15, a16>>
    BY Zenon DEF header, be16, Upper, Lower
  <1> HIDE DEF a1, a2, a3, a4, a7, a8, a9, a10, a11, a12, a13, a14, a15, a16, h
  <1>2. Len(h) = 16
    BY <1>1
  <1>3. /\ h[1] = a1 /\ h[2] = a2 /\ h[3] = a3 /\ h[4] = a4
        /\ h[5] = 0 /\ h[6] = 0 /\ h[7] = a7 /\ h[8] = a8
    BY <1>1
  <1>4. /\ h[9] = a9 /\ h[10] = a10 /\ h[11] = a11 /\ h[12] = a12
        /\ h[13] = a13 /\ h[14] = a14 /\ h[15] = a15 /\ h[16] = a16
    BY <1>1
  <1> QED
    BY <1>2, <1>3, <1>4 DEF Heads, Sixteen, SOMEIP_HEADER_LEN, h, a1, a2, a3, a4, a7, a8,
       a9, a10, a11, a12, a13, a14, a15, a16

\* The fields of a message.
LEMMA MessageFields ==
    ASSUME NEW m \in Message
    PROVE  /\ m.service \in U16 /\ m.method \in U16 /\ m.client \in U16 /\ m.session \in U16
           /\ m.interface_version \in Bytes
           /\ m.message_type \in DOMAIN MessageType /\ m.return_code \in DOMAIN ReturnCode
           /\ m.payload \in Seq(Bytes)
           /\ m = [service |-> m.service, method |-> m.method,
                   client |-> m.client, session |-> m.session,
                   interface_version |-> m.interface_version,
                   message_type |-> m.message_type,
                   return_code |-> m.return_code, payload |-> m.payload]
  BY DEF Message, Bytes

\* A length the payload may have fits a length field.
LEMMA LengthFits ==
    ASSUME NEW n \in Nat, n <= SOMEIP_MAX_PAYLOAD
    PROVE  length_field(n) \in U16 /\ length_field(n) = 8 + n
  BY SomeIpAssumption DEF length_field, U16

\* A header is a sequence of bytes.
LEMMA HeaderOfBytes ==
    ASSUME NEW m \in Message, Len(m.payload) <= SOMEIP_MAX_PAYLOAD
    PROVE  header(m) \in Seq(Bytes)
  <1>1. /\ m.service \in U16 /\ m.method \in U16 /\ m.client \in U16 /\ m.session \in U16
        /\ m.interface_version \in Bytes
        /\ m.message_type \in DOMAIN MessageType /\ m.return_code \in DOMAIN ReturnCode
        /\ m.payload \in Seq(Bytes)
    BY MessageFields
  <1>2. length_field(Len(m.payload)) \in U16
    BY <1>1, LengthFits
  <1>3. \A v \in U16 : be16(v) \in Seq(Bytes)
    <2> TAKE v \in U16
    <2>1. Upper(v) \in Bytes /\ Lower(v) \in Bytes
      BY U16Bytes
    <2>2. be16(v) = <<Upper(v), Lower(v)>>
      BY DEF be16, Upper, Lower
    <2> QED
      BY <2>1, <2>2
  <1>4. <<0, 0>> \in Seq(Bytes)
    BY DEF Bytes
  <1> DEFINE version == m.interface_version
             type == MessageType[m.message_type]
             code == ReturnCode[m.return_code]
             protocol == SOMEIP_PROTOCOL_VERSION
  <1>5. protocol \in Bytes /\ version \in Bytes /\ type \in Bytes /\ code \in Bytes
    BY <1>1, MessageTypeCode, ReturnCodeCode DEF SOMEIP_PROTOCOL_VERSION, Bytes
  <1> HIDE DEF version, type, code, protocol
  <1>6. <<protocol, version, type, code>> \in Seq(Bytes)
    BY <1>5
  <1> DEFINE g1 == be16(m.service)
             g2 == be16(m.method)
             g3 == <<0, 0>>
             g4 == be16(length_field(Len(m.payload)))
             g5 == be16(m.client)
             g6 == be16(m.session)
             g7 == <<protocol, version, type, code>>
  <1>7. /\ g1 \in Seq(Bytes) /\ g2 \in Seq(Bytes) /\ g3 \in Seq(Bytes) /\ g4 \in Seq(Bytes)
        /\ g5 \in Seq(Bytes) /\ g6 \in Seq(Bytes) /\ g7 \in Seq(Bytes)
    BY <1>1, <1>2, <1>3, <1>4, <1>6
  <1>8. header(m) = g1 \o g2 \o g3 \o g4 \o g5 \o g6 \o g7
    BY Zenon DEF header, protocol, version, type, code
  <1> HIDE DEF g1, g2, g3, g4, g5, g6, g7
  <1>9. \A s, t \in Seq(Bytes) : s \o t \in Seq(Bytes)
    BY ConcatProperties
  <1> QED
    BY <1>7, <1>8, <1>9

\* An encoded message: the header, the payload behind it, and whatever follows.
Encoding(m, tail) == header(m) \o m.payload \o tail

\* Length and places of an encoded message.
LEMMA Encoded ==
    ASSUME NEW m \in Message, Len(m.payload) <= SOMEIP_MAX_PAYLOAD,
           NEW tail \in Seq(Bytes)
    PROVE  /\ Encoding(m, tail) \in Seq(Bytes)
           /\ Len(Encoding(m, tail)) = total(m) + Len(tail)
           /\ \A i \in 1 .. 16 : Encoding(m, tail)[i] = header(m)[i]
           /\ \A i \in 1 .. Len(m.payload) : Encoding(m, tail)[16 + i] = m.payload[i]
  <1> DEFINE h == header(m)
             p == m.payload
             w == h \o p \o tail
             l == Len(p)
             k == Len(tail)
  <1>1. h \in Seq(Bytes) /\ Len(h) = 16 /\ p \in Seq(Bytes) /\ l \in Nat /\ k \in Nat
    BY HeaderOfBytes, HeaderHeads, MessageFields DEF SOMEIP_HEADER_LEN
  <1> DEFINE q == h \o p
  <1> HIDE DEF h, p
  <1>2. /\ q \in Seq(Bytes) /\ Len(q) = Len(h) + Len(p)
        /\ \A i \in 1 .. Len(h) + Len(p) : q[i] = IF i <= Len(h) THEN h[i] ELSE p[i - Len(h)]
    BY <1>1, ConcatProperties
  <1>10. l = Len(p) /\ k = Len(tail)
    OBVIOUS
  <1> HIDE DEF q, l, k
  <1>3. /\ q \in Seq(Bytes) /\ Len(q) = 16 + l
        /\ \A i \in 1 .. 16 + l : q[i] = IF i <= 16 THEN h[i] ELSE p[i - 16]
    BY <1>1, <1>2, <1>10
  <1>4. /\ q \o tail \in Seq(Bytes) /\ Len(q \o tail) = Len(q) + Len(tail)
        /\ \A i \in 1 .. Len(q) + Len(tail) :
              (q \o tail)[i] = IF i <= Len(q) THEN q[i] ELSE tail[i - Len(q)]
    BY <1>3, ConcatProperties
  <1>5. w = q \o tail
    BY DEF q
  <1> HIDE DEF w
  <1>6. \A i \in 1 .. 16 + l : w[i] = q[i]
    <2> TAKE i \in 1 .. 16 + l
    <2>1. i \in 1 .. Len(q) + Len(tail) /\ i <= Len(q)
      BY <1>1, <1>3, <1>10
    <2> QED
      BY <1>4, <1>5, <2>1
  <1>7. ASSUME NEW i \in 1 .. 16 PROVE w[i] = h[i]
    <2>1. i \in 1 .. 16 + l /\ i <= 16
      BY <1>1
    <2> QED
      BY <1>3, <1>6, <2>1
  <1>8. ASSUME NEW i \in 1 .. l PROVE w[16 + i] = p[i]
    <2>1. 16 + i \in 1 .. 16 + l /\ ~(16 + i <= 16) /\ (16 + i) - 16 = i
      BY <1>1
    <2> QED
      BY <1>3, <1>6, <2>1
  <1>9. w \in Seq(Bytes) /\ Len(w) = 16 + l + k
    BY <1>3, <1>4, <1>5, <1>10
  <1> QED
    BY <1>7, <1>8, <1>9 DEF w, h, p, l, k, total, SOMEIP_HEADER_LEN, Encoding

\* Sequences that agree on sixteen bytes have the same header.
LEMMA SixteenCarry ==
    ASSUME NEW w, NEW h, NEW v1, NEW v2, NEW v3, NEW v4, NEW v5, NEW version, NEW type,
           NEW code, \A i \in 1 .. 16 : w[i] = h[i],
           Sixteen(h, v1, v2, v3, v4, v5, version, type, code)
    PROVE  Sixteen(w, v1, v2, v3, v4, v5, version, type, code)
  BY DEF Sixteen

\* Below twice the modulus a sum wraps at most once.
LEMMA WrapsOnce ==
    ASSUME NEW n \in Nat, n > 0, NEW v \in Nat, v < 2 * n
    PROVE  /\ v < n => v % n = v
           /\ ~(v < n) => v % n = v - n
  <1> DEFINE q == v \div n
             r == v % n
  <1>1. q \in Nat /\ r \in 0 .. n - 1 /\ v = n * q + r
    OBVIOUS
  <1> HIDE DEF q, r
  <1>2. CASE q = 0
    <2>1. v = r /\ v < n
      BY <1>1, <1>2
    <2> QED
      BY <2>1 DEF r
  <1>3. CASE q = 1
    <2>1. r = v - n /\ ~(v < n)
      BY <1>1, <1>3
    <2> QED
      BY <2>1 DEF r
  <1>4. CASE q >= 2
    <2>1. n * q >= 2 * n
      BY <1>1, <1>4
    <2> QED
      BY <1>1, <2>1
  <1> QED
    BY <1>1, <1>2, <1>3, <1>4

\* A header that arrived whole reads as the message it was made of.
LEMMA HeadsDecode ==
    ASSUME NEW m \in Message, Len(m.payload) <= SOMEIP_MAX_PAYLOAD,
           NEW b, Heads(b, m)
    PROVE  /\ headerOk(b) /\ versionOk(b)
           /\ declared_len(b) = 8 + Len(m.payload)
           /\ 16 + Len(m.payload) < UsizeSize
           /\ newMessage(b, m.payload) = m
  <1>1. /\ m.service \in U16 /\ m.method \in U16 /\ m.client \in U16 /\ m.session \in U16
        /\ m.interface_version \in Bytes
        /\ m.message_type \in DOMAIN MessageType /\ m.return_code \in DOMAIN ReturnCode
        /\ m.payload \in Seq(Bytes)
    BY MessageFields
  <1> DEFINE v3 == length_field(Len(m.payload))
             type == MessageType[m.message_type]
             code == ReturnCode[m.return_code]
  <1>2. v3 \in U16 /\ v3 = 8 + Len(m.payload)
    BY <1>1, LengthFits
  <1>3. /\ b[1] = Upper(m.service) /\ b[2] = Lower(m.service)
        /\ b[3] = Upper(m.method) /\ b[4] = Lower(m.method)
        /\ b[5] = 0 /\ b[6] = 0 /\ b[7] = Upper(v3) /\ b[8] = Lower(v3)
        /\ b[9] = Upper(m.client) /\ b[10] = Lower(m.client)
        /\ b[11] = Upper(m.session) /\ b[12] = Lower(m.session)
        /\ b[13] = SOMEIP_PROTOCOL_VERSION /\ b[14] = m.interface_version
        /\ b[15] = type /\ b[16] = code
    BY Zenon DEF Heads, Sixteen
  <1>4. /\ from_u8(MessageType, type) = m.message_type
        /\ from_u8(ReturnCode, code) = m.return_code
    BY <1>1, MessageTypeCode, ReturnCodeCode, CodeReadBack
  <1> HIDE DEF v3, type, code
  <1>5. headerOk(b) /\ versionOk(b)
    <2>1. m.message_type # None /\ m.return_code # None
      BY <1>1, SomeIpAssumption
    <2> QED
      BY <1>3, <1>4, <2>1, Zenon DEF headerOk, versionOk
  <1>6. declared_len(b) = 8 + Len(m.payload)
    <2>1. u16(b[7], b[8]) = v3
      BY <1>2, <1>3, U16Bytes
    <2>2. u16(b[5], b[6]) = 0
      BY <1>3 DEF u16
    <2>3. v3 \in Nat /\ v3 <= 65535
      BY <1>2 DEF U16
    <2>4. declared_len(b) = v3 % UsizeSize
      BY <2>1, <2>2, <2>3 DEF declared_len
    <2>5. v3 % UsizeSize = v3
      BY <2>3, SomeIpAssumption
    <2> QED
      BY <1>2, <2>4, <2>5
  <1>7. newMessage(b, m.payload) = m
    <2>1. /\ u16(b[1], b[2]) = m.service /\ u16(b[3], b[4]) = m.method
          /\ u16(b[9], b[10]) = m.client /\ u16(b[11], b[12]) = m.session
      BY <1>1, <1>3, U16Bytes
    <2>2. ~(Len(m.payload) > SOMEIP_MAX_PAYLOAD)
      BY <1>1, SomeIpAssumption
    <2>3. newMessage(b, m.payload) =
             [service |-> m.service, method |-> m.method,
              client |-> m.client, session |-> m.session,
              interface_version |-> m.interface_version,
              message_type |-> m.message_type,
              return_code |-> m.return_code, payload |-> m.payload]
      BY <1>3, <1>4, <2>1, <2>2 DEF newMessage
    <2> QED
      BY <2>3, MessageFields
  <1>8. 16 + Len(m.payload) < UsizeSize
    <2>1. Len(m.payload) \in Nat
      BY <1>1
    <2> QED
      BY <2>1, SomeIpAssumption
  <1> QED
    BY <1>5, <1>6, <1>7, <1>8

\* The bytes that arrived.
LEMMA Arrived ==
    ASSUME NEW w \in Seq(Bytes), NEW n \in 1 .. Len(w)
    PROVE  /\ SubSeq(w, 1, n) \in Seq(Bytes)
           /\ Len(SubSeq(w, 1, n)) = n
           /\ \A i \in 1 .. n : SubSeq(w, 1, n)[i] = w[i]
  <1>1. n \in Nat /\ n >= 1 /\ \A i \in 1 .. n : w[i] \in Bytes
    BY ElementOfSeq
  <1> QED
    BY <1>1, SubSeqProperties

\* Of an encoded message decode returns nothing until the last byte arrived, and
\* the message from then on.
LEMMA DecodeEncoded ==
    ASSUME NEW m \in Message, Len(m.payload) <= SOMEIP_MAX_PAYLOAD,
           NEW tail \in Seq(Bytes), NEW n \in 1 .. Len(Encoding(m, tail))
    PROVE  decode(SubSeq(Encoding(m, tail), 1, n)) = IF n < total(m) THEN None ELSE m
  <1> DEFINE w == Encoding(m, tail)
             b == SubSeq(w, 1, n)
             h == header(m)
             p == m.payload
             l == Len(p)
  <1>1. /\ w \in Seq(Bytes) /\ Len(w) = total(m) + Len(tail)
        /\ \A i \in 1 .. 16 : w[i] = h[i]
        /\ \A i \in 1 .. l : w[16 + i] = p[i]
    BY Encoded
  <1>2. p \in Seq(Bytes) /\ l \in Nat /\ total(m) = 16 + l /\ n \in Nat /\ Len(w) \in Nat
    <2>1. p \in Seq(Bytes)
      BY MessageFields
    <2>2. l \in Nat
      BY <2>1
    <2>3. total(m) = 16 + l
      BY DEF total, SOMEIP_HEADER_LEN
    <2>4. Len(w) \in Nat
      BY <1>1
    <2>5. n \in Nat
      BY <2>4
    <2> QED
      BY <2>1, <2>2, <2>3, <2>4, <2>5
  <1>3. b \in Seq(Bytes) /\ Len(b) = n /\ \A i \in 1 .. n : b[i] = w[i]
    BY <1>1, Arrived
  <1>4. n \in 1 .. Len(w) /\ l = Len(p)
    OBVIOUS
  <1> HIDE DEF w, b, h, p, l
  <1>5. CASE n < 16
    BY <1>2, <1>3, <1>5 DEF decode, SOMEIP_HEADER_LEN, b, w
  <1>6. CASE ~(n < 16)
    <2>1. \A i \in 1 .. 16 : b[i] = h[i]
      <3> TAKE i \in 1 .. 16
      <3>1. i \in 1 .. n
        BY <1>2, <1>6
      <3> QED
        BY <1>1, <1>3, <3>1
    <2>2. Heads(h, m)
      BY HeaderHeads DEF h
    <2>3. Heads(b, m)
      BY <2>1, <2>2, SixteenCarry DEF Heads
    <2>4. /\ headerOk(b) /\ versionOk(b) /\ declared_len(b) = 8 + l
          /\ 16 + l < UsizeSize /\ newMessage(b, p) = m
      BY <2>3, HeadsDecode DEF l, p
    <2>5. expected_total(b) = total(m)
      <3>1. 16 + (8 + l - 8) = 16 + l /\ 16 + l \in Nat /\ UsizeSize \in Nat
            /\ UsizeSize > 0 /\ 16 + l < 2 * UsizeSize /\ ~(16 + l >= UsizeSize)
        BY <1>2, <2>4, SomeIpAssumption
      <3>2. (16 + l) % UsizeSize = 16 + l
        BY <2>4, <3>1, WrapsOnce
      <3> QED
        BY <1>2, <2>4, <3>1, <3>2 DEF expected_total, usizeAdd, SOMEIP_HEADER_LEN
    <2>9. expected_total(b) # Panic
      BY <1>2, <2>5, SomeIpAssumption
    <2>6. ~(Len(b) < SOMEIP_HEADER_LEN) /\ ~(declared_len(b) < 8)
      BY <1>2, <1>3, <1>6, <2>4 DEF SOMEIP_HEADER_LEN
    <2>7. CASE n < total(m)
      BY <1>3, <2>4, <2>5, <2>6, <2>7, <2>9 DEF decode, b, w
    <2>8. CASE ~(n < total(m))
      <3> DEFINE a == 17
      <3>1. a \in Nat \ {0} /\ a + Len(p) - 1 <= Len(b) /\ a + Len(p) - 1 = total(m)
        BY <1>2, <1>3, <1>4, <2>8
      <3>2. \A i \in 1 .. Len(p) : b[a + i - 1] = p[i]
        <4> TAKE i \in 1 .. Len(p)
        <4>1. 16 + i \in 1 .. n /\ a + i - 1 = 16 + i /\ i \in 1 .. l
          BY <1>2, <1>4, <2>8
        <4> QED
          BY <1>1, <1>3, <4>1
      <3>9. a = 17
        OBVIOUS
      <3> HIDE DEF a
      <3>3. SubSeq(b, a, a + Len(p) - 1) = p
        BY <1>2, <1>3, <3>1, <3>2, SliceIs, Zenon
      <3>4. slice(b, total(m)) = p
        <4>1. total(m) \in SOMEIP_HEADER_LEN .. Len(b)
          BY <1>2, <1>3, <2>8 DEF SOMEIP_HEADER_LEN
        <4>2. SOMEIP_HEADER_LEN + 1 = a
          BY <3>9 DEF SOMEIP_HEADER_LEN
        <4>3. slice(b, total(m)) = SubSeq(b, a, total(m))
          BY <4>1, <4>2, Zenon DEF slice
        <4> QED
          BY <3>1, <3>3, <4>3, Zenon
      <3>5. p # Panic
        BY <1>2, SomeIpAssumption DEF Bytes
      <3>6. ~(Len(b) < expected_total(b))
        BY <1>3, <2>5, <2>8
      <3>7. decode(b) = m
        BY <2>4, <2>5, <2>6, <2>9, <3>4, <3>5, <3>6, Zenon DEF decode, fromSlice
      <3> QED
        BY <2>8, <3>7 DEF b, w
    <2> QED
      BY <2>7, <2>8
  <1> QED
    BY <1>5, <1>6

\* The bytes behind the header of a longer sequence.
LEMMA TailLength ==
    ASSUME NEW b \in Seq(Bytes), NEW e \in Nat, e >= 16, e <= Len(b)
    PROVE  SubSeq(b, 17, e) \in Seq(Bytes) /\ Len(SubSeq(b, 17, e)) = e - 16
  <1> DEFINE q == SubSeq(b, 17, e)
             l == Len(q)
  <1>1. \A i \in 17 .. e : b[i] \in Bytes
    <2> TAKE i \in 17 .. e
    <2>1. i \in 1 .. Len(b)
      OBVIOUS
    <2> QED
      BY <2>1, ElementOfSeq
  <1>2. q \in Seq(Bytes) /\ l = IF 17 <= e THEN e - 17 + 1 ELSE 0
    BY <1>1, SubSeqProperties
  <1> HIDE DEF q, l
  <1>3. l = e - 16
    BY <1>2
  <1> QED
    BY <1>2, <1>3 DEF q, l

\* Whatever arrived, decode looks at no byte behind it, and the message it returns
\* is as long as the header declares; only a sum past usize makes it panic.
LEMMA DecodeStaysInside ==
    ASSUME NEW b \in Seq(Bytes)
    PROVE  /\ decode(b) = Panic => Len(b) >= 16 /\ declared_len(b) + 8 >= UsizeSize
           /\ decode(b) \notin {None, Panic} => /\ Len(b) >= 16
                                                /\ total(decode(b)) <= Len(b)
                                                /\ total(decode(b)) = expected_total(b)
  <1> DEFINE e == expected_total(b)
             p == slice(b, e)
             k == declared_len(b)
  <1>1. Panic # None
    BY SomeIpAssumption
  <1>2. Len(b) \in Nat
    OBVIOUS
  <1>3. SUFFICES ASSUME Len(b) >= 16, headerOk(b), ~(k < 8)
                 PROVE  /\ decode(b) = Panic => k + 8 >= UsizeSize
                        /\ decode(b) \notin {None, Panic} =>
                               /\ total(decode(b)) <= Len(b)
                               /\ total(decode(b)) = e
    BY <1>1, <1>2 DEF decode, SOMEIP_HEADER_LEN
  <1>4. \A i \in 1 .. 16 : b[i] \in Bytes
    BY <1>2, <1>3, ElementOfSeq
  <1>5. k \in Nat /\ k < UsizeSize
    <2> DEFINE x == u16(b[5], b[6])
               y == u16(b[7], b[8])
    <2>1. b[5] \in Bytes /\ b[6] \in Bytes /\ b[7] \in Bytes /\ b[8] \in Bytes
      BY <1>4
    <2>5. x \in U16 /\ y \in U16
      BY <2>1, BytesU16
    <2>2. x \in Nat /\ y \in Nat
      BY <2>5 DEF U16
    <2>3. k = (65536 * x + y) % UsizeSize
      BY DEF declared_len
    <2>6. UsizeSize \in Nat /\ UsizeSize > 0
      BY SomeIpAssumption
    <2> HIDE DEF x, y, k
    <2>7. 65536 * x + y \in Nat
      BY <2>2
    <2>4. \A v \in Nat : v % UsizeSize \in Nat /\ v % UsizeSize < UsizeSize
      BY <2>6
    <2> QED
      BY <2>3, <2>4, <2>7
  <1>6. CASE k + 8 >= UsizeSize
    <2>1. UsizeSize \in Nat /\ UsizeSize >= 65536
      BY SomeIpAssumption
    <2>2. CASE OverflowChecks
      <3>1. e = Panic
        BY <1>3, <1>5, <1>6, <2>1, <2>2 DEF expected_total, usizeAdd, SOMEIP_HEADER_LEN
      <3> QED
        BY <1>6, <1>2, <1>3, <3>1 DEF decode, SOMEIP_HEADER_LEN
    <2>3. CASE ~OverflowChecks
      <3>1. e = (16 + (k - 8)) % UsizeSize
        BY <2>3 DEF expected_total, usizeAdd, SOMEIP_HEADER_LEN
      <3>2. (16 + (k - 8)) % UsizeSize = k + 8 - UsizeSize
        <4> HIDE DEF k
        <4> DEFINE v == 16 + (k - 8)
        <4>1. v = k + 8
          BY <1>5
        <4>2. v \in Nat /\ v < 2 * UsizeSize /\ ~(v < UsizeSize) /\ UsizeSize > 0
          BY <1>5, <1>6, <2>1
        <4> HIDE DEF v
        <4>3. v % UsizeSize = v - UsizeSize
          BY <2>1, <4>2, WrapsOnce
        <4>4. v - UsizeSize = k + 8 - UsizeSize
          BY <1>5, <2>1, <4>1
        <4> QED
          BY <4>3, <4>4, Zenon DEF v
      <3>3. e \in Nat /\ e < 16
        <4> HIDE DEF e, k
        <4> QED
          BY <1>5, <1>6, <2>1, <3>1, <3>2
      <3>4. p = Panic /\ e # Panic
        <4>1. e \notin SOMEIP_HEADER_LEN .. Len(b)
          BY <3>3 DEF SOMEIP_HEADER_LEN
        <4>2. p = Panic
          BY <4>1 DEF slice
        <4> QED
          BY <3>3, <4>2, SomeIpAssumption
      <3>5. decode(b) \in {None, Panic}
        <4>1. ~(Len(b) < SOMEIP_HEADER_LEN)
          BY <1>2, <1>3 DEF SOMEIP_HEADER_LEN
        <4> QED
          BY <1>3, <3>4, <4>1 DEF decode, fromSlice
      <3> QED
        BY <1>6, <3>5
    <2> QED
      BY <2>2, <2>3, SomeIpAssumption
  <1>7. SUFFICES ASSUME ~(k + 8 >= UsizeSize), ~(Len(b) < e), versionOk(b)
                 PROVE  /\ decode(b) # Panic
                        /\ decode(b) # None => /\ total(decode(b)) <= Len(b)
                                               /\ total(decode(b)) = e
    <2>1. CASE ~(k + 8 >= UsizeSize) /\ ~(Len(b) < e) /\ versionOk(b)
      BY <1>7, <2>1
    <2>2. CASE ~(k + 8 >= UsizeSize) /\ (Len(b) < e \/ ~versionOk(b))
      <3>1. e # Panic
        <4>1. e = 16 + (k - 8)
          BY <1>3, <1>5, <2>2, SomeIpAssumption
             DEF expected_total, usizeAdd, SOMEIP_HEADER_LEN
        <4>2. e \in Nat
          BY <1>3, <1>5, <4>1
        <4> QED
          BY <4>2, SomeIpAssumption
      <3>2. decode(b) = None
        BY <1>2, <1>3, <2>2, <3>1 DEF decode, SOMEIP_HEADER_LEN
      <3> QED
        BY <1>1, <3>2
    <2> QED
      BY <1>6, <2>1, <2>2
  <1>12. e = 16 + (k - 8)
    BY <1>3, <1>5, <1>7, SomeIpAssumption DEF expected_total, usizeAdd, SOMEIP_HEADER_LEN
  <1>13. e \in Nat /\ e >= 16 /\ e <= Len(b) /\ e # Panic
    <2> HIDE DEF e, k
    <2>1. e \in Nat /\ e >= 16 /\ e <= Len(b)
      BY <1>2, <1>3, <1>5, <1>7, <1>12
    <2> QED
      BY <2>1, SomeIpAssumption
  <1>14. p \in Seq(Bytes) /\ Len(p) = e - 16
    <2>1. p = SubSeq(b, 17, e)
      BY <1>2, <1>13 DEF slice, SOMEIP_HEADER_LEN
    <2> HIDE DEF e, p
    <2> QED
      BY <1>13, <2>1, TailLength
  <1>8. p # Panic
    BY <1>14, SomeIpAssumption DEF Bytes
  <1>9. decode(b) = newMessage(b, p)
    <2>1. ~(Len(b) < SOMEIP_HEADER_LEN)
      BY <1>2, <1>3 DEF SOMEIP_HEADER_LEN
    <2> QED
      BY <1>3, <1>7, <1>8, <1>13, <2>1 DEF decode, fromSlice
  <1> HIDE DEF e, p, k
  <1>10. CASE Len(p) > SOMEIP_MAX_PAYLOAD
    BY <1>1, <1>9, <1>10 DEF newMessage
  <1>11. CASE ~(Len(p) > SOMEIP_MAX_PAYLOAD)
    <2> DEFINE m == [service |-> u16(b[1], b[2]), method |-> u16(b[3], b[4]),
                     client |-> u16(b[9], b[10]), session |-> u16(b[11], b[12]),
                     interface_version |-> b[14],
                     message_type |-> from_u8(MessageType, b[15]),
                     return_code |-> from_u8(ReturnCode, b[16]),
                     payload |-> p]
    <2>1. decode(b) = m
      BY <1>9, <1>11 DEF newMessage
    <2>2. m \in Message
      <3>1. /\ b[1] \in Bytes /\ b[2] \in Bytes /\ b[3] \in Bytes /\ b[4] \in Bytes
            /\ b[9] \in Bytes /\ b[10] \in Bytes /\ b[11] \in Bytes /\ b[12] \in Bytes
            /\ b[14] \in Bytes
        BY <1>4
      <3>2. /\ u16(b[1], b[2]) \in U16 /\ u16(b[3], b[4]) \in U16
            /\ u16(b[9], b[10]) \in U16 /\ u16(b[11], b[12]) \in U16
        BY <3>1, BytesU16
      <3>3. /\ from_u8(MessageType, b[15]) \in DOMAIN MessageType
            /\ from_u8(ReturnCode, b[16]) \in DOMAIN ReturnCode
        BY <1>3, CodeIsKnown DEF headerOk
      <3> QED
        BY <1>14, <3>1, <3>2, <3>3 DEF Message, Bytes
    <2>3. m.payload = p
      OBVIOUS
    <2> HIDE DEF m
    <2>4. m # Panic
      BY <2>2, SomeIpAssumption
    <2>5. total(m) = e
      BY <1>13, <1>14, <2>3 DEF total, SOMEIP_HEADER_LEN
    <2> QED
      BY <1>13, <2>1, <2>4, <2>5
  <1> QED
    BY <1>10, <1>11

\* Until it is damaged the buffer holds the message last sent and some tail; what
\* was decoded was decoded from the bytes of it that arrived.
SipInv ==
    /\ out \in Seq(Bytes) /\ Len(out) = OutLen
    /\ arrived \in Nat /\ arrived <= OutLen
    /\ arrived = 0 => decoded = None
    /\ arrived > 0 => sent # None /\ decoded = decode(SubSeq(out, 1, arrived))
    /\ sent # None =>
          /\ sent \in Messages
          /\ Len(sent.payload) <= SOMEIP_MAX_PAYLOAD
          /\ total(sent) <= OutLen
          /\ ~headerDamaged => \E tail \in Seq(Bytes) :
                                  out = Encoding(sent, tail)

\* The invariant of the codec holds at the start.
LEMMA SipInitial == sipInit => SipInv
  <1> SUFFICES ASSUME sipInit PROVE SipInv
    OBVIOUS
  <1>1. OutLen \in Nat
    BY SomeIpAssumption
  <1>2. /\ out = [i \in 1 .. OutLen |-> 0] /\ sent = None /\ arrived = 0 /\ decoded = None
    BY DEF sipInit
  <1>3. out \in Seq(Bytes) /\ Len(out) = OutLen
    <2>1. 0 \in Bytes
      BY DEF Bytes
    <2> QED
      BY <1>1, <1>2, <2>1
  <1> QED
    BY <1>1, <1>2, <1>3 DEF SipInv

\* A message that fits, encoded over what was in the buffer.
LEMMA EncodeFits ==
    ASSUME NEW m \in Message, Len(m.payload) <= SOMEIP_MAX_PAYLOAD,
           NEW w \in Seq(Bytes), ~(Len(w) < total(m))
    PROVE  /\ encode(m, w) \in Seq(Bytes) /\ Len(encode(m, w)) = Len(w)
           /\ \E tail \in Seq(Bytes) : encode(m, w) = Encoding(m, tail)
  <1> DEFINE tail == SubSeq(w, total(m) + 1, Len(w))
             t == total(m)
             l == Len(tail)
  <1>1. t \in Nat /\ t >= 16 /\ Len(w) \in Nat /\ t <= Len(w)
    BY MessageFields DEF total, SOMEIP_HEADER_LEN
  <1>2. tail \in Seq(Bytes) /\ l = Len(w) - t
    <2> HIDE DEF t
    <2>1. \A i \in t + 1 .. Len(w) : w[i] \in Bytes
      <3> TAKE i \in t + 1 .. Len(w)
      <3>1. i \in 1 .. Len(w)
        BY <1>1
      <3> QED
        BY <3>1, ElementOfSeq
    <2>2. tail = SubSeq(w, t + 1, Len(w)) /\ l = Len(tail)
      BY DEF t
    <2> HIDE DEF tail, l
    <2>3. tail \in Seq(Bytes)
          /\ l = IF t + 1 <= Len(w) THEN Len(w) - (t + 1) + 1 ELSE 0
      BY <1>1, <2>1, <2>2, SubSeqProperties
    <2> QED
      BY <1>1, <2>3
  <1>3. encode(m, w) = Encoding(m, tail)
    BY DEF encode, Encoding
  <1>4. l = Len(tail) /\ t = total(m)
    OBVIOUS
  <1> HIDE DEF tail, t, l
  <1>5. /\ Encoding(m, tail) \in Seq(Bytes)
        /\ Len(Encoding(m, tail)) = total(m) + Len(tail)
    BY <1>2, Encoded
  <1>6. encode(m, w) \in Seq(Bytes) /\ Len(encode(m, w)) = t + l
    BY <1>3, <1>4, <1>5, Zenon
  <1>7. Len(encode(m, w)) = Len(w)
    BY <1>1, <1>2, <1>6
  <1> QED
    BY <1>2, <1>3, <1>6, <1>7, Zenon

\* The invariant of the codec.
LEMMA SipInvariant == sipSpec => []SipInv
  <1>1. SipInv /\ [sipNext]_sipvars => SipInv'
    <2> SUFFICES ASSUME SipInv, [sipNext]_sipvars PROVE SipInv'
      OBVIOUS
    <2>0. OutLen \in Nat
      BY SomeIpAssumption
    <2>1. ASSUME NEW m \in Messages, sipTransmit(m) PROVE SipInv'
      <3>1. m \in Message /\ Len(m.payload) <= SOMEIP_MAX_PAYLOAD
        BY <2>1, SomeIpAssumption DEF sipTransmit
      <3>2. arrived' = 0 /\ decoded' = None
        BY <2>1 DEF sipTransmit
      <3>3. CASE UNCHANGED <<out, sent, headerDamaged>>
        BY <2>0, <3>2, <3>3 DEF SipInv
      <3>4. CASE ~UNCHANGED <<out, sent, headerDamaged>>
        <4>1. /\ out' = encode(m, out) /\ sent' = m /\ headerDamaged' = FALSE
              /\ encode(m, out) # None
          BY <2>1, <3>4 DEF sipTransmit
        <4>2. ~(Len(out) < total(m))
          BY <4>1 DEF encode
        <4>3. out \in Seq(Bytes) /\ Len(out) = OutLen
          BY DEF SipInv
        <4>4. /\ out' \in Seq(Bytes) /\ Len(out') = OutLen
              /\ \E tail \in Seq(Bytes) : out' = Encoding(m, tail)
          BY <3>1, <4>1, <4>2, <4>3, EncodeFits
        <4>5. total(m) <= OutLen
          <5>1. total(m) \in Nat
            BY <3>1, MessageFields DEF total, SOMEIP_HEADER_LEN
          <5> QED
            BY <2>0, <4>2, <4>3, <5>1
        <4> QED
          BY <2>0, <3>1, <3>2, <4>1, <4>4, <4>5 DEF SipInv
      <3> QED
        BY <3>3, <3>4
    <2>2. ASSUME NEW d \in Damages, damageHeader(d) PROVE SipInv'
      <3>1. /\ sent # None /\ out' = [out EXCEPT ![d[1]] = d[2]] /\ headerDamaged' = TRUE
            /\ arrived' = 0 /\ decoded' = None /\ sent' = sent
        BY <2>2 DEF damageHeader
      <3>2. d[1] \in 1 .. 16 /\ d[2] \in Bytes
        BY SomeIpAssumption DEF SOMEIP_HEADER_LEN, Bytes
      <3>3. /\ out \in Seq(Bytes) /\ Len(out) = OutLen
            /\ sent \in Messages /\ Len(sent.payload) <= SOMEIP_MAX_PAYLOAD
            /\ total(sent) <= OutLen
        BY <3>1 DEF SipInv
      <3>4. d[1] \in 1 .. Len(out)
        <4>1. Len(sent.payload) \in Nat
          BY <3>3, SomeIpAssumption, MessageFields
        <4>2. OutLen >= 16
          BY <2>0, <3>3, <4>1 DEF total, SOMEIP_HEADER_LEN
        <4> QED
          BY <2>0, <3>2, <3>3, <4>2
      <3>5. out' \in Seq(Bytes) /\ Len(out') = OutLen
        BY <3>1, <3>2, <3>3, <3>4, ExceptSeq
      <3> QED
        BY <2>0, <3>1, <3>3, <3>5 DEF SipInv
    <2>3. ASSUME NEW n \in 1 .. OutLen, sipReceive(n) PROVE SipInv'
      <3>1. /\ sent # None /\ arrived' = n /\ decoded' = decode(SubSeq(out, 1, n))
            /\ out' = out /\ sent' = sent /\ headerDamaged' = headerDamaged
        BY <2>3 DEF sipReceive
      <3>2. n \in Nat /\ n <= OutLen /\ n # 0
        BY <2>0
      <3> QED
        BY <3>1, <3>2 DEF SipInv
    <2>4. CASE UNCHANGED sipvars
      BY <2>4 DEF SipInv, sipvars
    <2> QED
      BY <2>1, <2>2, <2>3, <2>4 DEF sipNext
  <1> QED
    BY <1>1, SipInitial, PTL DEF sipSpec

\* The receiver decodes exactly the message last sent, whatever an earlier message
\* left behind it, and nothing while a byte of it is missing (SomeIpMessage::encode
\* and decode).
THEOREM MessageDecoded == sipSpec => []DecodesWhatWasSent
  <1>1. SipInv => DecodesWhatWasSent
    <2> SUFFICES ASSUME SipInv, arrived > 0, ~headerDamaged
                 PROVE  decoded = IF arrived < total(sent) THEN None ELSE sent
      BY DEF DecodesWhatWasSent
    <2>1. /\ arrived \in Nat /\ arrived <= OutLen /\ Len(out) = OutLen /\ sent # None
          /\ decoded = decode(SubSeq(out, 1, arrived))
      BY DEF SipInv
    <2>2. sent \in Messages /\ Len(sent.payload) <= SOMEIP_MAX_PAYLOAD
      BY <2>1 DEF SipInv
    <2>3. PICK tail \in Seq(Bytes) : out = Encoding(sent, tail)
      BY <2>1 DEF SipInv
    <2>4. arrived \in 1 .. Len(Encoding(sent, tail))
      BY <2>1, <2>3, SomeIpAssumption
    <2>5. sent \in Message
      BY <2>2, SomeIpAssumption
    <2> QED
      BY <2>1, <2>2, <2>3, <2>4, <2>5, DecodeEncoded
  <1> QED
    BY <1>1, SipInvariant, PTL

\* Whatever a damaged header declares, decode stays inside the bytes that arrived
\* and returns a payload of the declared length; only the eight largest usize lengths
\* make it panic (SomeIpMessage::decode).
THEOREM DamageStaysInside == sipSpec => []DamageIsContained
  <1>1. SipInv => DamageIsContained
    <2> SUFFICES ASSUME SipInv PROVE DamageIsContained
      OBVIOUS
    <2>1. /\ out \in Seq(Bytes) /\ Len(out) = OutLen
          /\ arrived \in Nat /\ arrived <= OutLen /\ OutLen \in Nat
      BY SomeIpAssumption DEF SipInv
    <2>2. CASE arrived = 0
      BY <2>2, SomeIpAssumption DEF SipInv, DamageIsContained
    <2>3. CASE arrived # 0
      <3> DEFINE b == SubSeq(out, 1, arrived)
      <3>1. decoded = decode(b)
        BY <2>1, <2>3 DEF SipInv
      <3>2. arrived \in 1 .. Len(out)
        BY <2>1, <2>3
      <3>3. b \in Seq(Bytes) /\ Len(b) = arrived /\ \A i \in 1 .. arrived : b[i] = out[i]
        BY <2>1, <3>2, Arrived
      <3> HIDE DEF b
      <3>4. /\ decoded = Panic => arrived >= 16 /\ declared_len(b) + 8 >= UsizeSize
            /\ decoded \notin {None, Panic} => /\ arrived >= 16
                                              /\ total(decoded) <= arrived
                                              /\ total(decoded) = expected_total(b)
        BY <3>1, <3>3, DecodeStaysInside
      <3>5. arrived >= 16 => /\ expected_total(b) = expected_total(out)
                             /\ declared_len(b) = declared_len(out)
        <4> SUFFICES ASSUME arrived >= 16
                     PROVE  /\ expected_total(b) = expected_total(out)
                            /\ declared_len(b) = declared_len(out)
          OBVIOUS
        <4>1. b[5] = out[5] /\ b[6] = out[6] /\ b[7] = out[7] /\ b[8] = out[8]
          BY <2>1, <3>3
        <4> QED
          BY <4>1 DEF expected_total, declared_len
      <3> QED
        BY <3>4, <3>5 DEF DamageIsContained
    <2> QED
      BY <2>2, <2>3
  <1> QED
    BY <1>1, SipInvariant, PTL
=============================================================================
