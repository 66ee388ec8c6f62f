------------------------------ MODULE Counting ------------------------------
(***************************************************************************)
(* What several proofs need of natural numbers, remainders, finite sets,   *)
(* lists, and streams of bytes cut into pieces.                            *)
(***************************************************************************)
EXTENDS Integers, Sequences, FiniteSets, Functions, FiniteSetTheorems, WellFoundedInduction, TLAPS

-----------------------------------------------------------------------------
(* The least and the greatest number of a set, and induction over a set.   *)
LEMMA LeastNat ==
  ASSUME NEW S \in SUBSET Nat, S # {}
  PROVE  \E x \in S : \A y \in S : x <= y
  <1>1. PICK x \in S : \A y \in S : ~(<<y, x>> \in OpToRel(<, Nat))
    BY NatLessThanWellFounded, WFMin
  <1>2. \A y \in S : y < x => <<y, x>> \in OpToRel(<, Nat)
    BY DEF OpToRel
  <1>3. \A y \in S : ~(y < x)
    BY <1>1, <1>2
  <1>4. x \in Nat /\ \A y \in S : y \in Nat
    OBVIOUS
  <1> QED BY <1>3, <1>4

LEMMA NatInductive ==
  ASSUME NEW S, 0 \in S, \A n \in Nat : n \in S => n + 1 \in S
  PROVE  Nat \subseteq S
  <1> SUFFICES ASSUME Nat \ S # {} PROVE FALSE
    OBVIOUS
  <1>1. PICK x \in Nat \ S : \A y \in Nat \ S : x <= y
    BY LeastNat
  <1>2. x # 0 /\ x - 1 \in Nat /\ ~(x <= x - 1) /\ (x - 1) + 1 = x
    BY <1>1
  <1>3. x - 1 \in S
    BY <1>1, <1>2
  <1> QED BY <1>1, <1>2, <1>3

LEMMA GreatestNat ==
  ASSUME NEW T, NEW hi \in Nat, T \subseteq 0 .. hi, T # {}
  PROVE  \E m \in T : \A n \in T : n <= m
  <1>1. PICK S : S = {hi - n : n \in T}
    BY Zenon
  <1>2. S \in SUBSET Nat /\ S # {}
    <2>1. \A n \in T : hi - n \in Nat
      OBVIOUS
    <2>2. S \subseteq Nat /\ S # {}
      BY <1>1, <2>1, Zenon
    <2> QED BY <2>2, Zenon
  <1>3. PICK x \in S : \A y \in S : x <= y
    BY <1>2, LeastNat
  <1>4. PICK m \in T : x = hi - m
    BY <1>1, <1>3
  <1>5. ASSUME NEW n \in T PROVE n <= m
    <2>1. hi - m <= hi - n
      BY <1>1, <1>3, <1>4
    <2> QED BY <2>1, <1>4
  <1> QED BY <1>4, <1>5

-----------------------------------------------------------------------------
(* Two finite sets are as large as each other when one numbers the other.  *)
LEMMA Numbered ==
  ASSUME NEW D, NEW N, IsFiniteSet(N), \A d \in D : d.number \in N,
         \A d, e \in D : d.number = e.number => d = e,
         \A n \in N : \E d \in D : d.number = n
  PROVE  IsFiniteSet(D) /\ Cardinality(D) = Cardinality(N)
  <1>1. PICK f : f = [d \in D |-> d.number]
    BY Zenon
  <1>2. f \in Injection(D, N)
    BY <1>1 DEF Injection, IsInjective
  <1>3. f \in Surjection(D, N)
    BY <1>1 DEF Surjection
  <1> QED BY <1>2, <1>3, FS_Injection

-----------------------------------------------------------------------------
(* Division with remainder.                                                *)
LEMMA Division ==
  ASSUME NEW L \in Nat \ {0}, NEW n \in Nat
  PROVE  \E p \in Nat : n = (L * p) + (n % L) /\ n % L \in 0 .. L - 1
  <1>1. n \div L \in Nat /\ n = (L * (n \div L)) + (n % L) /\ n % L \in 0 .. L - 1
    OBVIOUS
  <1> QED BY <1>1

LEMMA Remainder ==
  ASSUME NEW L \in Nat \ {0}, NEW p \in Nat, NEW k \in 0 .. L - 1
  PROVE  ((L * p) + k) % L = k
  OBVIOUS

(* Two numbers with the same remainder are a whole turn apart.             *)
LEMMA TurnApart ==
  ASSUME NEW L \in Nat \ {0}, NEW n \in Nat, NEW m \in Nat, n % L = m % L, n < m
  PROVE  n + L <= m
  <1>1. PICK p \in Nat : n = (L * p) + (n % L) /\ n % L \in 0 .. L - 1
    BY Division, Zenon
  <1>2. PICK q \in Nat : m = (L * q) + (m % L) /\ m % L \in 0 .. L - 1
    BY Division, Zenon
  <1>3. PICK j \in Nat : j = n % L
    BY <1>1
  <1>4. n = (L * p) + j /\ m = (L * q) + j
    BY <1>1, <1>2, <1>3, Zenon
  <1>5. L * p \in Nat /\ L * q \in Nat /\ L * p < L * q
    BY <1>4
  <1>6. p < q
    BY <1>5
  <1>7. (L * p) + L <= L * q
    BY <1>6
  <1> QED BY <1>4, <1>5, <1>7

(* From remainder j, k is the next one after Ahead(j, k, L) numbers.       *)
Ahead(j, k, L) == IF j <= k THEN k - j ELSE (k - j) + L

LEMMA AheadOf ==
  ASSUME NEW L \in Nat \ {0}, NEW k \in 0 .. L - 1, NEW n \in Nat
  PROVE  /\ Ahead(n % L, k, L) \in 0 .. L - 1
         /\ (n + Ahead(n % L, k, L)) % L = k
  <1>1. PICK p \in Nat : n = (L * p) + (n % L) /\ n % L \in 0 .. L - 1
    BY Division, Zenon
  <1>2. PICK j \in 0 .. L - 1 : j = n % L
    BY <1>1
  <1>3. PICK x \in Int : x = L * p
    OBVIOUS
  <1>4. n = x + j
    BY <1>1, <1>2, <1>3, Zenon
  <1>5. Ahead(j, k, L) \in 0 .. L - 1
    BY DEF Ahead
  <1>6. CASE j <= k
    <2>1. n + Ahead(j, k, L) = x + k
      BY <1>4, <1>6 DEF Ahead
    <2>2. (x + k) % L = k
      BY <1>3, Remainder, Zenon
    <2> QED BY <1>2, <1>5, <2>1, <2>2, Zenon
  <1>7. CASE ~(j <= k)
    <2>1. n + Ahead(j, k, L) = (x + L) + k
      BY <1>4, <1>7 DEF Ahead
    <2>2. p + 1 \in Nat /\ L * (p + 1) = x + L
      BY <1>3
    <2>3. ((x + L) + k) % L = k
      BY <2>2, Remainder, Zenon
    <2> QED BY <1>2, <1>5, <2>1, <2>3, Zenon
  <1> QED BY <1>6, <1>7

(* In any interval, two remainders occur equally often to within one: but  *)
(* for its last, each number with the one has the other ahead of it.       *)
Numbers(lo, hi, L, j) == {n \in lo .. hi : n % L = j}

LEMMA Turns ==
  ASSUME NEW L \in Nat \ {0}, NEW lo \in Nat, NEW hi \in Nat, NEW j \in 0 .. L - 1, NEW k \in 0 .. L - 1
  PROVE  Cardinality(Numbers(lo, hi, L, j)) <= Cardinality(Numbers(lo, hi, L, k)) + 1
  <1>1. PICK T, U : T = {n \in lo .. hi : n % L = j} /\ U = {n \in lo .. hi : n % L = k}
    BY Zenon
  <1>0. T = Numbers(lo, hi, L, j) /\ U = Numbers(lo, hi, L, k)
    BY <1>1, Zenon DEF Numbers
  <1>2. T \subseteq lo .. hi /\ U \subseteq lo .. hi /\ \A n \in T : n % L = j
    BY <1>1, Zenon
  <1>3. IsFiniteSet(lo .. hi)
    BY FS_Interval
  <1>4. IsFiniteSet(T) /\ IsFiniteSet(U)
    BY <1>2, <1>3, FS_Subset
  <1>5. Cardinality(T) \in Nat /\ Cardinality(U) \in Nat
    BY <1>4, FS_CardinalityType
  <1>6. CASE T = {}
    <2>1. Cardinality(T) = 0
      BY <1>6, FS_EmptySet
    <2>2. Cardinality(T) <= Cardinality(U) + 1
      BY <1>5, <2>1
    <2> QED BY <1>0, <2>2, Zenon
  <1>7. CASE T # {}
    <2>1. T \subseteq 0 .. hi
      BY <1>2
    <2>2. PICK m \in T : \A n \in T : n <= m
      BY <1>7, <2>1, GreatestNat
    <2>3. PICK a : a = Ahead(j, k, L)
      BY Zenon
    <2>4. ASSUME NEW n \in T \ {m} PROVE n + a \in U
      <3>1. n \in Nat /\ m \in Nat /\ n < m /\ lo <= n /\ m <= hi
        BY <1>2, <2>2
      <3>2. n % L = j /\ m % L = j
        BY <1>2
      <3>3. n + L <= m
        BY <3>1, <3>2, TurnApart
      <3>4. a \in 0 .. L - 1 /\ (n + a) % L = k
        <4>1. Ahead(n % L, k, L) \in 0 .. L - 1 /\ (n + Ahead(n % L, k, L)) % L = k
          BY <3>1, AheadOf
        <4> QED BY <2>3, <3>2, <4>1, Zenon
      <3>5. n + a \in lo .. hi
        BY <3>1, <3>3, <3>4
      <3> QED BY <1>1, <3>4, <3>5, Zenon
    <2>5. a \in Int
      BY <2>3 DEF Ahead
    <2>6. PICK f : f = [n \in T \ {m} |-> n + a]
      BY Zenon
    <2>7. f \in Injection(T \ {m}, U)
      <3>1. \A n, o \in T \ {m} : n + a = o + a => n = o
        BY <1>2, <2>5
      <3> QED BY <2>4, <2>6, <3>1 DEF Injection, IsInjective
    <2>8. Cardinality(T \ {m}) <= Cardinality(U)
      BY <1>4, <2>7, FS_Injection
    <2>9. Cardinality(T \ {m}) = Cardinality(T) - 1
      BY <1>4, <2>2, FS_RemoveElement
    <2>10. Cardinality(T) <= Cardinality(U) + 1
      BY <1>5, <2>8, <2>9
    <2> QED BY <1>0, <2>10, Zenon
  <1> QED BY <1>6, <1>7

-----------------------------------------------------------------------------
(* Two lists without repetition and without common entries, joined.        *)
LEMMA Joined ==
  ASSUME NEW S, NEW p \in Seq(S), NEW q \in Seq(S), IsInjective(p), IsInjective(q), Range(p) \cap Range(q) = {}
  PROVE  p \o q \in Seq(S) /\ IsInjective(p \o q) /\ Range(p \o q) = Range(p) \cup Range(q)
  <1>1. PICK r : r = p \o q
    BY Zenon
  <1>2. PICK k \in Nat, n \in Nat : k = Len(p) /\ n = Len(q) /\ DOMAIN p = 1 .. k /\ DOMAIN q = 1 .. n
    OBVIOUS
  <1>3. /\ r \in Seq(S) /\ DOMAIN r = 1 .. k + n
        /\ \A i \in 1 .. k + n : r[i] = IF i <= k THEN p[i] ELSE q[i - k]
    <2>1. r \in Seq(S) /\ Len(r) = k + n
      BY <1>1, <1>2
    <2>2. \A i \in 1 .. k + n : r[i] = IF i <= k THEN p[i] ELSE q[i - k]
      BY <1>1, <1>2
    <2> QED BY <1>2, <2>1, <2>2
  <1>4. /\ \A i \in 1 .. k : p[i] \in Range(p) /\ i \in 1 .. k + n /\ r[i] = p[i]
        /\ \A i \in 1 .. n : q[i] \in Range(q) /\ k + i \in 1 .. k + n /\ r[k + i] = q[i]
        /\ \A i \in 1 .. k + n : i \in 1 .. k \/ (i - k \in 1 .. n /\ i = k + (i - k))
    <2>1. \A i \in 1 .. k : p[i] \in Range(p)
      BY <1>2, Zenon DEF Range
    <2>2. \A i \in 1 .. n : q[i] \in Range(q)
      BY <1>2, Zenon DEF Range
    <2> QED BY <1>3, <2>1, <2>2
  <1>5. \A i \in 1 .. k + n : i - k \in 1 .. n => r[i] = q[i - k]
    BY <1>3
  <1>6. ASSUME NEW i \in 1 .. k + n, NEW j \in 1 .. k + n, r[i] = r[j] PROVE i = j
    <2>1. CASE i \in 1 .. k /\ j \in 1 .. k
      BY <1>2, <1>4, <1>6, <2>1 DEF IsInjective
    <2>2. CASE i - k \in 1 .. n /\ j - k \in 1 .. n
      <3>1. r[i] = q[i - k] /\ r[j] = q[j - k]
        BY <1>5, <2>2, Zenon
      <3>2. i - k = j - k
        BY <1>2, <1>6, <2>2, <3>1, Zenon DEF IsInjective
      <3> QED BY <3>2
    <2>3. CASE i \in 1 .. k /\ j - k \in 1 .. n
      <3>1. p[i] = q[j - k]
        BY <1>4, <1>5, <1>6, <2>3, Zenon
      <3>2. p[i] \in Range(p) /\ q[j - k] \in Range(q)
        BY <1>4, <2>3, Zenon
      <3> QED BY <3>1, <3>2, Zenon
    <2>4. CASE i - k \in 1 .. n /\ j \in 1 .. k
      <3>1. p[j] = q[i - k]
        BY <1>4, <1>5, <1>6, <2>4, Zenon
      <3>2. p[j] \in Range(p) /\ q[i - k] \in Range(q)
        BY <1>4, <2>4, Zenon
      <3> QED BY <3>1, <3>2, Zenon
    <2> QED BY <1>4, <2>1, <2>2, <2>3, <2>4, Zenon
  <1>7. Range(r) = Range(p) \cup Range(q)
    <2>1. ASSUME NEW x \in Range(r) PROVE x \in Range(p) \cup Range(q)
      <3>1. PICK i \in 1 .. k + n : x = r[i]
        BY <1>3, Zenon DEF Range
      <3>2. CASE i \in 1 .. k
        BY <1>4, <3>1, <3>2, Zenon
      <3>3. CASE i - k \in 1 .. n /\ i = k + (i - k)
        BY <1>4, <3>1, <3>3, Zenon
      <3> QED BY <1>4, <3>2, <3>3, Zenon
    <2>2. ASSUME NEW x \in Range(p) PROVE x \in Range(r)
      <3>1. PICK i \in 1 .. k : x = p[i]
        BY <1>2, Zenon DEF Range
      <3> QED BY <1>3, <1>4, <3>1, Zenon DEF Range
    <2>3. ASSUME NEW x \in Range(q) PROVE x \in Range(r)
      <3>1. PICK i \in 1 .. n : x = q[i]
        BY <1>2, Zenon DEF Range
      <3> QED BY <1>3, <1>4, <3>1, Zenon DEF Range
    <2> QED BY <2>1, <2>2, <2>3, Zenon
  <1> QED BY <1>1, <1>3, <1>6, <1>7, Zenon DEF IsInjective

-----------------------------------------------------------------------------
(* Streams of numbered bytes.  A run holds the bytes a + 1 to b; the       *)
(* pieces of q, one after the other, hold them cut somehow.                *)
Run(d, a, b) ==
    a \in Nat /\ b \in Nat /\ a <= b /\ d = [i \in 1 .. b - a |-> a + i]

Cuts(q, pos, a, b) ==
    /\ DOMAIN pos = 0 .. Len(q) /\ pos[0] = a /\ pos[Len(q)] = b
    /\ \A i \in 0 .. Len(q) : pos[i] \in Nat /\ a <= pos[i] /\ pos[i] <= b
    /\ \A i \in 1 .. Len(q) : Run(q[i], pos[i - 1], pos[i])

Runs(q, a, b) == a \in Nat /\ b \in Nat /\ a <= b /\ \E pos : Cuts(q, pos, a, b)

LEMMA RunLen ==
  ASSUME NEW d, NEW a, NEW b, Run(d, a, b)
  PROVE  d \in Seq(Nat) /\ Len(d) = b - a /\ DOMAIN d = 1 .. Len(d) /\ Len(d) \in Nat
  BY DEF Run

LEMMA NoBytes == <<>> \in Seq(Nat)
  OBVIOUS

LEMMA RunEmpty ==
  ASSUME NEW a \in Nat
  PROVE  Run(<<>>, a, a)
  BY DEF Run

LEMMA SeqIsFunction ==
  ASSUME NEW R, NEW f \in Seq(R)
  PROVE  f = [i \in 1 .. Len(f) |-> f[i]]
  OBVIOUS

Concats(f, d, e, m, n) ==
    /\ m \in Nat /\ n \in Nat /\ Len(f) = m + n
    /\ f = [i \in 1 .. m + n |-> f[i]]
    /\ \A i \in 1 .. m : f[i] = d[i]
    /\ \A i \in m + 1 .. m + n : f[i] = e[i - m]

LEMMA Concat ==
  ASSUME NEW R, NEW d \in Seq(R), NEW e \in Seq(R)
  PROVE  Concats(d \o e, d, e, Len(d), Len(e))
  <1>1. PICK f, m, n : f = d \o e /\ m = Len(d) /\ n = Len(e)
    BY Zenon
  <1>2. m \in Nat /\ n \in Nat /\ f \in Seq(R) /\ Len(f) = m + n
    BY <1>1
  <1>3. \A i \in 1 .. m : f[i] = d[i]
    BY <1>1, <1>2
  <1>4. \A i \in m + 1 .. m + n : f[i] = e[i - m]
    BY <1>1, <1>2
  <1>5. f = [i \in 1 .. m + n |-> f[i]]
    BY <1>2, SeqIsFunction, Zenon
  <1>6. Concats(f, d, e, m, n)
    BY <1>2, <1>3, <1>4, <1>5, Zenon DEF Concats
  <1> QED BY <1>1, <1>6, Zenon

LEMMA RunJoin ==
  ASSUME NEW d, NEW e, NEW a, NEW b, NEW c, Run(d, a, b), Run(e, b, c)
  PROVE  Run(d \o e, a, c)
  <1>1. a \in Nat /\ b \in Nat /\ c \in Nat /\ a <= b /\ b <= c
    BY Zenon DEF Run
  <1>2. /\ d \in Seq(Nat) /\ Len(d) = b - a /\ \A i \in 1 .. b - a : d[i] = a + i
        /\ e \in Seq(Nat) /\ Len(e) = c - b /\ \A i \in 1 .. c - b : e[i] = b + i
    BY RunLen DEF Run
  <1>3. PICK f : f = d \o e
    BY Zenon
  <1>4. PICK m, n : m = Len(d) /\ n = Len(e)
    BY Zenon
  <1>n. m \in Nat /\ n \in Nat /\ m = b - a /\ n = c - b /\ m + n = c - a
    BY <1>1, <1>2, <1>4
  <1>d. /\ f = [i \in 1 .. m + n |-> f[i]]
        /\ \A i \in 1 .. m : f[i] = d[i]
        /\ \A i \in m + 1 .. m + n : f[i] = e[i - m]
    <2>1. Concats(f, d, e, m, n)
      BY <1>2, <1>3, <1>4, Concat, Zenon
    <2> QED BY <2>1, Zenon DEF Concats
  <1>5. ASSUME NEW i \in 1 .. m + n PROVE f[i] = a + i
    <2>1. CASE i <= m
      <3>1. i \in 1 .. m /\ i \in 1 .. b - a
        BY <1>n, <2>1
      <3> QED BY <1>2, <1>d, <3>1, Zenon
    <2>2. CASE ~(i <= m)
      <3>1. PICK j : j = i - m
        BY Zenon
      <3>2. i \in m + 1 .. m + n /\ j \in 1 .. c - b /\ a + i = b + j
        BY <1>1, <1>n, <2>2, <3>1
      <3> QED BY <1>2, <1>d, <3>1, <3>2, Zenon
    <2> QED BY <2>1, <2>2
  <1>6. f = [i \in 1 .. c - a |-> a + i]
    <2>1. f = [i \in 1 .. m + n |-> a + i]
      <3>1. [i \in 1 .. m + n |-> f[i]] = [i \in 1 .. m + n |-> a + i]
        BY <1>5
      <3> QED BY <1>d, <3>1, Zenon
    <2> QED BY <1>n, <2>1
  <1>7. a <= c
    BY <1>1
  <1> QED BY <1>1, <1>3, <1>6, <1>7, Zenon DEF Run

LEMMA RunCut ==
  ASSUME NEW d, NEW a, NEW b, Run(d, a, b), NEW n \in 0 .. b - a
  PROVE  Run(SubSeq(d, 1, n), a, a + n) /\ Run(SubSeq(d, n + 1, Len(d)), a + n, b)
  <1>1. a \in Nat /\ b \in Nat /\ a <= b /\ d \in Seq(Nat) /\ Len(d) = b - a
        /\ \A i \in 1 .. b - a : d[i] = a + i
    BY RunLen DEF Run
  <1>2. n \in Nat /\ n <= b - a /\ a + n \in Nat /\ a + n <= b
    BY <1>1
  <1>3. PICK h, t : h = SubSeq(d, 1, n) /\ t = SubSeq(d, n + 1, b - a)
    BY Zenon
  <1>4. h = [i \in 1 .. n |-> d[i]]
    BY <1>1, <1>2, <1>3
  <1>l. PICK l \in Nat : l = b - a
    BY <1>1
  <1>5. t = [i \in 1 .. l - n |-> d[n + i]]
    <2>1. d \in Seq(Nat) /\ Len(d) = l /\ n <= l /\ t = SubSeq(d, n + 1, l)
      BY <1>1, <1>2, <1>3, <1>l
    <2> HIDE DEF Run
    <2>2. t = [i \in 1 .. (l - (n + 1)) + 1 |-> d[(i + (n + 1)) - 1]]
      BY <1>2, <2>1
    <2>3. (l - (n + 1)) + 1 = l - n /\ \A i \in 1 .. l - n : (i + (n + 1)) - 1 = n + i
      BY <1>2, <1>l
    <2> QED BY <2>2, <2>3
  <1>6. h = [i \in 1 .. (a + n) - a |-> a + i]
    <2>1. (a + n) - a = n /\ \A i \in 1 .. n : i \in 1 .. b - a
      BY <1>1, <1>2
    <2> QED BY <1>1, <1>4, <2>1
  <1>7. t = [i \in 1 .. b - (a + n) |-> (a + n) + i]
    <2>1. l - n = b - (a + n) /\ \A i \in 1 .. l - n : n + i \in 1 .. b - a /\ a + (n + i) = (a + n) + i
      BY <1>1, <1>2, <1>l
    <2>2. \A i \in 1 .. l - n : d[n + i] = (a + n) + i
      BY <1>1, <2>1
    <2> QED BY <1>5, <2>1, <2>2
  <1>8. Run(h, a, a + n)
    BY <1>1, <1>2, <1>6 DEF Run
  <1>9. Run(t, a + n, b)
    BY <1>1, <1>2, <1>7, Zenon DEF Run
  <1> QED BY <1>1, <1>3, <1>8, <1>9, Zenon

-----------------------------------------------------------------------------
LEMMA RunsOrder ==
  ASSUME NEW q, NEW a, NEW b, Runs(q, a, b)
  PROVE  a \in Nat /\ b \in Nat /\ a <= b
  BY Zenon DEF Runs

LEMMA RunsEmpty ==
  ASSUME NEW a \in Nat
  PROVE  Runs(<<>>, a, a)
  <1>1. PICK pos : pos = [i \in 0 .. 0 |-> a]
    BY Zenon
  <1>2. Cuts(<<>>, pos, a, a)
    BY <1>1 DEF Cuts
  <1>3. a <= a
    OBVIOUS
  <1> QED BY <1>2, <1>3, Zenon DEF Runs

LEMMA RunsNothing ==
  ASSUME NEW q, Len(q) = 0, NEW a, NEW b, Runs(q, a, b)
  PROVE  a = b
  BY DEF Runs, Cuts

LEMMA RunsConcat ==
  ASSUME NEW R, NEW p \in Seq(R), NEW q \in Seq(R), NEW a, NEW b, NEW c, Runs(p, a, b), Runs(q, b, c)
  PROVE  Runs(p \o q, a, c)
  <1>1. PICK x : Cuts(p, x, a, b)
    BY Zenon DEF Runs
  <1>2. PICK y : Cuts(q, y, b, c)
    BY Zenon DEF Runs
  <1>3. a \in Nat /\ b \in Nat /\ c \in Nat /\ a <= b /\ b <= c /\ a <= c
    <2>1. a \in Nat /\ b \in Nat /\ c \in Nat /\ a <= b /\ b <= c
      BY Zenon DEF Runs
    <2> QED BY <2>1
  <1>4. PICK m \in Nat, n \in Nat : m = Len(p) /\ n = Len(q)
    <2>1. Len(p) \in Nat /\ Len(q) \in Nat
      OBVIOUS
    <2> QED BY <2>1, Zenon
  <1>r. PICK r : r = p \o q
    BY Zenon
  <1>5. /\ Len(r) = m + n
        /\ \A i \in 1 .. m : r[i] = p[i]
        /\ \A i \in m + 1 .. m + n : r[i] = q[i - m]
    BY <1>4, <1>r
  <1>6. PICK pos : pos = [i \in 0 .. m + n |-> IF i <= m THEN x[i] ELSE y[i - m]]
    BY Zenon
  <1>7. DOMAIN pos = 0 .. m + n /\ \A i \in 0 .. m + n : pos[i] = IF i <= m THEN x[i] ELSE y[i - m]
    BY <1>6, Zenon
  <1>8. /\ x[0] = a /\ x[m] = b /\ \A i \in 0 .. m : x[i] \in Nat /\ a <= x[i] /\ x[i] <= b
        /\ y[0] = b /\ y[n] = c /\ \A i \in 0 .. n : y[i] \in Nat /\ b <= y[i] /\ y[i] <= c
    BY <1>1, <1>2, <1>4, <1>r, Zenon DEF Cuts
  <1>m. pos[m] = b /\ \A j \in 0 .. n : pos[m + j] = y[j]
    <2>1. m \in 0 .. m + n /\ m <= m
      OBVIOUS
    <2>2. pos[m] = b
      BY <1>7, <1>8, <2>1, Zenon
    <2>3. ASSUME NEW j \in 0 .. n PROVE pos[m + j] = y[j]
      <3>1. CASE j = 0
        BY <1>8, <2>2, <3>1
      <3>2. CASE j # 0
        <4>1. m + j \in 0 .. m + n /\ ~(m + j <= m) /\ (m + j) - m = j
          BY <3>2
        <4> QED BY <1>7, <4>1
      <3> QED BY <3>1, <3>2
    <2> QED BY <2>2, <2>3
  <1>9. pos[0] = a /\ pos[m + n] = c
    <2>1. 0 \in 0 .. m + n /\ 0 <= m /\ n \in 0 .. n
      OBVIOUS
    <2> QED BY <1>7, <1>8, <1>m, <2>1, Zenon
  <1>10. ASSUME NEW i \in 0 .. m + n PROVE pos[i] \in Nat /\ a <= pos[i] /\ pos[i] <= c
    <2>1. CASE i <= m
      <3>1. i \in 0 .. m /\ pos[i] = x[i]
        BY <1>7, <2>1
      <3>2. x[i] \in Nat /\ a <= x[i] /\ x[i] <= b
        BY <1>8, <3>1, Zenon
      <3> QED BY <1>3, <3>1, <3>2
    <2>2. CASE ~(i <= m)
      <3>1. PICK j \in 0 .. n : j = i - m
        BY <2>2
      <3>2. pos[i] = y[j]
        BY <1>7, <2>2, <3>1, Zenon
      <3>3. y[j] \in Nat /\ b <= y[j] /\ y[j] <= c
        BY <1>8, Zenon
      <3> QED BY <1>3, <3>2, <3>3
    <2> QED BY <2>1, <2>2
  <1>11. ASSUME NEW i \in 1 .. m PROVE Run(r[i], pos[i - 1], pos[i])
    <2>1. pos[i] = x[i] /\ pos[i - 1] = x[i - 1] /\ r[i] = p[i]
      BY <1>5, <1>7
    <2>2. Run(p[i], x[i - 1], x[i])
      BY <1>1, <1>4, <1>r, Zenon DEF Cuts
    <2> QED BY <2>1, <2>2, Zenon
  <1>12. ASSUME NEW i \in m + 1 .. m + n PROVE Run(r[i], pos[i - 1], pos[i])
    <2>1. PICK j \in 1 .. n : j = i - m
      OBVIOUS
    <2>2. pos[i] = y[j] /\ pos[i - 1] = y[j - 1] /\ r[i] = q[j]
      <3>1. j \in 0 .. n /\ j - 1 \in 0 .. n /\ m + j = i /\ m + (j - 1) = i - 1
        BY <2>1
      <3> QED BY <1>5, <1>m, <2>1, <3>1
    <2>3. Run(q[j], y[j - 1], y[j])
      BY <1>2, <1>4, <1>r, Zenon DEF Cuts
    <2> QED BY <2>2, <2>3, Zenon
  <1>13. \A i \in 1 .. m + n : i \in 1 .. m \/ i \in m + 1 .. m + n
    OBVIOUS
  <1>14. \A i \in 1 .. m + n : Run(r[i], pos[i - 1], pos[i])
    BY <1>11, <1>12, <1>13, Zenon
  <1>15. Cuts(r, pos, a, c)
    BY <1>5, <1>7, <1>9, <1>10, <1>14, Zenon DEF Cuts
  <1> QED BY <1>3, <1>4, <1>r, <1>15, Zenon DEF Runs

LEMMA RunsOne ==
  ASSUME NEW d, NEW a, NEW b, Run(d, a, b)
  PROVE  Runs(<<d>>, a, b)
  <1>1. a \in Nat /\ b \in Nat /\ a <= b
    BY Zenon DEF Run
  <1>2. PICK pos : pos = [i \in 0 .. 1 |-> IF i = 0 THEN a ELSE b]
    BY Zenon
  <1>3. DOMAIN pos = 0 .. 1 /\ pos[0] = a /\ pos[1] = b
    BY <1>2
  <1>4. PICK q : q = <<d>>
    BY Zenon
  <1>5. Len(q) = 1 /\ q[1] = d
    BY <1>4
  <1>6. \A i \in 0 .. 1 : pos[i] \in Nat /\ a <= pos[i] /\ pos[i] <= b
    BY <1>1, <1>3
  <1>7. \A i \in 1 .. 1 : Run(q[i], pos[i - 1], pos[i])
    <2>1. \A i \in 1 .. 1 : q[i] = d /\ pos[i - 1] = a /\ pos[i] = b
      BY <1>3, <1>5
    <2> QED BY <2>1, Zenon
  <1>8. Cuts(q, pos, a, b)
    BY <1>3, <1>5, <1>6, <1>7, Zenon DEF Cuts
  <1> QED BY <1>1, <1>4, <1>8, Zenon DEF Runs

LEMMA RunsAppend ==
  ASSUME NEW R, NEW q \in Seq(R), NEW d \in R, NEW a, NEW b, NEW c, Runs(q, a, b), Run(d, b, c)
  PROVE  Runs(Append(q, d), a, c)
  <1>1. Append(q, d) = q \o <<d>> /\ <<d>> \in Seq(R)
    OBVIOUS
  <1>2. Runs(<<d>>, b, c)
    BY RunsOne
  <1>3. Runs(q \o <<d>>, a, c)
    BY <1>1, <1>2, RunsConcat
  <1> QED BY <1>1, <1>3, Zenon

LEMMA RunsHead ==
  ASSUME NEW R, NEW q \in Seq(R), Len(q) # 0, NEW a, NEW b, Runs(q, a, b)
  PROVE  \E c : Run(Head(q), a, c) /\ Runs(Tail(q), c, b)
  <1>1. PICK pos : Cuts(q, pos, a, b)
    BY Zenon DEF Runs
  <1>2. PICK n \in Nat : n = Len(q) - 1
    <2>1. Len(q) - 1 \in Nat
      OBVIOUS
    <2> QED BY <2>1, Zenon
  <1>t. PICK t : t = Tail(q)
    BY Zenon
  <1>3. Len(t) = n /\ Head(q) = q[1] /\ \A i \in 1 .. n : t[i] = q[i + 1]
    BY <1>2, <1>t
  <1>4. PICK x : x = [i \in 0 .. n |-> pos[i + 1]]
    BY Zenon
  <1>5. DOMAIN x = 0 .. n /\ \A i \in 0 .. n : x[i] = pos[i + 1]
    BY <1>4, Zenon
  <1>6. /\ pos[0] = a /\ pos[n + 1] = b
        /\ \A i \in 0 .. n + 1 : pos[i] \in Nat /\ a <= pos[i] /\ pos[i] <= b
        /\ \A i \in 1 .. n + 1 : Run(q[i], pos[i - 1], pos[i])
    <2>1. Len(q) = n + 1
      BY <1>2, <1>t
    <2> QED BY <1>1, <2>1, Zenon DEF Cuts
  <1>7. PICK c : c = pos[1]
    BY Zenon
  <1>8. Run(Head(q), a, c)
    <2>1. 1 \in 1 .. n + 1 /\ 1 - 1 = 0
      OBVIOUS
    <2> QED BY <1>3, <1>6, <1>7, <2>1
  <1>9. ASSUME NEW i \in 1 .. n PROVE Run(t[i], x[i - 1], x[i]) /\ pos[i] <= pos[i + 1]
    <2>1. i + 1 \in 1 .. n + 1 /\ (i + 1) - 1 = i /\ i \in 0 .. n /\ i - 1 \in 0 .. n /\ (i - 1) + 1 = i
      OBVIOUS
    <2>2. t[i] = q[i + 1] /\ x[i] = pos[i + 1] /\ x[i - 1] = pos[i]
      BY <1>3, <1>5, <2>1
    <2>3. Run(q[i + 1], pos[i], pos[i + 1])
      BY <1>6, <2>1
    <2> QED BY <2>2, <2>3, Zenon DEF Run
  <1> DEFINE N == {i \in Nat : i <= n => c <= x[i]}
  <1>10. \A i \in Nat : i \in N
    <2>1. 0 \in N
      BY <1>5, <1>6, <1>7
    <2>2. ASSUME NEW i \in Nat, i \in N PROVE i + 1 \in N
      <3>1. CASE i + 1 <= n
        <4>1. i + 1 \in 1 .. n /\ i + 1 \in 0 .. n /\ i \in 0 .. n /\ i <= n /\ (i + 1) + 1 \in 0 .. n + 1
              /\ 1 \in 0 .. n + 1
          BY <3>1
        <4>2. x[i + 1] = pos[(i + 1) + 1] /\ x[i] = pos[i + 1] /\ pos[i + 1] <= pos[(i + 1) + 1]
          BY <1>5, <1>9, <4>1, Zenon
        <4>3. c <= x[i]
          BY <2>2, <4>1
        <4>4. pos[(i + 1) + 1] \in Nat /\ pos[i + 1] \in Nat /\ c \in Nat
          <5>1. i + 1 \in 0 .. n + 1
            BY <4>1
          <5> QED BY <1>6, <1>7, <4>1, <5>1, Zenon
        <4>5. c <= x[i + 1]
          BY <4>2, <4>3, <4>4
        <4> QED BY <4>5
      <3>2. CASE ~(i + 1 <= n)
        BY <3>2
      <3> QED BY <3>1, <3>2
    <2> HIDE DEF N
    <2>3. N \in SUBSET Nat
      BY DEF N
    <2> QED BY <2>1, <2>2, <2>3, NatInductive
  <1>11. \A i \in 0 .. n : x[i] \in Nat /\ c <= x[i] /\ x[i] <= b
    <2> TAKE i \in 0 .. n
    <2>1. x[i] = pos[i + 1] /\ i + 1 \in 0 .. n + 1 /\ i \in Nat /\ i <= n
      BY <1>5
    <2>2. i \in N
      BY <1>10, <2>1
    <2> QED BY <1>6, <2>1, <2>2
  <1>12. x[0] = c /\ x[n] = b
    BY <1>5, <1>6, <1>7
  <1>13. Cuts(t, x, c, b)
    BY <1>3, <1>5, <1>9, <1>11, <1>12, Zenon DEF Cuts
  <1>14. c \in Nat /\ b \in Nat /\ c <= b
    <2>1. 0 \in 0 .. n
      OBVIOUS
    <2> QED BY <1>11, <1>12, <2>1 DEF Runs
  <1> QED BY <1>2, <1>t, <1>8, <1>13, <1>14, Zenon DEF Runs
=============================================================================
