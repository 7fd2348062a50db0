------------------------------ MODULE SeqFacts ------------------------------
(* Facts about sequences that the proofs of the other modules cite.        *)
EXTENDS SequenceTheorems, FiniteSetTheorems, TLAPS

(* Functions on 1 .. n are the sequences of length n.                      *)
LEMMA FunctionIsSeq ==
  ASSUME NEW S, NEW n \in Nat, NEW f \in [1 .. n -> S]
  PROVE  f \in Seq(S) /\ Len(f) = n
<1>1. f \in Seq(S)
  BY SeqDef
<1>2. Len(f) \in Nat /\ 1 .. Len(f) = 1 .. n
  BY <1>1, LenProperties
<1> QED  BY <1>1, <1>2

LEMMA LenFromDomain ==
  ASSUME NEW S, NEW s \in Seq(S), NEW n \in Nat, DOMAIN s = 1 .. n
  PROVE  Len(s) = n
<1>1. Len(s) \in Nat /\ \A i : i \in 1 .. Len(s) <=> i \in 1 .. n
  BY LenProperties
<1>2. Len(s) > n => FALSE
  BY <1>1
<1>3. Len(s) < n => FALSE
  BY <1>1
<1> QED  BY <1>1, <1>2, <1>3

(* The two parts of a sequence before and after a position.                *)
LEMMA Parts ==
  ASSUME NEW S, NEW e \in Seq(S), NEW i \in Nat, i <= Len(e)
  PROVE  /\ SubSeq(e, 1, i) \in Seq(S) /\ Len(SubSeq(e, 1, i)) = i
         /\ \A k \in 1 .. i : SubSeq(e, 1, i)[k] = e[k]
         /\ SubSeq(e, i + 1, Len(e)) \in Seq(S)
         /\ Len(SubSeq(e, i + 1, Len(e))) = Len(e) - i
         /\ \A k \in 1 .. Len(e) - i : SubSeq(e, i + 1, Len(e))[k] = e[i + k]
<1>1. Len(e) \in Nat /\ \A k \in 1 .. Len(e) : e[k] \in S
  BY LenProperties, ElementOfSeq
<1>2. \A k \in 1 .. i : e[k] \in S
  BY <1>1
<1>3. \A k \in i + 1 .. Len(e) : e[k] \in S
  BY <1>1
<1>4. /\ SubSeq(e, 1, i) \in Seq(S)
      /\ Len(SubSeq(e, 1, i)) = IF 1 <= i THEN i - 1 + 1 ELSE 0
      /\ \A k \in 1 .. i - 1 + 1 : SubSeq(e, 1, i)[k] = e[1 + k - 1]
  BY <1>2, SubSeqProperties
<1>5. i + 1 \in Int /\ Len(e) \in Int
  BY <1>1
<1>6. /\ SubSeq(e, i + 1, Len(e)) \in Seq(S)
      /\ Len(SubSeq(e, i + 1, Len(e)))
           = IF i + 1 <= Len(e) THEN Len(e) - (i + 1) + 1 ELSE 0
      /\ \A k \in 1 .. Len(e) - (i + 1) + 1 :
           SubSeq(e, i + 1, Len(e))[k] = e[i + 1 + k - 1]
  BY <1>3, <1>5, SubSeqProperties
<1>7. \A k \in 1 .. i : SubSeq(e, 1, i)[k] = e[k]
  BY <1>4
<1>8. \A k \in 1 .. Len(e) - i : SubSeq(e, i + 1, Len(e))[k] = e[i + k]
  BY <1>1, <1>6
<1> QED  BY <1>1, <1>4, <1>6, <1>7, <1>8

(* What is cut off the front of a sequence and what is left make it up.    *)
LEMMA CutInTwo ==
  ASSUME NEW S, NEW s \in Seq(S), NEW n \in 0 .. Len(s)
  PROVE  /\ SubSeq(s, 1, n) \in Seq(S) /\ SubSeq(s, n + 1, Len(s)) \in Seq(S)
         /\ SubSeq(s, 1, n) \o SubSeq(s, n + 1, Len(s)) = s
<1> DEFINE u == SubSeq(s, 1, n)
           v == SubSeq(s, n + 1, Len(s))
           w == u \o v
<1>1. Len(s) \in Nat /\ n \in Nat /\ n <= Len(s)
  BY LenProperties
<1>2. /\ u \in Seq(S) /\ Len(u) = n /\ \A k \in 1 .. n : u[k] = s[k]
      /\ v \in Seq(S) /\ Len(v) = Len(s) - n
      /\ \A k \in 1 .. Len(s) - n : v[k] = s[n + k]
  BY <1>1, Parts
<1>3. /\ w \in Seq(S) /\ Len(w) = Len(u) + Len(v)
      /\ \A k \in 1 .. Len(u) + Len(v) :
           w[k] = IF k <= Len(u) THEN u[k] ELSE v[k - Len(u)]
  <2> HIDE DEF u, v
  <2> QED  BY <1>2, ConcatProperties
<1> HIDE DEF u, v, w
<1>4. Len(w) = Len(s)
  BY <1>1, <1>2, <1>3
<1>5. ASSUME NEW k \in 1 .. Len(w)  PROVE w[k] = s[k]
  <2>1. CASE k <= n
    BY <1>1, <1>2, <1>3, <1>4, <2>1
  <2>2. CASE k > n
    <3>1. k - n \in 1 .. Len(s) - n /\ n + (k - n) = k /\ ~(k <= Len(u))
      BY <1>1, <1>2, <1>4, <2>2
    <3> QED  BY <1>1, <1>2, <1>3, <1>4, <3>1
  <2> QED  BY <1>1, <1>4, <2>1, <2>2
<1>6. w = s
  BY <1>3, <1>4, <1>5, SeqEqual
<1> QED  BY <1>2, <1>6 DEF u, v, w

-----------------------------------------------------------------------------
(* Sequences without repetition.                                           *)
Distinct(s) == \A i, j \in DOMAIN s : s[i] = s[j] => i = j

Without(s, i) == SubSeq(s, 1, i - 1) \o SubSeq(s, i + 1, Len(s))

LEMMA WithoutOne ==
  ASSUME NEW S, NEW s \in Seq(S), NEW i \in DOMAIN s
  PROVE  /\ SubSeq(s, 1, i - 1) \o SubSeq(s, i + 1, Len(s)) \in Seq(S)
         /\ s[i] \in S
         /\ DOMAIN Without(s, i) = 1 .. Len(s) - 1
         /\ \A k \in 1 .. Len(s) - 1 :
              Without(s, i)[k] = IF k < i THEN s[k] ELSE s[k + 1]
<1> DEFINE u == SubSeq(s, 1, i - 1)
           v == SubSeq(s, i + 1, Len(s))
<1>1. i \in 1 .. Len(s) /\ Len(s) \in Nat /\ \A k \in 1 .. Len(s) : s[k] \in S
  BY LenProperties, ElementOfSeq
<1>2. /\ u \in Seq(S) /\ Len(u) = i - 1
      /\ \A k \in 1 .. i - 1 : u[k] = s[k]
  BY <1>1, Parts
<1>3. /\ v \in Seq(S) /\ Len(v) = Len(s) - i
      /\ \A k \in 1 .. Len(s) - i : v[k] = s[i + k]
  BY <1>1, Parts
<1> DEFINE w == u \o v
<1>4. /\ w \in Seq(S) /\ DOMAIN w = 1 .. Len(s) - 1
      /\ \A k \in 1 .. Len(s) - 1 :
           w[k] = IF k < i THEN u[k] ELSE v[k - (i - 1)]
  <2> HIDE DEF u, v
  <2>1. /\ w \in Seq(S) /\ Len(w) = Len(u) + Len(v)
        /\ \A k \in 1 .. Len(u) + Len(v) :
             w[k] = IF k <= Len(u) THEN u[k] ELSE v[k - Len(u)]
    BY <1>2, <1>3, ConcatProperties
  <2>2. DOMAIN w = 1 .. Len(w)
    BY <2>1, LenProperties
  <2>3. Len(u) + Len(v) = Len(s) - 1 /\ Len(u) = i - 1
    BY <1>1, <1>2, <1>3
  <2> HIDE DEF w
  <2>4. \A k \in 1 .. Len(s) - 1 : k <= i - 1 <=> k < i
    BY <1>1
  <2> QED  BY <2>1, <2>2, <2>3, <2>4
<1> HIDE DEF u, v, w
<1>5. \A k \in 1 .. Len(s) - 1 : k >= i => v[k - (i - 1)] = s[k + 1]
  <2> SUFFICES ASSUME NEW k \in 1 .. Len(s) - 1, k >= i
               PROVE  v[k - (i - 1)] = s[k + 1]
    OBVIOUS
  <2>1. k - (i - 1) \in 1 .. Len(s) - i /\ i + (k - (i - 1)) = k + 1
    BY <1>1
  <2> QED  BY <1>3, <2>1
<1>6. ASSUME NEW k \in 1 .. Len(s) - 1
      PROVE  w[k] = IF k < i THEN s[k] ELSE s[k + 1]
  <2>1. k < i => k \in 1 .. i - 1
    BY <1>1
  <2>2. ~(k < i) => k >= i
    BY <1>1
  <2> QED  BY <1>2, <1>4, <1>5, <2>1, <2>2
<1>7. Without(s, i) = w /\ SubSeq(s, 1, i - 1) \o SubSeq(s, i + 1, Len(s)) = w
  BY DEF Without, u, v, w
<1> QED  BY <1>1, <1>4, <1>6, <1>7

LEMMA WithoutDistinct ==
  ASSUME NEW S, NEW s \in Seq(S), NEW i \in DOMAIN s, Distinct(s)
  PROVE  /\ Distinct(Without(s, i))
         /\ \A x : (\E k \in DOMAIN Without(s, i) : Without(s, i)[k] = x)
                     <=> x # s[i] /\ \E k \in DOMAIN s : s[k] = x
<1> DEFINE t == Without(s, i)
<1>1. /\ Len(s) \in Nat /\ DOMAIN s = 1 .. Len(s) /\ i \in 1 .. Len(s)
      /\ DOMAIN t = 1 .. Len(s) - 1
      /\ \A k \in 1 .. Len(s) - 1 : t[k] = IF k < i THEN s[k] ELSE s[k + 1]
  BY WithoutOne, LenProperties
<1> HIDE DEF t
<1> DEFINE from(k) == IF k < i THEN k ELSE k + 1
<1>2. Distinct(t)
  <2> SUFFICES ASSUME NEW j \in DOMAIN t, NEW k \in DOMAIN t, t[j] = t[k]
               PROVE  j = k
    BY DEF Distinct
  <2>1. /\ from(j) \in DOMAIN s /\ t[j] = s[from(j)]
        /\ from(k) \in DOMAIN s /\ t[k] = s[from(k)]
    BY <1>1
  <2>2. from(j) = from(k)
    <3> HIDE DEF from
    <3> QED  BY <2>1 DEF Distinct
  <2> QED  BY <1>1, <2>2
<1>3. ASSUME NEW x, NEW k \in DOMAIN t, t[k] = x
      PROVE  x # s[i] /\ \E j \in DOMAIN s : s[j] = x
  <2>1. PICK j \in DOMAIN s : j # i /\ s[j] = x
    <3>1. CASE k < i
      BY <1>1, <1>3, <3>1
    <3>2. CASE ~(k < i)
      <4>1. k + 1 \in DOMAIN s /\ k + 1 # i /\ s[k + 1] = x
        BY <1>1, <1>3, <3>2
      <4> QED  BY <4>1
    <3> QED  BY <3>1, <3>2
  <2> QED  BY <2>1 DEF Distinct
<1>4. ASSUME NEW x, x # s[i], NEW j \in DOMAIN s, s[j] = x
      PROVE  \E k \in DOMAIN t : t[k] = x
  <2>1. CASE j < i
    BY <1>1, <1>4, <2>1
  <2>2. CASE j > i
    <3>1. j - 1 \in DOMAIN t /\ t[j - 1] = x
      BY <1>1, <1>4, <2>2
    <3> QED  BY <3>1
  <2> QED  BY <1>1, <1>4, <2>1, <2>2
<1> QED  BY <1>2, <1>3, <1>4 DEF t

LEMMA AppendsOne ==
  ASSUME NEW S, NEW s \in Seq(S), NEW x \in S, NEW i \in DOMAIN Append(s, x)
  PROVE  (i \in DOMAIN s /\ Append(s, x)[i] = s[i]) \/ Append(s, x)[i] = x
<1>1. /\ DOMAIN s = 1 .. Len(s) /\ Len(s) \in Nat
      /\ DOMAIN Append(s, x) = 1 .. Len(s) + 1
      /\ Append(s, x)[Len(s) + 1] = x
      /\ \A k \in 1 .. Len(s) : Append(s, x)[k] = s[k]
  OBVIOUS
<1>2. i = Len(s) + 1 \/ i \in 1 .. Len(s)
  BY <1>1
<1> QED  BY <1>1, <1>2

LEMMA TailIsShifted ==
  ASSUME NEW S, NEW s \in Seq(S), s # <<>>, NEW i \in DOMAIN Tail(s)
  PROVE  i + 1 \in DOMAIN s /\ s[i + 1] = Tail(s)[i]
OBVIOUS

LEMMA TailDistinct ==
  ASSUME NEW S, NEW s \in Seq(S), s # <<>>, Distinct(s)
  PROVE  /\ Distinct(Tail(s))
         /\ \A x : (\E i \in DOMAIN Tail(s) : Tail(s)[i] = x)
                     <=> x # Head(s) /\ \E i \in DOMAIN s : s[i] = x
<1> DEFINE t == Tail(s)
<1>1. /\ Len(s) \in Nat \ {0} /\ DOMAIN s = 1 .. Len(s)
      /\ DOMAIN t = 1 .. Len(s) - 1
      /\ \A i \in 1 .. Len(s) - 1 : t[i] = s[i + 1]
      /\ Head(s) = s[1]
  OBVIOUS
<1>2. Distinct(t)
  BY <1>1 DEF Distinct
<1>3. ASSUME NEW x, NEW i \in DOMAIN t, t[i] = x
      PROVE  x # Head(s) /\ \E j \in DOMAIN s : s[j] = x
  <2>1. i + 1 \in DOMAIN s /\ s[i + 1] = x /\ i + 1 # 1
    BY <1>1, <1>3
  <2> QED  BY <1>1, <2>1 DEF Distinct
<1>4. ASSUME NEW x, x # Head(s), NEW j \in DOMAIN s, s[j] = x
      PROVE  \E i \in DOMAIN t : t[i] = x
  <2>1. j - 1 \in DOMAIN t /\ t[j - 1] = x
    BY <1>1, <1>4
  <2> QED  BY <2>1
<1> QED  BY <1>2, <1>3, <1>4

-----------------------------------------------------------------------------
(* A set of numbers has a least one: for an induction, take the set of the *)
(* numbers for which the statement fails.                                  *)
LEMMA LeastNat ==
  ASSUME NEW T, T \subseteq Nat, T # {}
  PROVE  \E n \in T : \A m \in T : n <= m
<1>1. PICK n \in T : \A m \in T : ~(<<m, n>> \in OpToRel(<, Nat))
  BY NatLessThanWellFounded, WFMin
<1>2. \A m \in T : ~(m < n)
  BY <1>1 DEF OpToRel
<1> QED  BY <1>2

(* From z, by the functions step[1] to step[n]: what is defined by         *)
(* recursion on the prefixes of a sequence of length n exists.             *)
Iterates(f, S, z, n, step) ==
  /\ f \in [0 .. n -> S]
  /\ f[0] = z
  /\ \A i \in 1 .. n : f[i] = step[i][f[i - 1]]

LEMMA Recursion ==
  ASSUME NEW S, NEW z \in S, NEW n \in Nat, NEW step,
         \A i \in 1 .. n : \A x \in S : step[i][x] \in S
  PROVE  \E f : Iterates(f, S, z, n, step)
<1> DEFINE Reaches(f, m) == /\ f \in [0 .. m -> S]
                            /\ f[0] = z
                            /\ \A i \in 1 .. m : f[i] = step[i][f[i - 1]]
           T == {m \in 0 .. n : ~ \E f : Reaches(f, m)}
<1>1. ASSUME T # {}  PROVE FALSE
  <2>1. PICK m \in T : \A k \in T : m <= k
    <3>1. T \subseteq Nat
      OBVIOUS
    <3> HIDE DEF T
    <3> QED  BY <1>1, <3>1, LeastNat
  <2>2. m # 0
    <3>1. Reaches([i \in 0 .. 0 |-> z], 0)
      OBVIOUS
    <3> HIDE DEF Reaches
    <3> QED  BY <3>1
  <2>3. m - 1 \in 0 .. n /\ m - 1 \notin T /\ m \in 1 .. n
    BY <2>1, <2>2
  <2>4. PICK f : Reaches(f, m - 1)
    <3> HIDE DEF Reaches
    <3> QED  BY <2>3
  <2> DEFINE g == [i \in 0 .. m |-> IF i = m THEN step[m][f[m - 1]] ELSE f[i]]
  <2>5. f[m - 1] \in S /\ step[m][f[m - 1]] \in S
    BY <2>3, <2>4
  <2>6. g \in [0 .. m -> S] /\ g[0] = z
    BY <2>3, <2>4, <2>5
  <2>7. ASSUME NEW i \in 1 .. m  PROVE g[i] = step[i][g[i - 1]]
    BY <2>3, <2>4
  <2>8. Reaches(g, m)
    <3> HIDE DEF g
    <3> QED  BY <2>6, <2>7
  <2>9. ~ \E h : Reaches(h, m)
    <3> HIDE DEF Reaches
    <3> QED  BY <2>1
  <2> HIDE DEF Reaches, g
  <2> QED  BY <2>8, <2>9
<1>2. PICK f : Reaches(f, n)
  <2>1. n \notin T
    <3> HIDE DEF T
    <3> QED  BY <1>1
  <2> HIDE DEF Reaches
  <2> QED  BY <2>1
<1> QED  BY <1>2 DEF Iterates

-----------------------------------------------------------------------------
(* Division with remainder.                                                *)
LEMMA Remainder ==
  ASSUME NEW n \in Nat \ {0}, NEW q \in Nat, NEW r \in 0 .. n - 1
  PROVE  (n * q + r) % n = r
OBVIOUS

LEMMA Quotient ==
  ASSUME NEW n \in Nat \ {0}, NEW h \in Nat
  PROVE  \E q \in Nat : \E r \in 0 .. n - 1 : h = n * q + r
<1> DEFINE P(m) == \E q \in Nat : \E r \in 0 .. n - 1 : m = n * q + r
           T == {m \in Nat : ~P(m)}
<1>1. ASSUME T # {}  PROVE FALSE
  <2>0. T \subseteq Nat
    OBVIOUS
  <2>1. PICK m \in T : \A k \in T : m <= k
    <3> HIDE DEF T
    <3> QED  BY <1>1, <2>0, LeastNat
  <2>2. P(0)
    <3>1. 0 \in Nat /\ 0 \in 0 .. n - 1 /\ 0 = n * 0 + 0
      OBVIOUS
    <3> QED  BY <3>1
  <2>3. m \in Nat /\ m # 0 /\ ~P(m)
    <3> HIDE DEF P
    <3> QED  BY <2>2
  <2>4. P(m - 1)
    <3>1. m - 1 \in Nat /\ m - 1 \notin T
      BY <2>1, <2>3
    <3> HIDE DEF P
    <3> QED  BY <3>1
  <2>5. PICK q \in Nat, r \in 0 .. n - 1 : m - 1 = n * q + r
    BY <2>4
  <2>6. CASE r + 1 < n
    <3>1. r + 1 \in 0 .. n - 1 /\ m = n * q + (r + 1)
      BY <2>3, <2>5, <2>6
    <3> QED  BY <2>3, <3>1
  <2>7. CASE r + 1 = n
    <3>1. q + 1 \in Nat /\ 0 \in 0 .. n - 1 /\ m = n * (q + 1) + 0
      BY <2>3, <2>5, <2>7
    <3> QED  BY <2>3, <3>1
  <2> QED  BY <2>5, <2>6, <2>7
<1>2. h \notin T
  <2> HIDE DEF T
  <2> QED  BY <1>1
<1> QED  BY <1>2

(* A number modulo the double of n tells what it is modulo n.              *)
LEMMA ModuloDouble ==
  ASSUME NEW n \in Nat \ {0}, NEW h \in Nat
  PROVE  (h % (2 * n)) % n = h % n
<1>1. 2 * n \in Nat \ {0}
  OBVIOUS
<1>2. PICK q \in Nat, b \in 0 .. 2 * n - 1 : h = (2 * n) * q + b
  BY <1>1, Quotient
<1>3. b \in Nat
  BY <1>2
<1>4. PICK p \in Nat, s \in 0 .. n - 1 : b = n * p + s
  BY <1>3, Quotient
<1>5. h % (2 * n) = b
  BY <1>1, <1>2, Remainder
<1>6. b % n = s
  BY <1>4, Remainder
<1>7. 2 * q + p \in Nat /\ h = n * (2 * q + p) + s
  BY <1>2, <1>4
<1>8. h % n = s
  BY <1>7, Remainder
<1> QED  BY <1>5, <1>6, <1>8

=============================================================================
