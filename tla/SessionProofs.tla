--------------------------- MODULE SessionProofs ---------------------------
(***************************************************************************)
(* Theorems about Session, for every stream, every cut of it into          *)
(* segments, every size of the buffer and every way of send() to take      *)
(* parts.                                                                  *)
(***************************************************************************)
EXTENDS Session, DynArrayProofs

-----------------------------------------------------------------------------
(* The least and the greatest of a set of positions.                       *)

LEMMA MinIs ==
  ASSUME NEW T, T \subseteq Nat, T # {}
  PROVE  Min(T) \in T /\ \A m \in T : Min(T) <= m
<1>1. \E x \in T : \A y \in T : x <= y
  BY LeastNat
<1> QED  BY <1>1 DEF Min

LEMMA MaxIs ==
  ASSUME NEW n \in Nat, NEW T, T \subseteq 0 .. n, T # {}
  PROVE  Max(T) \in T /\ \A m \in T : m <= Max(T)
<1> DEFINE U == {n - m : m \in T}
<1>1. U \subseteq Nat /\ U # {}
  <2>1. \A m \in T : m \in 0 .. n
    OBVIOUS
  <2>2. \A m \in T : n - m \in Nat
    BY <2>1
  <2> QED  BY <2>2
<1>2. PICK u \in U : \A v \in U : u <= v
  <2> HIDE DEF U
  <2> QED  BY <1>1, LeastNat
<1>3. PICK x \in T : u = n - x
  BY <1>2
<1>4. \A m \in T : x >= m
  <2> TAKE m \in T
  <2>1. u <= n - m
    BY <1>2
  <2> QED  BY <1>3, <2>1
<1>5. Max(T) \in T /\ \A m \in T : Max(T) >= m
  BY <1>3, <1>4 DEF Max
<1> QED  BY <1>5

(* V is a set of positions, of which p + 1 is the first and h the last.     *)
Spans(V, n, p, h) ==
  /\ Min(V) = p + 1 /\ Max(V) = h /\ p < h /\ h <= n
  /\ p + 1 \in V /\ h \in V
  /\ \A m \in V : p + 1 <= m /\ m <= h

LEMMA SpanIs ==
  ASSUME NEW n \in Nat, NEW V, V \subseteq 1 .. n, V # {}
  PROVE  \E p \in Nat : \E h \in Nat : Spans(V, n, p, h)
<1>1. V \subseteq Nat /\ V \subseteq 0 .. n
  OBVIOUS
<1>2. Min(V) \in V /\ \A m \in V : Min(V) <= m
  BY <1>1, MinIs
<1>3. Max(V) \in V /\ \A m \in V : m <= Max(V)
  BY <1>1, MaxIs
<1> DEFINE lo == Min(V)
           hi == Max(V)
<1> HIDE DEF lo, hi
<1>4. lo \in 1 .. n /\ hi \in 1 .. n /\ lo <= hi /\ lo \in V /\ hi \in V
  BY <1>2, <1>3 DEF lo, hi
<1>5. /\ lo - 1 \in Nat /\ lo = (lo - 1) + 1 /\ hi \in Nat /\ lo - 1 < hi /\ hi <= n
      /\ (lo - 1) + 1 \in V
  BY <1>4
<1>6. \A m \in V : (lo - 1) + 1 <= m /\ m <= hi
  BY <1>2, <1>3, <1>5 DEF lo, hi
<1>7. Spans(V, n, lo - 1, hi)
  BY <1>4, <1>5, <1>6 DEF Spans, lo, hi
<1> QED  BY <1>5, <1>7

-----------------------------------------------------------------------------
(* Reading a line.                                                         *)

LEMMA LineEndIs ==
  ASSUME NEW e \in Seq(Byte), HasCompleteLine(e)
  PROVE  /\ LineEnd(e) \in 0 .. Len(e) - 1
         /\ EndsLine(e[LineEnd(e) + 1])
         /\ \A k \in 1 .. LineEnd(e) : ~EndsLine(e[k])
<1> DEFINE I == {i \in 1 .. Len(e) : EndsLine(e[i])}
<1>1. I \subseteq Nat /\ I # {} /\ Len(e) \in Nat
  BY LenProperties DEF HasCompleteLine
<1>2. LineEnd(e) = Min(I) - 1
  BY <1>1 DEF LineEnd, SelectInSeq
<1>3. Min(I) \in I /\ \A m \in I : Min(I) <= m
  <2> HIDE DEF I
  <2> QED  BY <1>1, MinIs
<1> DEFINE m == Min(I)
<1>4. m \in 1 .. Len(e) /\ EndsLine(e[m])
  BY <1>3
<1>5. ASSUME NEW k \in 1 .. m - 1  PROVE ~EndsLine(e[k])
  BY <1>1, <1>3, <1>4
<1> HIDE DEF m
<1>6. LineEnd(e) = m - 1 /\ m - 1 \in 0 .. Len(e) - 1 /\ (m - 1) + 1 = m
  BY <1>1, <1>2, <1>4 DEF m
<1> QED  BY <1>4, <1>5, <1>6

(* There is only one such position.                                        *)
LEMMA LineEndUnique ==
  ASSUME NEW e \in Seq(Byte), NEW n \in 0 .. Len(e) - 1,
         EndsLine(e[n + 1]), \A k \in 1 .. n : ~EndsLine(e[k])
  PROVE  HasCompleteLine(e) /\ LineEnd(e) = n
<1>1. Len(e) \in Nat /\ DOMAIN e = 1 .. Len(e) /\ n + 1 \in 1 .. Len(e)
  BY LenProperties
<1>2. HasCompleteLine(e)
  BY <1>1 DEF HasCompleteLine
<1> DEFINE m == LineEnd(e)
<1>3. /\ m \in 0 .. Len(e) - 1
      /\ EndsLine(e[m + 1])
      /\ \A k \in 1 .. m : ~EndsLine(e[k])
  BY <1>2, LineEndIs
<1> HIDE DEF m
<1>4. ~(m < n) /\ ~(n < m)
  <2>1. m < n => m + 1 \in 1 .. n
    BY <1>3
  <2>2. n < m => n + 1 \in 1 .. m
    BY <1>3
  <2> QED  BY <1>3, <2>1, <2>2
<1> QED  BY <1>2, <1>3, <1>4 DEF m

LEMMA ConsumedIs ==
  ASSUME NEW e \in Seq(Byte), HasCompleteLine(e)
  PROVE  /\ Consumed(e) \in LineEnd(e) + 1 .. Len(e)
         /\ Consumed(e) = Len(e) \/ ~EndsLine(e[Consumed(e) + 1])
         /\ \A n \in LineEnd(e) + 1 .. Consumed(e) - 1 : EndsLine(e[n + 1])
<1> DEFINE l == LineEnd(e)
           T == {n \in l + 1 .. Len(e) : n = Len(e) \/ ~EndsLine(e[n + 1])}
<1>1. l \in 0 .. Len(e) - 1 /\ Len(e) \in Nat
  BY LineEndIs, LenProperties
<1>2. Consumed(e) = Min(T)
  BY DEF Consumed
<1> HIDE DEF l
<1>3. T \subseteq Nat /\ Len(e) \in T
  BY <1>1
<1>4. Min(T) \in T /\ \A m \in T : Min(T) <= m
  <2> HIDE DEF T
  <2> QED  BY <1>3, MinIs
<1> DEFINE c == Min(T)
<1>5. c \in l + 1 .. Len(e) /\ (c = Len(e) \/ ~EndsLine(e[c + 1]))
  BY <1>4
<1>6. ASSUME NEW n \in l + 1 .. c - 1  PROVE EndsLine(e[n + 1])
  <2>1. n \notin T
    <3>1. c \in Nat /\ n \in Nat /\ n < c
      BY <1>1, <1>5
    <3> HIDE DEF T
    <3> QED  BY <1>4, <3>1
  <2>2. n \in l + 1 .. Len(e)
    BY <1>1, <1>5
  <2> QED  BY <2>1, <2>2
<1> QED  BY <1>2, <1>5, <1>6 DEF l

LEMMA ConsumedUnique ==
  ASSUME NEW e \in Seq(Byte), HasCompleteLine(e),
         NEW c \in LineEnd(e) + 1 .. Len(e),
         c = Len(e) \/ ~EndsLine(e[c + 1]),
         \A n \in LineEnd(e) + 1 .. c - 1 : EndsLine(e[n + 1])
  PROVE  Consumed(e) = c
<1> DEFINE d == Consumed(e)
           l == LineEnd(e)
<1>1. l \in 0 .. Len(e) - 1 /\ Len(e) \in Nat
  BY LineEndIs, LenProperties
<1>2. /\ d \in l + 1 .. Len(e)
      /\ d = Len(e) \/ ~EndsLine(e[d + 1])
      /\ \A n \in l + 1 .. d - 1 : EndsLine(e[n + 1])
  BY ConsumedIs
<1>3. /\ c \in l + 1 .. Len(e)
      /\ c = Len(e) \/ ~EndsLine(e[c + 1])
      /\ \A n \in l + 1 .. c - 1 : EndsLine(e[n + 1])
  OBVIOUS
<1> HIDE DEF d, l
<1>4. d < c => d \in l + 1 .. c - 1 /\ d # Len(e)
  BY <1>1, <1>2, <1>3
<1>5. c < d => c \in l + 1 .. d - 1 /\ c # Len(e)
  BY <1>1, <1>2, <1>3
<1>6. ~(d < c) /\ ~(c < d) /\ d \in Int /\ c \in Int
  BY <1>1, <1>2, <1>3, <1>4, <1>5
<1> QED  BY <1>6 DEF d


LEMMA SubSeqIs ==
  ASSUME NEW S, NEW s \in Seq(S), NEW i \in Nat, NEW j \in Nat, i <= j, j <= Len(s)
  PROVE  /\ SubSeq(s, i + 1, j) \in Seq(S) /\ Len(SubSeq(s, i + 1, j)) = j - i
         /\ \A k \in 1 .. j - i : SubSeq(s, i + 1, j)[k] = s[i + k]
<1>1. Len(s) \in Nat /\ \A k \in i + 1 .. j : s[k] \in S
  <2>1. Len(s) \in Nat /\ \A k \in 1 .. Len(s) : s[k] \in S
    BY LenProperties, ElementOfSeq
  <2> QED  BY <2>1
<1>2. i + 1 \in Int /\ j \in Int /\ i + 1 <= j + 1
  OBVIOUS
<1>3. SubSeq(s, i + 1, j) \in Seq(S)
      /\ Len(SubSeq(s, i + 1, j)) = IF i + 1 <= j THEN j - (i + 1) + 1 ELSE 0
  BY <1>1, <1>2, SubSeqProperties
<1>4. \A k \in 1 .. j - i : SubSeq(s, i + 1, j)[k] = s[i + k]
  <2> TAKE k \in 1 .. j - i
  <2>1. k \in 1 .. j - (i + 1) + 1 /\ i + 1 + k - 1 = i + k
    BY <1>2
  <2> QED  BY <1>1, <1>2, <2>1, SubSeqProperties
<1> QED  BY <1>2, <1>3, <1>4

(* The members of a sequence that are in a set, by recursion on the        *)
(* prefixes of the sequence.                                               *)
Keeps(kept, s, S, T) ==
  /\ kept \in [0 .. Len(s) -> Seq(S \cap T)]
  /\ kept[0] = <<>>
  /\ \A i \in 1 .. Len(s) :
       kept[i] = IF s[i] \in T THEN Append(kept[i - 1], s[i]) ELSE kept[i - 1]

LEMMA OnlyKeeps ==
  ASSUME NEW S, NEW T, NEW s \in Seq(S)
  PROVE  \E kept : Keeps(kept, s, S, T) /\ Only(s, T) = kept[Len(s)]
<1> DEFINE n == Len(s)
           ST == Seq(S \cap T)
           IsKept(f) == f = [i \in 0 .. n |->
                              IF i = 0 THEN <<>>
                              ELSE IF s[i] \in T THEN Append(f[i - 1], s[i])
                              ELSE f[i - 1]]
           step == [i \in 1 .. n |-> [x \in ST |->
                      IF s[i] \in T THEN Append(x, s[i]) ELSE x]]
           kept == CHOOSE f : IsKept(f)
<1>1. n \in Nat /\ \A i \in 1 .. n : s[i] \in S
  BY LenProperties, ElementOfSeq
<1>2. \A i \in 1 .. n : \A x \in ST : step[i][x] \in ST
  BY <1>1
<1>3. <<>> \in ST
  BY EmptySeq
<1>4. IsKept(kept)
  <2> HIDE DEF n, ST
  <2>1. PICK f : Iterates(f, ST, <<>>, n, step)
    <3> HIDE DEF step
    <3> QED  BY <1>1, <1>2, <1>3, Recursion, Zenon
  <2>2. ASSUME NEW i \in 1 .. n
        PROVE  f[i] = IF s[i] \in T THEN Append(f[i - 1], s[i]) ELSE f[i - 1]
    <3>1. i - 1 \in 0 .. n
      BY <1>1
    <3>2. f[i - 1] \in ST
      BY <2>1, <3>1 DEF Iterates
    <3> QED  BY <2>1, <3>2 DEF Iterates
  <2>3. IsKept(f)
    <3>1. \A i \in 0 .. n : i # 0 => i \in 1 .. n
      BY <1>1
    <3> HIDE DEF step
    <3> QED  BY <2>1, <2>2, <3>1 DEF Iterates
  <2> HIDE DEF IsKept
  <2> QED  BY <2>3
<1>5. Only(s, T) = kept[n]
  BY DEF Only
<1> HIDE DEF kept, step
<1>6. kept[0] = <<>>
  BY <1>1, <1>4
<1>7. ASSUME NEW i \in 1 .. n
      PROVE  kept[i] = IF s[i] \in T THEN Append(kept[i - 1], s[i]) ELSE kept[i - 1]
  <2>1. i \in 0 .. n /\ i # 0
    BY <1>1
  <2> QED  BY <1>4, <2>1
<1>8. \A i \in 0 .. n : kept[i] \in ST
  <2> DEFINE U == {i \in 0 .. n : kept[i] \notin ST}
  <2>1. ASSUME U # {}  PROVE FALSE
    <3>1. U \subseteq Nat
      BY <1>1
    <3>2. PICK i \in U : \A m \in U : i <= m
      <4> HIDE DEF U
      <4> QED  BY <2>1, <3>1, LeastNat
    <3>3. i # 0
      BY <1>3, <1>6, <3>2
    <3>4. i \in 1 .. n /\ i - 1 \in 0 .. n /\ i - 1 \notin U
      BY <1>1, <3>2, <3>3
    <3>5. kept[i - 1] \in ST
      BY <3>4
    <3>6. s[i] \in T => Append(kept[i - 1], s[i]) \in ST
      <4> SUFFICES ASSUME s[i] \in T  PROVE Append(kept[i - 1], s[i]) \in ST
        OBVIOUS
      <4>1. s[i] \in S \cap T
        BY <1>1, <3>4
      <4> QED  BY <3>5, <4>1, AppendProperties
    <3> QED  BY <1>7, <3>2, <3>4, <3>5, <3>6
  <2> QED  BY <2>1
<1>9. kept \in [0 .. n -> ST]
  BY <1>4, <1>8
<1> HIDE DEF ST, n
<1>10. Keeps(kept, s, S, T)
  BY <1>6, <1>7, <1>9 DEF Keeps, n, ST
<1> QED  BY <1>5, <1>10 DEF n

LEMMA OnlyIs ==
  ASSUME NEW S, NEW T, NEW s \in Seq(S)
  PROVE  /\ Only(s, T) \in Seq(S \cap T) /\ Only(s, T) \in Seq(S)
         /\ Len(Only(s, T)) <= Len(s)
<1>1. PICK kept : Keeps(kept, s, S, T) /\ Only(s, T) = kept[Len(s)]
  BY OnlyKeeps
<1>2. Len(s) \in Nat /\ \A i \in 1 .. Len(s) : s[i] \in S
  BY LenProperties, ElementOfSeq
<1> DEFINE U == {i \in 0 .. Len(s) : ~(Len(kept[i]) <= i)}
<1>3. ASSUME U # {}  PROVE FALSE
  <2>1. U \subseteq Nat
    BY <1>2
  <2>2. PICK i \in U : \A m \in U : i <= m
    <3> HIDE DEF U
    <3> QED  BY <1>3, <2>1, LeastNat
  <2>3. i # 0
    <3>1. kept[0] = <<>> /\ Len(<<>>) = 0
      BY <1>1 DEF Keeps
    <3> QED  BY <2>2, <3>1
  <2>4. i \in 1 .. Len(s) /\ i - 1 \in 0 .. Len(s) /\ i - 1 \notin U
    BY <1>2, <2>2, <2>3
  <2>5. PICK x \in Seq(S \cap T) : x = kept[i - 1] /\ Len(x) \in Nat /\ Len(x) <= i - 1
    <3>1. kept[i - 1] \in Seq(S \cap T) /\ Len(kept[i - 1]) <= i - 1
      BY <1>1, <2>4 DEF Keeps
    <3> QED  BY <3>1, LenProperties
  <2>6. kept[i] = IF s[i] \in T THEN Append(x, s[i]) ELSE x
    BY <1>1, <2>4, <2>5 DEF Keeps
  <2>7. s[i] \in T => Len(Append(x, s[i])) = Len(x) + 1
    <3> SUFFICES ASSUME s[i] \in T  PROVE Len(Append(x, s[i])) = Len(x) + 1
      OBVIOUS
    <3>1. s[i] \in S \cap T
      BY <1>2, <2>4
    <3> QED  BY <2>5, <3>1, AppendProperties
  <2>8. Len(kept[i]) <= i
    <3>1. CASE s[i] \in T
      BY <2>4, <2>5, <2>6, <2>7, <3>1
    <3>2. CASE s[i] \notin T
      BY <2>4, <2>5, <2>6, <3>2
    <3> QED  BY <3>1, <3>2
  <2> QED  BY <2>2, <2>8
<1>4. Len(s) \in 0 .. Len(s) /\ Len(s) \notin U
  BY <1>2, <1>3
<1>5. Only(s, T) \in Seq(S \cap T)
  BY <1>1, <1>4 DEF Keeps
<1>6. Only(s, T) \in Seq(S)
  <2>1. Seq(S \cap T) \subseteq Seq(S)
    OBVIOUS
  <2> QED  BY <1>5, <2>1
<1> QED  BY <1>1, <1>4, <1>5, <1>6

LEMMA FilterOnly ==
  ASSUME NEW str \in Seq(Byte)
  PROVE  Filter[str] = Only(str, Printables)
BY DEF Filter, Only, Printable, Printables

(* What is filtered out of a text is bytes, and not more of them.          *)
LEMMA FilterIs ==
  ASSUME NEW str \in Seq(Byte)
  PROVE  Filter[str] \in Seq(Byte) /\ Len(Filter[str]) <= Len(str)
BY FilterOnly, OnlyIs

LEMMA TrimIs ==
  ASSUME NEW str \in Seq(Byte)
  PROVE  Trim(str) \in Seq(Byte) /\ Len(Trim(str)) <= Len(str)
<1> DEFINE kept == {i \in DOMAIN str : str[i] # Blank}
<1>1. Len(str) \in Nat /\ DOMAIN str = 1 .. Len(str)
  BY LenProperties
<1>2. CASE kept = {}
  <2>1. Trim(str) = <<>>
    BY <1>2 DEF Trim
  <2> QED  BY <1>1, <2>1
<1>3. CASE kept # {}
  <2>1. Trim(str) = SubSeq(str, Min(kept), Max(kept))
    BY <1>3 DEF Trim
  <2>2. kept \subseteq 1 .. Len(str)
    BY <1>1
  <2> HIDE DEF kept
  <2>3. PICK i \in Nat, j \in Nat : Spans(kept, Len(str), i, j)
    BY <1>1, <1>3, <2>2, SpanIs
  <2>5. /\ i \in Nat /\ j \in Nat /\ Min(kept) = i + 1 /\ j = Max(kept)
        /\ i <= j /\ j <= Len(str)
    BY <2>3 DEF Spans
  <2>6. SubSeq(str, i + 1, j) \in Seq(Byte) /\ Len(SubSeq(str, i + 1, j)) = j - i
    BY <2>5, SubSeqIs
  <2>7. Len(Trim(str)) = j - i /\ j - i <= Len(str)
    BY <1>1, <2>1, <2>5, <2>6
  <2> QED  BY <2>1, <2>5, <2>6, <2>7
<1> QED  BY <1>2, <1>3

(* A line is bytes, and not more of them than come before its end.         *)
LEMMA LineOfIs ==
  ASSUME NEW e \in Seq(Byte), HasCompleteLine(e)
  PROVE  LineOf(e) \in Seq(Byte) /\ Len(LineOf(e)) <= LineEnd(e)
<1> DEFINE l == LineEnd(e)
<1>1. l \in Nat /\ l <= Len(e) /\ Len(e) \in Nat
  <2>1. l \in 0 .. Len(e) - 1 /\ Len(e) \in Nat
    BY LineEndIs, LenProperties
  <2> QED  BY <2>1
<1> HIDE DEF l
<1>2. PICK s \in Seq(Byte) : s = SubSeq(e, 1, l) /\ Len(s) = l
  <2>1. SubSeq(e, 1, l) \in Seq(Byte) /\ Len(SubSeq(e, 1, l)) = l
    BY <1>1, Parts
  <2> QED  BY <2>1, Zenon
<1>3. PICK t \in Seq(Byte) : t = Filter[s] /\ Len(t) <= Len(s)
  BY FilterIs
<1>4. Trim(t) \in Seq(Byte) /\ Len(Trim(t)) <= Len(t)
  BY TrimIs
<1>5. LineOf(e) = Trim(t)
  BY <1>2, <1>3 DEF LineOf, l
<1>6. Len(t) \in Nat /\ Len(Trim(t)) \in Nat
  BY <1>4, LenProperties
<1> QED  BY <1>1, <1>2, <1>3, <1>4, <1>5, <1>6 DEF l


-----------------------------------------------------------------------------
(* The queue of lines that a sequence of bytes is.                         *)

Rest(e, n) == SubSeq(e, n + 1, Len(e))

LEMMA RestIs ==
  ASSUME NEW e \in Seq(Byte), NEW n \in 0 .. Len(e)
  PROVE  /\ Rest(e, n) \in Seq(Byte) /\ Len(Rest(e, n)) = Len(e) - n
         /\ \A k \in 1 .. Len(e) - n : Rest(e, n)[k] = e[n + k]
<1>1. n \in Nat /\ n <= Len(e)
  BY LenProperties
<1> QED  BY <1>1, Parts DEF Rest

LEMMA RestOfRest ==
  ASSUME NEW e \in Seq(Byte), NEW n \in 0 .. Len(e), NEW m \in 0 .. Len(e) - n
  PROVE  Rest(Rest(e, n), m) = Rest(e, n + m)
<1>1. Len(e) \in Nat /\ n \in Nat /\ m \in Nat /\ n + m \in 0 .. Len(e)
  BY LenProperties
<1>2. PICK r \in Seq(Byte) :
        /\ r = Rest(e, n) /\ Len(r) = Len(e) - n
        /\ \A k \in 1 .. Len(e) - n : r[k] = e[n + k]
  BY RestIs
<1>3. PICK s \in Seq(Byte) :
        /\ s = Rest(r, m) /\ Len(s) = Len(e) - n - m
        /\ \A k \in 1 .. Len(e) - n - m : s[k] = r[m + k]
  <2>1. m \in 0 .. Len(r) /\ Len(r) - m = Len(e) - n - m
    BY <1>2
  <2>2. /\ Rest(r, m) \in Seq(Byte) /\ Len(Rest(r, m)) = Len(r) - m
        /\ \A k \in 1 .. Len(r) - m : Rest(r, m)[k] = r[m + k]
    BY <2>1, RestIs
  <2> QED  BY <2>1, <2>2
<1>4. PICK t \in Seq(Byte) :
        /\ t = Rest(e, n + m) /\ Len(t) = Len(e) - (n + m)
        /\ \A k \in 1 .. Len(e) - (n + m) : t[k] = e[n + m + k]
  BY <1>1, RestIs
<1>5. Len(s) = Len(t) /\ \A k \in 1 .. Len(s) : s[k] = t[k]
  <2>1. Len(s) = Len(t)
    BY <1>1, <1>3, <1>4
  <2>2. ASSUME NEW k \in 1 .. Len(s)  PROVE s[k] = t[k]
    <3>1. k \in 1 .. Len(e) - n - m /\ m + k \in 1 .. Len(e) - n
          /\ k \in 1 .. Len(e) - (n + m) /\ n + (m + k) = n + m + k
      BY <1>1, <1>3
    <3> QED  BY <1>2, <1>3, <1>4, <3>1
  <2> QED  BY <2>1, <2>2
<1> QED  BY <1>2, <1>3, <1>4, <1>5, SeqEqual

(* The recursion of LinesIn.                                               *)
IsFrom(f, e) ==
  f = [i \in 0 .. Len(e) |->
         IF HasCompleteLine(Rest(e, i))
         THEN <<LineOf(Rest(e, i))>> \o f[i + Consumed(Rest(e, i))]
         ELSE <<>>]

From(e) == CHOOSE f : IsFrom(f, e)

LEMMA LinesInFrom == \A e : LinesIn(e) = From(e)[0]
BY DEF LinesIn, From, IsFrom, Rest

(* Each line takes some bytes with it, and no more than there are.         *)
LEMMA Advances ==
  ASSUME NEW e \in Seq(Byte), NEW i \in 0 .. Len(e), HasCompleteLine(Rest(e, i))
  PROVE  /\ Consumed(Rest(e, i)) \in 1 .. Len(e) - i
         /\ i + Consumed(Rest(e, i)) \in i + 1 .. Len(e)
         /\ LineOf(Rest(e, i)) \in Seq(Byte)
<1>1. Len(e) \in Nat /\ i \in Nat
  BY LenProperties
<1>2. PICK r \in Seq(Byte) : r = Rest(e, i) /\ Len(r) = Len(e) - i
  BY RestIs
<1>3. LineEnd(r) \in 0 .. Len(r) - 1 /\ Consumed(r) \in LineEnd(r) + 1 .. Len(r)
  BY <1>2, LineEndIs, ConsumedIs
<1>4. LineOf(r) \in Seq(Byte)
  BY <1>2, LineOfIs
<1>5. Consumed(r) \in 1 .. Len(e) - i /\ i + Consumed(r) \in i + 1 .. Len(e)
  BY <1>1, <1>2, <1>3
<1> QED  BY <1>2, <1>4, <1>5

LEMMA FromExists ==
  ASSUME NEW e \in Seq(Byte)
  PROVE  IsFrom(From(e), e)
<1> DEFINE n == Len(e)
           Line(i) == LineOf(Rest(e, i))
           Next1(i) == i + Consumed(Rest(e, i))
           Is(f, m) == /\ f \in [n - m .. n -> Seq(Seq(Byte))]
                       /\ \A i \in n - m .. n :
                            f[i] = IF HasCompleteLine(Rest(e, i))
                                   THEN <<Line(i)>> \o f[Next1(i)] ELSE <<>>
           T == {m \in 0 .. n : ~ \E f : Is(f, m)}
<1>1. n \in Nat /\ e \in Seq(Byte)
  BY LenProperties
<1>2. ASSUME NEW i \in 0 .. n, HasCompleteLine(Rest(e, i))
      PROVE  Next1(i) \in i + 1 .. n /\ Line(i) \in Seq(Byte)
  BY <1>2, Advances
<1>3. ~HasCompleteLine(Rest(e, n))
  <2>1. Len(Rest(e, n)) = 0 /\ Rest(e, n) \in Seq(Byte)
    BY <1>1, RestIs
  <2>2. DOMAIN Rest(e, n) = {}
    BY <2>1
  <2> QED  BY <2>2 DEF HasCompleteLine
<1> HIDE DEF n, Line, Next1
<1>4. ASSUME T # {}  PROVE FALSE
  <2>1. T \subseteq Nat
    BY <1>1
  <2>2. PICK m \in T : \A k \in T : m <= k
    <3> HIDE DEF T
    <3> QED  BY <1>4, <2>1, LeastNat
  <2>3. m \in 0 .. n
    BY <2>2
  <2>4. m # 0
    <3> DEFINE f == [i \in n - 0 .. n |-> <<>>]
    <3>1. \A i \in n - 0 .. n : i = n
      BY <1>1
    <3>2. f \in [n - 0 .. n -> Seq(Seq(Byte))]
      OBVIOUS
    <3>3. \A i \in n - 0 .. n :
            f[i] = IF HasCompleteLine(Rest(e, i)) THEN <<Line(i)>> \o f[Next1(i)] ELSE <<>>
      BY <1>3, <3>1
    <3> HIDE DEF f
    <3>4. Is(f, 0)
      BY <3>2, <3>3
    <3> HIDE DEF Is
    <3>5. 0 \notin T
      BY <3>4
    <3> HIDE DEF T
    <3> QED  BY <2>2, <3>5
  <2>5. m - 1 \in 0 .. n /\ m - 1 \notin T
    <3>1. m - 1 \in Nat /\ ~(m <= m - 1) /\ m - 1 \in 0 .. n
      BY <1>1, <2>3, <2>4
    <3> HIDE DEF T
    <3> QED  BY <2>2, <3>1
  <2>6. PICK f : Is(f, m - 1)
    <3> HIDE DEF Is
    <3> QED  BY <2>5
  <2> DEFINE a == n - m
             new == IF HasCompleteLine(Rest(e, a))
                    THEN <<Line(a)>> \o f[Next1(a)] ELSE <<>>
             g == [i \in a .. n |-> IF i = a THEN new ELSE f[i]]
  <2>7. a \in 0 .. n /\ n - (m - 1) = a + 1
    BY <1>1, <2>3
  <2>8. /\ f \in [a + 1 .. n -> Seq(Seq(Byte))]
        /\ \A i \in a + 1 .. n :
             f[i] = IF HasCompleteLine(Rest(e, i))
                    THEN <<Line(i)>> \o f[Next1(i)] ELSE <<>>
    BY <2>6, <2>7, Zenon
  <2> HIDE DEF a
  <2>9. new \in Seq(Seq(Byte))
    <3>1. CASE HasCompleteLine(Rest(e, a))
      <4>1. Next1(a) \in a + 1 .. n /\ Line(a) \in Seq(Byte)
        BY <1>2, <2>7, <3>1
      <4>2. f[Next1(a)] \in Seq(Seq(Byte)) /\ <<Line(a)>> \in Seq(Seq(Byte))
        BY <2>8, <4>1
      <4>3. <<Line(a)>> \o f[Next1(a)] \in Seq(Seq(Byte))
        BY <4>2, ConcatProperties
      <4> QED  BY <3>1, <4>3
    <3>2. CASE ~HasCompleteLine(Rest(e, a))
      BY <3>2, EmptySeq
    <3> QED  BY <3>1, <3>2
  <2> HIDE DEF new
  <2>10. g \in [a .. n -> Seq(Seq(Byte))]
    <3>1. \A i \in a .. n : i # a => i \in a + 1 .. n
      BY <1>1, <2>7
    <3>2. \A i \in a .. n : (IF i = a THEN new ELSE f[i]) \in Seq(Seq(Byte))
      BY <2>8, <2>9, <3>1
    <3> QED  BY <3>2
  <2>11. \A i \in a + 1 .. n : g[i] = f[i]
    BY <1>1, <2>7
  <2>12. g[a] = new
    BY <1>1, <2>7
  <2> HIDE DEF g
  <2>13. ASSUME NEW i \in a .. n
         PROVE  g[i] = IF HasCompleteLine(Rest(e, i))
                       THEN <<Line(i)>> \o g[Next1(i)] ELSE <<>>
    <3>1. i \in 0 .. n /\ (i = a \/ i \in a + 1 .. n)
      BY <1>1, <2>7
    <3>2. ASSUME HasCompleteLine(Rest(e, i))
          PROVE  g[Next1(i)] = f[Next1(i)]
      <4>1. Next1(i) \in i + 1 .. n
        BY <1>2, <3>1, <3>2
      <4>2. Next1(i) \in a + 1 .. n
        BY <1>1, <2>7, <3>1, <4>1
      <4> QED  BY <2>11, <4>2
    <3>3. CASE i = a
      BY <2>12, <3>2, <3>3 DEF new
    <3>4. CASE i \in a + 1 .. n
      BY <2>8, <2>11, <3>2, <3>4
    <3> QED  BY <3>1, <3>3, <3>4
  <2>14. Is(g, m)
    BY <2>10, <2>13 DEF a
  <2>15. ~ \E h : Is(h, m)
    <3> HIDE DEF Is
    <3> QED  BY <2>2
  <2> HIDE DEF Is
  <2> QED  BY <2>14, <2>15
<1>5. PICK f : Is(f, n)
  <2>1. n \in 0 .. n /\ n \notin T
    <3> HIDE DEF T
    <3> QED  BY <1>1, <1>4
  <2> HIDE DEF Is
  <2> QED  BY <2>1
<1>6. IsFrom(f, e)
  <2>1. n - n = 0
    BY <1>1
  <2>2. f = [i \in 0 .. n |->
               IF HasCompleteLine(Rest(e, i))
               THEN <<Line(i)>> \o f[Next1(i)] ELSE <<>>]
    BY <1>5, <2>1
  <2> QED  BY <2>2 DEF IsFrom, Line, Next1, n
<1> QED  BY <1>6 DEF From


LEMMA FromIs ==
  ASSUME NEW e \in Seq(Byte), NEW i \in 0 .. Len(e)
  PROVE  From(e)[i] = IF HasCompleteLine(Rest(e, i))
                      THEN <<LineOf(Rest(e, i))>> \o From(e)[i + Consumed(Rest(e, i))]
                      ELSE <<>>
BY FromExists DEF IsFrom

(* What is read from a position on is what the rest is read as.            *)
LEMMA FromRest ==
  ASSUME NEW e \in Seq(Byte), NEW i \in 0 .. Len(e)
  PROVE  From(e)[i] = LinesIn(Rest(e, i))
<1>1. PICK r \in Seq(Byte) : r = Rest(e, i) /\ Len(r) = Len(e) - i
  BY RestIs
<1>2. Len(e) \in Nat /\ Len(r) \in Nat /\ i \in Nat /\ i + Len(r) = Len(e)
  BY <1>1, LenProperties
<1> DEFINE Same(j) == From(e)[i + j] = From(r)[j]
           T == {m \in 0 .. Len(r) : ~Same(Len(r) - m)}
<1>3. ASSUME T # {}  PROVE FALSE
  <2>1. T \subseteq Nat
    BY <1>2
  <2>2. PICK m \in T : \A k \in T : m <= k
    <3> HIDE DEF T
    <3> QED  BY <1>3, <2>1, LeastNat
  <2>3. PICK j \in 0 .. Len(r) : j = Len(r) - m /\ ~Same(j) /\ m = Len(r) - j
    <3>1. m \in 0 .. Len(r) /\ ~Same(Len(r) - m)
      BY <2>2
    <3>2. Len(r) - m \in 0 .. Len(r) /\ m = Len(r) - (Len(r) - m)
      BY <1>2, <3>1
    <3> HIDE DEF Same
    <3> QED  BY <3>1, <3>2
  <2>4. ASSUME NEW k \in j + 1 .. Len(r)  PROVE Same(k)
    <3>1. Len(r) - k \in 0 .. Len(r) /\ ~(m <= Len(r) - k) /\ Len(r) - (Len(r) - k) = k
      BY <1>2, <2>3
    <3>2. Len(r) - k \notin T
      <4> HIDE DEF T
      <4> QED  BY <2>2, <3>1
    <3>3. Same(Len(r) - (Len(r) - k))
      <4> HIDE DEF Same
      <4> QED  BY <3>1, <3>2
    <3> HIDE DEF Same
    <3> QED  BY <3>1, <3>3
  <2>5. i + j \in 0 .. Len(e) /\ j \in 0 .. Len(e) - i
    BY <1>1, <1>2
  <2>6. PICK s : s = Rest(r, j) /\ s = Rest(e, i + j)
    BY <1>1, <2>5, RestOfRest
  <2>7. From(e)[i + j] = IF HasCompleteLine(s)
                         THEN <<LineOf(s)>> \o From(e)[(i + j) + Consumed(s)] ELSE <<>>
    BY <2>5, <2>6, FromIs
  <2>8. From(r)[j] = IF HasCompleteLine(s)
                     THEN <<LineOf(s)>> \o From(r)[j + Consumed(s)] ELSE <<>>
    BY <2>6, FromIs
  <2>9. ASSUME HasCompleteLine(s)
        PROVE  From(e)[(i + j) + Consumed(s)] = From(r)[j + Consumed(s)]
    <3>1. Consumed(s) \in 1 .. Len(r) - j /\ j + Consumed(s) \in j + 1 .. Len(r)
      BY <2>6, <2>9, Advances
    <3>2. Same(j + Consumed(s))
      BY <2>4, <3>1
    <3>3. (i + j) + Consumed(s) = i + (j + Consumed(s))
      BY <1>2, <3>1
    <3> QED  BY <3>2, <3>3
  <2>10. Same(j)
    BY <2>7, <2>8, <2>9
  <2> QED  BY <2>3, <2>10
<1>4. Same(0)
  <2>1. Len(r) \in 0 .. Len(r) /\ Len(r) - Len(r) = 0 /\ Len(r) \notin T
    <3> HIDE DEF T
    <3> QED  BY <1>2, <1>3
  <2> HIDE DEF Same
  <2> QED  BY <2>1
<1>5. i + 0 = i
  BY <1>2
<1> QED  BY <1>1, <1>4, <1>5, LinesInFrom

LEMMA RestOfNone ==
  ASSUME NEW e \in Seq(Byte)
  PROVE  Rest(e, 0) = e /\ Rest(e, Len(e)) = <<>>
<1>1. Len(e) \in Nat /\ SubSeq(e, 1, Len(e)) = e
  BY LenProperties, SubSeqFull
<1>2. Rest(e, 0) = e
  BY <1>1 DEF Rest
<1>3. Rest(e, Len(e)) \in Seq(Byte) /\ Len(Rest(e, Len(e))) = 0
  <2>1. Len(e) \in 0 .. Len(e)
    BY <1>1
  <2> QED  BY <1>1, <2>1, RestIs
<1> QED  BY <1>2, <1>3, EmptySeq

(* The queue is the line that is read next and the queue of the rest.      *)
LEMMA LinesInIs ==
  ASSUME NEW e \in Seq(Byte)
  PROVE  LinesIn(e) = IF HasCompleteLine(e)
                      THEN <<LineOf(e)>> \o LinesIn(Rest(e, Consumed(e)))
                      ELSE <<>>
<1>1. Len(e) \in Nat /\ 0 \in 0 .. Len(e) /\ Rest(e, 0) = e
  BY LenProperties, RestOfNone
<1>2. From(e)[0] = IF HasCompleteLine(e)
                   THEN <<LineOf(e)>> \o From(e)[0 + Consumed(e)] ELSE <<>>
  BY <1>1, FromIs
<1>3. ASSUME HasCompleteLine(e)
      PROVE  From(e)[0 + Consumed(e)] = LinesIn(Rest(e, Consumed(e)))
  <2>1. Consumed(e) \in 1 .. Len(e) - 0
    BY <1>1, <1>3, Advances
  <2>2. Consumed(e) \in 0 .. Len(e) /\ 0 + Consumed(e) = Consumed(e)
    BY <1>1, <2>1
  <2> QED  BY <2>2, FromRest
<1> QED  BY <1>2, <1>3, LinesInFrom

LEMMA LinesInType ==
  ASSUME NEW e \in Seq(Byte)
  PROVE  LinesIn(e) \in Seq(Seq(Byte))
<1> DEFINE P(x) == LinesIn(x) \in Seq(Seq(Byte))
           T == {m \in Nat : \E x \in Seq(Byte) : Len(x) = m /\ ~P(x)}
<1>1. ASSUME T # {}  PROVE FALSE
  <2>1. PICK m \in T : \A k \in T : m <= k
    <3>1. T \subseteq Nat
      OBVIOUS
    <3> HIDE DEF T
    <3> QED  BY <1>1, <3>1, LeastNat
  <2>2. PICK x \in Seq(Byte) : Len(x) = m /\ ~P(x)
    BY <2>1
  <2>3. m \in Nat
    BY <2>1
  <2>4. CASE ~HasCompleteLine(x)
    <3>1. LinesIn(x) = <<>>
      BY <2>4, LinesInIs
    <3> QED  BY <2>2, <3>1
  <2>5. CASE HasCompleteLine(x)
    <3>1. Rest(x, 0) = x /\ 0 \in 0 .. Len(x)
      BY <2>2, <2>3, RestOfNone
    <3>2. Consumed(x) \in 1 .. Len(x) - 0 /\ LineOf(x) \in Seq(Byte)
      BY <2>5, <3>1, Advances
    <3>3. PICK c \in 1 .. Len(x) : c = Consumed(x)
      BY <2>2, <2>3, <3>2
    <3>4. PICK r \in Seq(Byte) : r = Rest(x, c) /\ Len(r) = Len(x) - c
      <4>1. c \in 0 .. Len(x)
        BY <2>2, <2>3
      <4> QED  BY <4>1, RestIs
    <3>5. Len(r) \in Nat /\ ~(m <= Len(r))
      BY <2>2, <2>3, <3>3, <3>4, LenProperties
    <3>6. Len(r) \notin T
      <4> HIDE DEF T
      <4> QED  BY <2>1, <3>5
    <3>7. P(r)
      <4> HIDE DEF P
      <4> QED  BY <3>5, <3>6
    <3>8. <<LineOf(x)>> \o LinesIn(r) \in Seq(Seq(Byte))
      <4>1. <<LineOf(x)>> \in Seq(Seq(Byte))
        BY <3>2
      <4> QED  BY <3>7, <4>1, ConcatProperties
    <3> QED  BY <2>2, <2>5, <3>3, <3>4, <3>8, LinesInIs
  <2> QED  BY <2>4, <2>5
<1> QED
  <2>1. Len(e) \in Nat /\ Len(e) \notin T
    <3> HIDE DEF T
    <3> QED  BY <1>1, LenProperties
  <2> HIDE DEF P
  <2>2. P(e)
    BY <2>1
  <2> QED  BY <2>2 DEF P

LEMMA PrefixIs ==
  ASSUME NEW S, NEW s \in Seq(S), NEW t \in Seq(S)
  PROVE  IsPrefix(s, t) <=> /\ Len(s) <= Len(t)
                            /\ \A k \in 1 .. Len(s) : s[k] = t[k]
<1>1. Len(s) \in Nat /\ Len(t) \in Nat /\ SubSeq(s, 1, Len(s)) = s
  BY LenProperties, SubSeqFull
<1>2. ASSUME Len(s) <= Len(t)
      PROVE  (s = SubSeq(t, 1, Len(s))) <=> \A k \in 1 .. Len(s) : s[k] = t[k]
  <2>1. PICK u \in Seq(S) : /\ u = SubSeq(t, 1, Len(s)) /\ Len(u) = Len(s)
                            /\ \A k \in 1 .. Len(s) : u[k] = t[k]
    <3>1. PICK i \in Nat : i = Len(s) /\ i <= Len(t)
      BY <1>1, <1>2
    <3>2. /\ SubSeq(t, 1, i) \in Seq(S) /\ Len(SubSeq(t, 1, i)) = i
          /\ \A k \in 1 .. i : SubSeq(t, 1, i)[k] = t[k]
      BY <3>1, Parts
    <3> QED  BY <3>1, <3>2
  <2>2. (\A k \in 1 .. Len(s) : s[k] = u[k]) => s = u
    BY <2>1, SeqEqual
  <2> QED  BY <2>1, <2>2
<1> QED  BY <1>1, <1>2 DEF IsPrefix

LEMMA PrefixAfterOne ==
  ASSUME NEW S, NEW x \in S, NEW s \in Seq(S), NEW t \in Seq(S), IsPrefix(s, t)
  PROVE  IsPrefix(<<x>> \o s, <<x>> \o t)
<1>1. Len(s) \in Nat /\ Len(t) \in Nat /\ Len(s) <= Len(t)
      /\ \A k \in 1 .. Len(s) : s[k] = t[k]
  BY PrefixIs, LenProperties
<1>2. PICK o \in Seq(S) : o = <<x>> /\ Len(o) = 1
  <2>1. <<x>> \in Seq(S)
    OBVIOUS
  <2>2. Len(<<x>>) = 1
    OBVIOUS
  <2> QED  BY <2>1, <2>2
<1>3. PICK u \in Seq(S) :
        /\ u = o \o s /\ Len(u) = 1 + Len(s)
        /\ \A k \in 1 .. 1 + Len(s) : u[k] = IF k <= 1 THEN o[k] ELSE s[k - 1]
  <2>1. /\ o \o s \in Seq(S) /\ Len(o \o s) = Len(o) + Len(s)
        /\ \A k \in 1 .. Len(o) + Len(s) :
             (o \o s)[k] = IF k <= Len(o) THEN o[k] ELSE s[k - Len(o)]
    BY ConcatProperties
  <2> QED  BY <1>2, <2>1
<1>4. PICK v \in Seq(S) :
        /\ v = o \o t /\ Len(v) = 1 + Len(t)
        /\ \A k \in 1 .. 1 + Len(t) : v[k] = IF k <= 1 THEN o[k] ELSE t[k - 1]
  <2>1. /\ o \o t \in Seq(S) /\ Len(o \o t) = Len(o) + Len(t)
        /\ \A k \in 1 .. Len(o) + Len(t) :
             (o \o t)[k] = IF k <= Len(o) THEN o[k] ELSE t[k - Len(o)]
    BY ConcatProperties
  <2> QED  BY <1>2, <2>1
<1>5. ASSUME NEW k \in 1 .. Len(u)  PROVE u[k] = v[k]
  <2>1. k \in 1 .. 1 + Len(s) /\ k \in 1 .. 1 + Len(t)
        /\ (~(k <= 1) => k - 1 \in 1 .. Len(s))
    BY <1>1, <1>3
  <2> QED  BY <1>1, <1>3, <1>4, <2>1
<1>6. Len(u) <= Len(v)
  BY <1>1, <1>3, <1>4
<1>7. IsPrefix(u, v)
  BY <1>5, <1>6, PrefixIs
<1> QED  BY <1>2, <1>3, <1>4, <1>7


LEMMA JoinIs ==
  ASSUME NEW S, NEW s \in Seq(S), NEW t \in Seq(S)
  PROVE  /\ s \o t \in Seq(S) /\ Len(s \o t) = Len(s) + Len(t)
         /\ Len(s) \in Nat /\ Len(t) \in Nat
         /\ \A k \in 1 .. Len(s) : (s \o t)[k] = s[k]
         /\ \A k \in 1 .. Len(t) : (s \o t)[Len(s) + k] = t[k]
<1>1. /\ s \o t \in Seq(S) /\ Len(s \o t) = Len(s) + Len(t)
      /\ \A k \in 1 .. Len(s) + Len(t) :
           (s \o t)[k] = IF k <= Len(s) THEN s[k] ELSE t[k - Len(s)]
  BY ConcatProperties
<1>2. Len(s) \in Nat /\ Len(t) \in Nat
  BY LenProperties
<1>3. ASSUME NEW k \in 1 .. Len(s)  PROVE (s \o t)[k] = s[k]
  <2>1. k \in 1 .. Len(s) + Len(t) /\ k <= Len(s)
    BY <1>2
  <2> QED  BY <1>1, <2>1
<1>4. ASSUME NEW k \in 1 .. Len(t)  PROVE (s \o t)[Len(s) + k] = t[k]
  <2>1. /\ Len(s) + k \in 1 .. Len(s) + Len(t) /\ ~(Len(s) + k <= Len(s))
        /\ (Len(s) + k) - Len(s) = k
    BY <1>2
  <2> QED  BY <1>1, <2>1
<1> QED  BY <1>1, <1>2, <1>3, <1>4

(* A complete line stays what it is when more arrives, and so does what it *)
(* takes with it, unless the end of the line could go on.                  *)
LEMMA LineStays ==
  ASSUME NEW e \in Seq(Byte), NEW b \in Seq(Byte), HasCompleteLine(e)
  PROVE  /\ HasCompleteLine(e \o b)
         /\ LineOf(e \o b) = LineOf(e)
         /\ Consumed(e) < Len(e) =>
              /\ Consumed(e \o b) = Consumed(e)
              /\ Rest(e \o b, Consumed(e)) = Rest(e, Consumed(e)) \o b
<1>1. PICK x \in Seq(Byte) :
        /\ x = e \o b /\ Len(x) = Len(e) + Len(b)
        /\ Len(e) \in Nat /\ Len(b) \in Nat
        /\ \A k \in 1 .. Len(e) : x[k] = e[k]
        /\ \A k \in 1 .. Len(b) : x[Len(e) + k] = b[k]
  <2>1. /\ e \o b \in Seq(Byte) /\ Len(e \o b) = Len(e) + Len(b)
        /\ Len(e) \in Nat /\ Len(b) \in Nat
        /\ \A k \in 1 .. Len(e) : (e \o b)[k] = e[k]
        /\ \A k \in 1 .. Len(b) : (e \o b)[Len(e) + k] = b[k]
    BY JoinIs
  <2> QED  BY <2>1
<1>2. PICK l \in 0 .. Len(e) - 1 :
        /\ l = LineEnd(e) /\ EndsLine(e[l + 1])
        /\ \A k \in 1 .. l : ~EndsLine(e[k])
  BY LineEndIs
<1>3. HasCompleteLine(x) /\ LineEnd(x) = l
  <2>1. l \in 0 .. Len(x) - 1 /\ l + 1 \in 1 .. Len(e)
    BY <1>1, <1>2
  <2>2. EndsLine(x[l + 1])
    BY <1>1, <1>2, <2>1
  <2>3. \A k \in 1 .. l : ~EndsLine(x[k])
    BY <1>1, <1>2
  <2> QED  BY <2>1, <2>2, <2>3, LineEndUnique
<1>4. SubSeq(x, 1, l) = SubSeq(e, 1, l)
  <2>1. l \in Nat /\ l <= Len(e) /\ l <= Len(x)
    BY <1>1, <1>2
  <2>2. PICK u \in Seq(Byte) : /\ u = SubSeq(e, 1, l) /\ Len(u) = l
                               /\ \A k \in 1 .. l : u[k] = e[k]
    <3>1. /\ SubSeq(e, 1, l) \in Seq(Byte) /\ Len(SubSeq(e, 1, l)) = l
          /\ \A k \in 1 .. l : SubSeq(e, 1, l)[k] = e[k]
      BY <2>1, Parts
    <3> QED  BY <3>1
  <2>3. PICK v \in Seq(Byte) : /\ v = SubSeq(x, 1, l) /\ Len(v) = l
                               /\ \A k \in 1 .. l : v[k] = x[k]
    <3>1. /\ SubSeq(x, 1, l) \in Seq(Byte) /\ Len(SubSeq(x, 1, l)) = l
          /\ \A k \in 1 .. l : SubSeq(x, 1, l)[k] = x[k]
      BY <2>1, Parts
    <3> QED  BY <3>1
  <2>4. Len(u) = Len(v) /\ \A k \in 1 .. Len(u) : u[k] = v[k]
    BY <1>1, <2>1, <2>2, <2>3
  <2> QED  BY <2>2, <2>3, <2>4, SeqEqual
<1>5. LineOf(x) = LineOf(e)
  BY <1>2, <1>3, <1>4 DEF LineOf
<1>6. ASSUME Consumed(e) < Len(e)
      PROVE  Consumed(x) = Consumed(e) /\ Rest(x, Consumed(e)) = Rest(e, Consumed(e)) \o b
  <2>1. PICK c \in l + 1 .. Len(e) :
          /\ c = Consumed(e) /\ (c = Len(e) \/ ~EndsLine(e[c + 1]))
          /\ \A n \in l + 1 .. c - 1 : EndsLine(e[n + 1])
    BY <1>2, ConsumedIs
  <2>2. /\ c \in l + 1 .. Len(x) /\ c \in 0 .. Len(e) /\ c \in 0 .. Len(x)
        /\ c + 1 \in 1 .. Len(e) /\ c # Len(e)
    BY <1>1, <1>2, <1>6, <2>1
  <2>3. ~EndsLine(x[c + 1])
    BY <1>1, <2>1, <2>2
  <2>4. \A n \in l + 1 .. c - 1 : EndsLine(x[n + 1])
    <3> TAKE n \in l + 1 .. c - 1
    <3>1. n + 1 \in 1 .. Len(e)
      BY <1>1, <1>2, <2>2
    <3> QED  BY <1>1, <2>1, <3>1
  <2>5. Consumed(x) = c
    BY <1>3, <2>2, <2>3, <2>4, ConsumedUnique
  <2>6. PICK r \in Seq(Byte) : /\ r = Rest(e, c) /\ Len(r) = Len(e) - c
                               /\ \A k \in 1 .. Len(e) - c : r[k] = e[c + k]
    BY <2>2, RestIs
  <2>7. PICK s \in Seq(Byte) : /\ s = Rest(x, c) /\ Len(s) = Len(x) - c
                               /\ \A k \in 1 .. Len(x) - c : s[k] = x[c + k]
    BY <2>2, RestIs
  <2>8. PICK t \in Seq(Byte) :
          /\ t = r \o b /\ Len(t) = Len(r) + Len(b)
          /\ \A k \in 1 .. Len(r) : t[k] = r[k]
          /\ \A k \in 1 .. Len(b) : t[Len(r) + k] = b[k]
    <3>1. /\ r \o b \in Seq(Byte) /\ Len(r \o b) = Len(r) + Len(b)
          /\ \A k \in 1 .. Len(r) : (r \o b)[k] = r[k]
          /\ \A k \in 1 .. Len(b) : (r \o b)[Len(r) + k] = b[k]
      BY JoinIs
    <3> QED  BY <3>1
  <2>9. Len(s) = Len(t) /\ \A k \in 1 .. Len(s) : s[k] = t[k]
    <3>1. Len(s) = Len(t)
      BY <1>1, <2>2, <2>6, <2>7, <2>8
    <3>2. ASSUME NEW k \in 1 .. Len(s)  PROVE s[k] = t[k]
      <4>1. s[k] = x[c + k]
        BY <2>7
      <4>2. CASE k <= Len(e) - c
        <5>1. k \in 1 .. Len(r) /\ k \in 1 .. Len(e) - c /\ c + k \in 1 .. Len(e)
          BY <1>1, <2>2, <2>6, <2>7, <4>2
        <5> QED  BY <1>1, <2>6, <2>8, <4>1, <5>1
      <4>3. CASE ~(k <= Len(e) - c)
        <5>1. PICK j \in 1 .. Len(b) : k = Len(r) + j /\ c + k = Len(e) + j
          <6>1. k - (Len(e) - c) \in 1 .. Len(b)
            BY <1>1, <2>2, <2>7, <4>3
          <6>2. /\ k = Len(r) + (k - (Len(e) - c))
                /\ c + k = Len(e) + (k - (Len(e) - c))
            BY <1>1, <2>2, <2>6, <2>7
          <6> QED  BY <6>1, <6>2
        <5> QED  BY <1>1, <2>8, <4>1, <5>1
      <4> QED  BY <4>2, <4>3
    <3> QED  BY <3>1, <3>2
  <2>10. s = t
    BY <2>7, <2>8, <2>9, SeqEqual
  <2> QED  BY <2>1, <2>5, <2>6, <2>7, <2>8, <2>10
<1> QED  BY <1>1, <1>3, <1>5, <1>6

(* What arrives adds lines to the queue and changes none (io.c:16-83).     *)
LEMMA ArrivingAdds ==
  ASSUME NEW e \in Seq(Byte), NEW b \in Seq(Byte)
  PROVE  IsPrefix(LinesIn(e), LinesIn(e \o b))
<1> DEFINE P(x) == IsPrefix(LinesIn(x), LinesIn(x \o b))
           T == {m \in Nat : \E x \in Seq(Byte) : Len(x) = m /\ ~P(x)}
<1>1. ASSUME NEW t \in Seq(Seq(Byte))  PROVE IsPrefix(<<>>, t)
  <2>1. <<>> \in Seq(Seq(Byte)) /\ Len(<<>>) = 0 /\ Len(t) \in Nat
    BY LenProperties
  <2>2. Len(<<>>) <= Len(t) /\ \A k \in 1 .. Len(<<>>) : <<>>[k] = t[k]
    BY <2>1
  <2> QED  BY <2>1, <2>2, PrefixIs
<1>2. ASSUME T # {}  PROVE FALSE
  <2>1. PICK m \in T : \A k \in T : m <= k
    <3>1. T \subseteq Nat
      OBVIOUS
    <3> HIDE DEF T
    <3> QED  BY <1>2, <3>1, LeastNat
  <2>2. PICK x \in Seq(Byte) : Len(x) = m /\ ~P(x)
    BY <2>1
  <2>3. m \in Nat
    BY <2>1
  <2>4. PICK y \in Seq(Byte) : y = x \o b
    BY ConcatProperties
  <2>5. LinesIn(x) \in Seq(Seq(Byte)) /\ LinesIn(y) \in Seq(Seq(Byte))
    BY LinesInType
  <2>6. CASE ~HasCompleteLine(x)
    <3>1. LinesIn(x) = <<>>
      BY <2>6, LinesInIs
    <3> QED  BY <1>1, <2>2, <2>4, <2>5, <3>1
  <2>7. CASE HasCompleteLine(x)
    <3>1. 0 \in 0 .. Len(x) /\ Rest(x, 0) = x
      BY <2>2, <2>3, RestOfNone
    <3>2. PICK c \in 1 .. Len(x) : c = Consumed(x)
      <4>1. Consumed(x) \in 1 .. Len(x) - 0
        BY <2>7, <3>1, Advances
      <4> QED  BY <2>2, <2>3, <4>1
    <3>3. PICK l \in Seq(Byte) : l = LineOf(x)
      BY <2>7, LineOfIs
    <3>4. HasCompleteLine(y) /\ LineOf(y) = l
      BY <2>4, <2>7, <3>3, LineStays
    <3>5. PICK r \in Seq(Byte) : r = Rest(x, c) /\ Len(r) = Len(x) - c
      <4>1. c \in 0 .. Len(x)
        BY <2>2, <2>3
      <4> QED  BY <4>1, RestIs
    <3>6. PICK s \in Seq(Byte) : s = Rest(y, Consumed(y))
      <4>1. 0 \in 0 .. Len(y) /\ Rest(y, 0) = y /\ Len(y) \in Nat
        BY LenProperties, RestOfNone
      <4>2. Consumed(y) \in 1 .. Len(y) - 0
        BY <3>4, <4>1, Advances
      <4>3. Consumed(y) \in 0 .. Len(y)
        BY <4>1, <4>2
      <4> QED  BY <4>3, RestIs
    <3>7. LinesIn(x) = <<l>> \o LinesIn(r) /\ LinesIn(y) = <<l>> \o LinesIn(s)
      BY <2>7, <3>2, <3>3, <3>4, <3>5, <3>6, LinesInIs
    <3>8. LinesIn(r) \in Seq(Seq(Byte)) /\ LinesIn(s) \in Seq(Seq(Byte))
      BY LinesInType
    <3>9. IsPrefix(LinesIn(r), LinesIn(s))
      <4>1. CASE c = Len(x)
        <5>1. Rest(x, Len(x)) = <<>>
          BY RestOfNone
        <5>2. r = <<>>
          BY <3>5, <4>1, <5>1
        <5>3. ~HasCompleteLine(r)
          BY <5>2 DEF HasCompleteLine
        <5>4. LinesIn(r) = <<>>
          BY <5>3, LinesInIs
        <5> QED  BY <1>1, <3>8, <5>4
      <4>2. CASE c # Len(x)
        <5>1. Consumed(x) < Len(x)
          BY <2>2, <2>3, <3>2, <4>2
        <5>2. Consumed(y) = c /\ Rest(y, c) = r \o b
          BY <2>4, <2>7, <3>2, <3>5, <5>1, LineStays
        <5>3. s = r \o b
          BY <3>6, <5>2
        <5>4. Len(r) \in Nat /\ ~(m <= Len(r))
          BY <2>2, <2>3, <3>2, <3>5, LenProperties
        <5>5. Len(r) \notin T
          <6> HIDE DEF T
          <6> QED  BY <2>1, <5>4
        <5>6. P(r)
          <6> HIDE DEF P
          <6> QED  BY <5>4, <5>5
        <5> QED  BY <5>3, <5>6
      <4> QED  BY <4>1, <4>2
    <3>10. IsPrefix(<<l>> \o LinesIn(r), <<l>> \o LinesIn(s))
      BY <3>8, <3>9, PrefixAfterOne
    <3> QED  BY <2>2, <2>4, <3>7, <3>10
  <2> QED  BY <2>6, <2>7
<1> QED
  <2>1. Len(e) \in Nat /\ Len(e) \notin T
    <3> HIDE DEF T
    <3> QED  BY <1>2, LenProperties
  <2> HIDE DEF P
  <2>2. P(e)
    BY <2>1
  <2> QED  BY <2>2 DEF P


-----------------------------------------------------------------------------
(* Parts of the stream.                                                    *)

LEMMA PartsJoin ==
  ASSUME NEW S, NEW s \in Seq(S), NEW i \in Nat, NEW j \in Nat, NEW k \in Nat,
         i <= j, j <= k, k <= Len(s)
  PROVE  SubSeq(s, i + 1, j) \o SubSeq(s, j + 1, k) = SubSeq(s, i + 1, k)
<1>1. PICK u \in Seq(S) : /\ u = SubSeq(s, i + 1, j) /\ Len(u) = j - i
                          /\ \A n \in 1 .. j - i : u[n] = s[i + n]
  <2>1. /\ SubSeq(s, i + 1, j) \in Seq(S) /\ Len(SubSeq(s, i + 1, j)) = j - i
        /\ \A n \in 1 .. j - i : SubSeq(s, i + 1, j)[n] = s[i + n]
    <3>1. j <= Len(s)
      BY LenProperties
    <3> QED  BY <3>1, SubSeqIs
  <2> QED  BY <2>1
<1>2. PICK v \in Seq(S) : /\ v = SubSeq(s, j + 1, k) /\ Len(v) = k - j
                          /\ \A n \in 1 .. k - j : v[n] = s[j + n]
  <2>1. /\ SubSeq(s, j + 1, k) \in Seq(S) /\ Len(SubSeq(s, j + 1, k)) = k - j
        /\ \A n \in 1 .. k - j : SubSeq(s, j + 1, k)[n] = s[j + n]
    BY SubSeqIs
  <2> QED  BY <2>1
<1>3. PICK w \in Seq(S) : /\ w = SubSeq(s, i + 1, k) /\ Len(w) = k - i
                          /\ \A n \in 1 .. k - i : w[n] = s[i + n]
  <2>1. /\ SubSeq(s, i + 1, k) \in Seq(S) /\ Len(SubSeq(s, i + 1, k)) = k - i
        /\ \A n \in 1 .. k - i : SubSeq(s, i + 1, k)[n] = s[i + n]
    <3>1. i <= k
      OBVIOUS
    <3> QED  BY <3>1, SubSeqIs
  <2> QED  BY <2>1
<1>4. PICK x \in Seq(S) : /\ x = u \o v /\ Len(x) = Len(u) + Len(v)
                          /\ \A n \in 1 .. Len(u) : x[n] = u[n]
                          /\ \A n \in 1 .. Len(v) : x[Len(u) + n] = v[n]
  <2>1. /\ u \o v \in Seq(S) /\ Len(u \o v) = Len(u) + Len(v)
        /\ \A n \in 1 .. Len(u) : (u \o v)[n] = u[n]
        /\ \A n \in 1 .. Len(v) : (u \o v)[Len(u) + n] = v[n]
    BY JoinIs
  <2> QED  BY <2>1
<1>5. Len(x) = Len(w)
  BY <1>1, <1>2, <1>3, <1>4
<1>6. ASSUME NEW n \in 1 .. Len(x)  PROVE x[n] = w[n]
  <2>1. w[n] = s[i + n]
    BY <1>3, <1>5
  <2>2. CASE n <= j - i
    BY <1>1, <1>4, <2>1, <2>2
  <2>3. CASE ~(n <= j - i)
    <3>1. PICK m \in 1 .. k - j : n = (j - i) + m /\ i + n = j + m
      <4>1. n - (j - i) \in 1 .. k - j
        BY <1>1, <1>2, <1>4, <2>3
      <4>2. n = (j - i) + (n - (j - i)) /\ i + n = j + (n - (j - i))
        BY <1>1, <1>2, <1>4
      <4> QED  BY <4>1, <4>2
    <3>2. v[m] = s[j + m] /\ x[Len(u) + m] = v[m]
      BY <1>2, <1>4
    <3>3. Len(u) + m = n
      BY <1>1, <3>1
    <3> QED  BY <2>1, <3>1, <3>2, <3>3, Zenon
  <2> QED  BY <2>2, <2>3
<1>7. x = w
  BY <1>5, <1>6, SeqEqual
<1> QED  BY <1>1, <1>2, <1>3, <1>4, <1>7

LEMMA RestOfPart ==
  ASSUME NEW s \in Seq(Byte), NEW i \in Nat, NEW j \in Nat, i <= j, j <= Len(s),
         NEW n \in 0 .. j - i
  PROVE  Rest(SubSeq(s, i + 1, j), n) = SubSeq(s, i + n + 1, j)
<1>1. PICK u \in Seq(Byte) : /\ u = SubSeq(s, i + 1, j) /\ Len(u) = j - i
                             /\ \A k \in 1 .. j - i : u[k] = s[i + k]
  <2>1. /\ SubSeq(s, i + 1, j) \in Seq(Byte) /\ Len(SubSeq(s, i + 1, j)) = j - i
        /\ \A k \in 1 .. j - i : SubSeq(s, i + 1, j)[k] = s[i + k]
    BY SubSeqIs
  <2> QED  BY <2>1
<1>2. PICK v \in Seq(Byte) : /\ v = Rest(u, n) /\ Len(v) = Len(u) - n
                             /\ \A k \in 1 .. Len(u) - n : v[k] = u[n + k]
  <2>1. n \in 0 .. Len(u)
    BY <1>1
  <2>2. /\ Rest(u, n) \in Seq(Byte) /\ Len(Rest(u, n)) = Len(u) - n
        /\ \A k \in 1 .. Len(u) - n : Rest(u, n)[k] = u[n + k]
    BY <2>1, RestIs
  <2> QED  BY <2>2
<1>3. PICK w \in Seq(Byte) : /\ w = SubSeq(s, i + n + 1, j) /\ Len(w) = j - (i + n)
                             /\ \A k \in 1 .. j - (i + n) : w[k] = s[i + n + k]
  <2>1. PICK m \in Nat : m = i + n /\ m <= j
    OBVIOUS
  <2>2. /\ SubSeq(s, m + 1, j) \in Seq(Byte) /\ Len(SubSeq(s, m + 1, j)) = j - m
        /\ \A k \in 1 .. j - m : SubSeq(s, m + 1, j)[k] = s[m + k]
    BY <2>1, SubSeqIs
  <2> QED  BY <2>1, <2>2
<1>4. Len(v) = Len(w) /\ \A k \in 1 .. Len(v) : v[k] = w[k]
  <2>1. Len(v) = Len(w)
    BY <1>1, <1>2, <1>3
  <2>2. ASSUME NEW k \in 1 .. Len(v)  PROVE v[k] = w[k]
    <3>1. /\ k \in 1 .. Len(u) - n /\ n + k \in 1 .. j - i
          /\ k \in 1 .. j - (i + n) /\ i + (n + k) = i + n + k
      BY <1>1, <1>2
    <3> QED  BY <1>1, <1>2, <1>3, <3>1
  <2> QED  BY <2>1, <2>2
<1> QED  BY <1>1, <1>2, <1>3, <1>4, SeqEqual


-----------------------------------------------------------------------------
(* What is sent.                                                           *)

(* A place in memory.                                                      *)
Cell == Byte \cup {Garbage}

Arrays == {a \in [len : Nat, mem : Seq(Cell)] : a.len <= Len(a.mem)}

LEMMA ArraysProper ==
  \A a : a \in Arrays <=> ProperArray(a, Cell)
<1>1. ASSUME NEW a, ProperArray(a, Cell)  PROVE a \in Arrays
  BY <1>1 DEF ProperArray, Arrays
<1>2. ASSUME NEW a \in Arrays  PROVE ProperArray(a, Cell)
  BY DEF ProperArray, Arrays
<1> QED  BY <1>1, <1>2

(* A piece of a message, and whether it can be sent as it is: the length   *)
(* of a literal is in the table, and a formatted text is within what is    *)
(* reserved for it.                                                        *)
Piece == {p \in [formatted : BOOLEAN, text : Seq(Byte)] :
            ~p.formatted => Len(p.text) \div 256 \in 0 .. 255}

Fits(p) == p.formatted => Len(p.text) < Reserve

LEMMA BytesAreCells ==
  ASSUME NEW s \in Seq(Byte)
  PROVE  s \in Seq(Cell)
<1>1. Len(s) \in Nat /\ \A k \in 1 .. Len(s) : s[k] \in Cell
  BY LenProperties, ElementOfSeq DEF Cell
<1>2. s \in [1 .. Len(s) -> Cell]
  BY <1>1, LenProperties
<1> QED  BY <1>1, <1>2, FunctionIsSeq

LEMMA PieceIs ==
  ASSUME NEW p \in Piece
  PROVE  /\ Elems(ArrayOf(p)) \in Seq(Cell)
         /\ Fits(p) /\ ~BigEndian =>
              Elems(ArrayOf(p)) = p.text /\ ArrayOf(p).len <= Cap(ArrayOf(p))
<1> DEFINE t == p.text
           a == ArrayOf(p)
<1>1. t \in Seq(Byte) /\ Len(t) \in Nat /\ t \in Seq(Cell)
  BY BytesAreCells, LenProperties DEF Piece
<1>2. /\ a.len \in Nat /\ a.mem \in Seq(Cell)
      /\ Fits(p) /\ ~BigEndian => /\ a.len = Len(t) /\ Len(t) <= Len(a.mem)
                                  /\ \A k \in 1 .. Len(t) : a.mem[k] = t[k]
  <2>1. CASE p.formatted
    <3> DEFINE m == [k \in 1 .. Reserve |->
                       IF k <= Len(t) /\ k < Reserve THEN t[k]
                       ELSE IF k = Min({Len(t) + 1, Reserve}) THEN 0
                       ELSE Garbage]
    <3>1. a.len = Len(t) /\ a.mem = m
      BY <2>1 DEF ArrayOf, Vsnprintf
    <3>2. Reserve \in Nat
      BY SessionAssumption
    <3>3. \A k \in 1 .. Reserve : m[k] \in Cell
      <4> TAKE k \in 1 .. Reserve
      <4>1. k <= Len(t) => t[k] \in Cell
        BY <1>1, <3>2, ElementOfSeq
      <4>2. 0 \in Cell /\ Garbage \in Cell
        BY DEF Cell, Byte
      <4> QED  BY <4>1, <4>2
    <3>4. m \in Seq(Cell) /\ Len(m) = Reserve
      <4>1. m \in [1 .. Reserve -> Cell]
        BY <3>3
      <4> HIDE DEF m
      <4> QED  BY <3>2, <4>1, FunctionIsSeq
    <3>5. ASSUME Len(t) < Reserve, NEW k \in 1 .. Len(t)  PROVE m[k] = t[k]
      BY <1>1, <3>2, <3>5
    <3>6. Fits(p) => Len(t) < Reserve
      BY <2>1 DEF Fits
    <3> HIDE DEF a, m, t
    <3> QED  BY <1>1, <3>1, <3>2, <3>4, <3>5, <3>6
  <2>2. CASE ~p.formatted
    <3>1. a = FromLiteral(t, Len(t) % 256, Len(t) \div 256)
      BY <2>2 DEF ArrayOf
    <3>2. Len(t) \div 256 \in 0 .. 255
      BY <2>2 DEF Piece
    <3> HIDE DEF t
    <3>3. LET b == FromLiteral(t, Len(t) % 256, Len(t) \div 256)
          IN  b.len \in Nat /\ b.mem = t /\ (~BigEndian => b.len = Len(t))
      BY <1>1, <3>2, LiteralIsItself
    <3> HIDE DEF a
    <3>4. a.len \in Nat /\ a.mem = t /\ (~BigEndian => a.len = Len(t))
      BY <3>1, <3>3
    <3> QED  BY <1>1, <3>4
  <2> QED  BY <2>1, <2>2
<1> HIDE DEF a, t
<1>3. Elems(a) = [k \in 1 .. a.len |-> IF k <= Len(a.mem) THEN a.mem[k] ELSE Garbage]
  BY DEF Elems, Cap
<1>4. \A k \in 1 .. a.len : k <= Len(a.mem) => a.mem[k] \in Cell
  BY <1>2, ElementOfSeq
<1>5. Elems(a) \in [1 .. a.len -> Cell]
  BY <1>3, <1>4 DEF Cell
<1>6. Elems(a) \in Seq(Cell) /\ Len(Elems(a)) = a.len
  BY <1>2, <1>5, FunctionIsSeq
<1>7. ASSUME Fits(p) /\ ~BigEndian  PROVE Elems(a) = t
  <2>1. \A k \in 1 .. Len(t) : Elems(a)[k] = t[k]
    BY <1>1, <1>2, <1>3, <1>7
  <2> QED  BY <1>1, <1>2, <1>6, <1>7, <2>1, SeqEqual
<1>8. Fits(p) /\ ~BigEndian => a.len <= Cap(a)
  BY <1>2 DEF Cap
<1> QED  BY <1>6, <1>7, <1>8 DEF a, t

LEMMA TextOfIs ==
  ASSUME NEW pieces \in Seq(Piece)
  PROVE  \E text \in [0 .. Len(pieces) -> Seq(Byte)] :
           /\ TextOf(pieces) = text[Len(pieces)] /\ text[0] = <<>>
           /\ \A i \in 1 .. Len(pieces) : text[i] = text[i - 1] \o pieces[i].text
<1> DEFINE n == Len(pieces)
           Follows(f) == f = [i \in 0 .. n |->
                                IF i = 0 THEN <<>> ELSE f[i - 1] \o pieces[i].text]
           step == [i \in 1 .. n |-> [s \in Seq(Byte) |-> s \o pieces[i].text]]
           text == CHOOSE f : Follows(f)
<1>1. n \in Nat /\ \A i \in 1 .. n : pieces[i].text \in Seq(Byte)
  <2>1. n \in Nat /\ \A i \in 1 .. n : pieces[i] \in Piece
    BY LenProperties, ElementOfSeq
  <2> QED  BY <2>1 DEF Piece
<1>2. PICK f : Iterates(f, Seq(Byte), <<>>, n, step)
  <2>1. \A i \in 1 .. n : \A s \in Seq(Byte) : step[i][s] \in Seq(Byte)
    BY <1>1, ConcatProperties
  <2>2. <<>> \in Seq(Byte)
    BY EmptySeq
  <2> HIDE DEF step, n
  <2> QED  BY <1>1, <2>1, <2>2, Recursion
<1> HIDE DEF n
<1>3. ASSUME NEW i \in 1 .. n  PROVE f[i] = f[i - 1] \o pieces[i].text
  <2>1. i - 1 \in 0 .. n
    BY <1>1
  <2>2. f[i - 1] \in Seq(Byte) /\ f[i] = step[i][f[i - 1]]
    BY <1>2, <2>1 DEF Iterates
  <2> QED  BY <2>2
<1>4. Follows(f)
  <2>1. \A i \in 0 .. n : i # 0 => i \in 1 .. n
    BY <1>1
  <2> HIDE DEF step
  <2> QED  BY <1>2, <1>3, <2>1 DEF Iterates
<1>5. Follows(text)
  <2> HIDE DEF Follows
  <2> QED  BY <1>4
<1>6. TextOf(pieces) = text[n]
  BY DEF TextOf, n
<1> HIDE DEF text, step
<1>7. text[0] = <<>> /\ \A i \in 1 .. n : text[i] = text[i - 1] \o pieces[i].text
  <2>1. \A i \in 0 .. n :
          text[i] = IF i = 0 THEN <<>> ELSE text[i - 1] \o pieces[i].text
    BY <1>5
  <2>2. 0 \in 0 .. n /\ \A i \in 1 .. n : i \in 0 .. n /\ i # 0
    BY <1>1
  <2> HIDE DEF Follows
  <2> QED  BY <2>1, <2>2
<1>8. \A i \in 0 .. n : text[i] = f[i]
  <2> DEFINE T == {i \in 0 .. n : text[i] # f[i]}
  <2>1. ASSUME T # {}  PROVE FALSE
    <3>1. T \subseteq Nat
      BY <1>1
    <3>2. PICK i \in T : \A m \in T : i <= m
      <4> HIDE DEF T
      <4> QED  BY <2>1, <3>1, LeastNat
    <3>3. i \in 0 .. n /\ text[i] # f[i] /\ i # 0
      BY <1>2, <1>7, <3>2 DEF Iterates
    <3>4. i \in 1 .. n /\ i - 1 \in 0 .. n /\ i - 1 \notin T
      BY <1>1, <3>2, <3>3
    <3>5. text[i - 1] = f[i - 1]
      BY <3>4
    <3> HIDE DEF T
    <3> QED  BY <1>3, <1>7, <3>3, <3>4, <3>5
  <2> QED  BY <2>1
<1> HIDE DEF Follows
<1>9. text[0] = f[0] /\ text[n] = f[n] /\ f \in [0 .. n -> Seq(Byte)]
  BY <1>1, <1>2, <1>8 DEF Iterates
<1> QED  BY <1>3, <1>6, <1>7, <1>9 DEF n


LEMMA SentAre ==
  ASSUME NEW a \in Arrays, NEW pieces \in Seq(Piece)
  PROVE  \E after \in [0 .. Len(pieces) -> Arrays] :
           /\ Sent(a, pieces) = after[Len(pieces)] /\ after[0] = a
           /\ \A i \in 1 .. Len(pieces) :
                after[i] = AppendN(after[i - 1], Elems(ArrayOf(pieces[i])))
<1> DEFINE n == Len(pieces)
           b(i) == Elems(ArrayOf(pieces[i]))
           Follows(f) == f = [i \in 0 .. n |->
                                IF i = 0 THEN a ELSE AppendN(f[i - 1], b(i))]
           step == [i \in 1 .. n |-> [x \in Arrays |-> AppendN(x, b(i))]]
           after == CHOOSE f : Follows(f)
<1>1. n \in Nat /\ \A i \in 1 .. n : b(i) \in Seq(Cell)
  <2>1. n \in Nat /\ \A i \in 1 .. n : pieces[i] \in Piece
    BY LenProperties, ElementOfSeq
  <2> QED  BY <2>1, PieceIs
<1> HIDE DEF b
<1>2. PICK f : Iterates(f, Arrays, a, n, step)
  <2>1. \A i \in 1 .. n : \A x \in Arrays : step[i][x] \in Arrays
    <3> TAKE i \in 1 .. n
    <3> TAKE x \in Arrays
    <3>1. ProperArray(x, Cell) /\ Garbage \in Cell
      BY ArraysProper DEF Cell
    <3>2. ProperArray(AppendN(x, b(i)), Cell)
      BY <1>1, <3>1, AppendAppends
    <3> QED  BY <3>2, ArraysProper
  <2> HIDE DEF step, n
  <2> QED  BY <1>1, <2>1, Recursion
<1> HIDE DEF n
<1>3. ASSUME NEW i \in 1 .. n  PROVE f[i] = AppendN(f[i - 1], b(i))
  <2>1. i - 1 \in 0 .. n
    BY <1>1
  <2>2. f[i - 1] \in Arrays /\ f[i] = step[i][f[i - 1]]
    BY <1>2, <2>1 DEF Iterates
  <2> QED  BY <2>2
<1>4. Follows(f)
  <2>1. \A i \in 0 .. n : i # 0 => i \in 1 .. n
    BY <1>1
  <2> HIDE DEF step
  <2> QED  BY <1>2, <1>3, <2>1 DEF Iterates
<1>5. Follows(after)
  <2> HIDE DEF Follows
  <2> QED  BY <1>4
<1>6. Sent(a, pieces) = after[n]
  BY DEF Sent, n, b
<1> HIDE DEF after, step
<1>7. after[0] = a /\ \A i \in 1 .. n : after[i] = AppendN(after[i - 1], b(i))
  <2>1. \A i \in 0 .. n :
          after[i] = IF i = 0 THEN a ELSE AppendN(after[i - 1], b(i))
    BY <1>5
  <2>2. 0 \in 0 .. n /\ \A i \in 1 .. n : i \in 0 .. n /\ i # 0
    BY <1>1
  <2> HIDE DEF Follows
  <2> QED  BY <2>1, <2>2
<1>8. \A i \in 0 .. n : after[i] = f[i]
  <2> DEFINE T == {i \in 0 .. n : after[i] # f[i]}
  <2>1. ASSUME T # {}  PROVE FALSE
    <3>1. T \subseteq Nat
      BY <1>1
    <3>2. PICK i \in T : \A m \in T : i <= m
      <4> HIDE DEF T
      <4> QED  BY <2>1, <3>1, LeastNat
    <3>3. i \in 0 .. n /\ after[i] # f[i] /\ i # 0
      BY <1>2, <1>7, <3>2 DEF Iterates
    <3>4. i \in 1 .. n /\ i - 1 \in 0 .. n /\ i - 1 \notin T
      BY <1>1, <3>2, <3>3
    <3>5. after[i - 1] = f[i - 1]
      BY <3>4
    <3> HIDE DEF T
    <3> QED  BY <1>3, <1>7, <3>3, <3>4, <3>5
  <2> QED  BY <2>1
<1> HIDE DEF Follows
<1>9. after[0] = f[0] /\ after[n] = f[n] /\ f \in [0 .. n -> Arrays]
  BY <1>1, <1>2, <1>8 DEF Iterates
<1> QED  BY <1>3, <1>6, <1>7, <1>9 DEF n, b

LEMMA CellsJoin ==
  ASSUME NEW u \in Seq(Cell), NEW v \in Seq(Cell), NEW w \in Seq(Cell)
  PROVE  (u \o v) \o w = u \o (v \o w)
<1> DEFINE C == Cell
<1>1. u \in Seq(C) /\ v \in Seq(C) /\ w \in Seq(C)
  OBVIOUS
<1> HIDE DEF C
<1> QED  BY <1>1, ConcatAssociative

(* What is sent is an array again.  On a little-endian machine, if every   *)
(* piece fits, it is what was there and the text of the message.           *)
LEMMA SentIs ==
  ASSUME NEW a, ProperArray(a, Cell), NEW pieces \in Seq(Piece)
  PROVE  /\ ProperArray(Sent(a, pieces), Cell)
         /\ TextOf(pieces) \in Seq(Byte)
         /\ ~BigEndian /\ (\A i \in DOMAIN pieces : Fits(pieces[i])) =>
              Elems(Sent(a, pieces)) = Elems(a) \o TextOf(pieces)
<1>1. PICK n \in Nat : n = Len(pieces) /\ DOMAIN pieces = 1 .. n
                       /\ \A i \in 1 .. n : pieces[i] \in Piece
  BY LenProperties, ElementOfSeq
<1>2. a \in Arrays
  BY ArraysProper
<1>3. PICK after \in [0 .. n -> Arrays] :
           /\ Sent(a, pieces) = after[n] /\ after[0] = a
           /\ \A i \in 1 .. n :
                after[i] = AppendN(after[i - 1], Elems(ArrayOf(pieces[i])))
  BY <1>1, <1>2, SentAre
<1>4. PICK text \in [0 .. n -> Seq(Byte)] :
           /\ TextOf(pieces) = text[n] /\ text[0] = <<>>
           /\ \A i \in 1 .. n : text[i] = text[i - 1] \o pieces[i].text
  BY <1>1, TextOfIs
<1>5. ASSUME ~BigEndian, \A i \in DOMAIN pieces : Fits(pieces[i])
      PROVE  \A i \in 0 .. n : Elems(after[i]) = Elems(a) \o text[i]
  <2> DEFINE T == {i \in 0 .. n : Elems(after[i]) # Elems(a) \o text[i]}
  <2>1. ASSUME T # {}  PROVE FALSE
    <3>1. T \subseteq Nat
      BY <1>1
    <3>2. PICK i \in T : \A m \in T : i <= m
      <4> HIDE DEF T
      <4> QED  BY <2>1, <3>1, LeastNat
    <3>3. i \in 0 .. n /\ Elems(after[i]) # Elems(a) \o text[i]
      BY <3>2
    <3>4. i # 0
      <4>1. Elems(a) \o <<>> = Elems(a)
        BY ElemsOf, ConcatEmptySeq
      <4>2. Elems(after[0]) = Elems(a) \o text[0]
        BY <1>3, <1>4, <4>1
      <4> QED  BY <3>3, <4>2
    <3>5. i \in 1 .. n /\ i - 1 \in 0 .. n /\ i - 1 \notin T
      <4>1. i \in 1 .. n /\ i - 1 \in 0 .. n /\ ~(i <= i - 1)
        BY <1>1, <3>3, <3>4
      <4> HIDE DEF T
      <4> QED  BY <3>2, <4>1
    <3>6. Elems(after[i - 1]) = Elems(a) \o text[i - 1]
      BY <3>5
    <3> HIDE DEF T
    <3>7. PICK t \in Seq(Cell) :
            t = pieces[i].text /\ Elems(ArrayOf(pieces[i])) = t
      <4>1. pieces[i] \in Piece /\ Fits(pieces[i])
        BY <1>1, <1>5, <3>5
      <4>2. Elems(ArrayOf(pieces[i])) = pieces[i].text
            /\ Elems(ArrayOf(pieces[i])) \in Seq(Cell)
        BY <1>5, <4>1, PieceIs
      <4> QED  BY <4>2
    <3>8. PICK x : x = after[i - 1] /\ ProperArray(x, Cell)
      BY <3>5, ArraysProper
    <3>9. after[i] = AppendN(x, t)
      BY <1>3, <3>5, <3>7, <3>8
    <3>10. Elems(AppendN(x, t)) = Elems(x) \o t
      <4>1. Garbage \in Cell
        BY DEF Cell
      <4> QED  BY <3>8, <4>1, AppendAppends
    <3>11. PICK u \in Seq(Cell), v \in Seq(Cell) : u = Elems(a) /\ v = text[i - 1]
      <4>1. text[i - 1] \in Seq(Byte)
        BY <3>5
      <4>2. text[i - 1] \in Seq(Cell)
        BY <4>1, BytesAreCells
      <4> QED  BY <4>2, ElemsOf
    <3>12. (u \o v) \o t = u \o (v \o t)
      <4>1. u \in Seq(Cell) /\ v \in Seq(Cell) /\ t \in Seq(Cell)
        OBVIOUS
      <4> QED  BY <4>1, CellsJoin
    <3>13. text[i] = v \o t
      BY <1>4, <3>5, <3>7, <3>11
    <3>14. Elems(after[i]) = Elems(a) \o text[i]
      BY <3>6, <3>8, <3>9, <3>10, <3>11, <3>12, <3>13
    <3> QED  BY <3>3, <3>14
  <2> QED  BY <2>1
<1>6. n \in 0 .. n
  OBVIOUS
<1>7. after[n] \in Arrays /\ text[n] \in Seq(Byte)
  BY <1>6
<1> QED  BY <1>3, <1>4, <1>5, <1>6, <1>7, ArraysProper


-----------------------------------------------------------------------------
(* What a line is answered with.                                           *)

LEMMA PassIs ==
  ASSUME NEW line \in Seq(Byte), NEW start \in Nat, NEW kind
  PROVE  LET end == Pass(line, start, kind)
         IN  /\ end \in Nat /\ start <= end
             /\ start >= Len(line) => end = start
             /\ start < Len(line) =>
                  /\ end <= Len(line)
                  /\ end = Len(line) \/ line[end + 1] \notin kind
                  /\ \A k \in start .. end - 1 : line[k + 1] \in kind
<1>1. Len(line) \in Nat
  BY LenProperties
<1>2. CASE start >= Len(line)
  BY <1>1, <1>2 DEF Pass
<1>3. CASE start < Len(line)
  <2> DEFINE T == {k \in start .. Len(line) : k = Len(line) \/ line[k + 1] \notin kind}
  <2>1. Pass(line, start, kind) = Min(T)
    BY <1>1, <1>3 DEF Pass
  <2>2. T \subseteq Nat /\ Len(line) \in T
    BY <1>1, <1>3
  <2>3. Min(T) \in T /\ \A m \in T : Min(T) <= m
    <3> HIDE DEF T
    <3> QED  BY <2>2, MinIs
  <2>4. PICK m \in T : m = Min(T) /\ \A k \in T : m <= k
    <3> HIDE DEF T
    <3> QED  BY <2>3
  <2>5. /\ m \in start .. Len(line)
        /\ m = Len(line) \/ line[m + 1] \notin kind
    BY <2>4
  <2>6. ASSUME NEW k \in start .. m - 1  PROVE line[k + 1] \in kind
    <3>1. k \in start .. Len(line) /\ ~(m <= k)
      BY <1>1, <2>5
    <3>2. k \notin T
      <4> HIDE DEF T
      <4> QED  BY <2>4, <3>1
    <3> QED  BY <3>1, <3>2
  <2> HIDE DEF T
  <2> QED  BY <1>1, <1>3, <2>1, <2>4, <2>5, <2>6
<1> QED  BY <1>1, <1>2, <1>3

(* The two words of a whisper are parts of the line, the one after the     *)
(* other.                                                                  *)
LEMMA WhisperIs ==
  ASSUME NEW line \in Seq(Byte)
  PROVE  /\ Recipient(line) \in Seq(Byte) /\ Message(line) \in Seq(Byte)
         /\ Len(Recipient(line)) <= Len(line)
         /\ MsgStart(line) < Len(line) =>
              Len(Recipient(line)) + Len(Message(line)) <= Len(line)
<1> DEFINE n == Len(line)
           a == CmdEnd(line)
           b == RecipientStart(line)
           c == RecipientEnd(line)
           d == MsgStart(line)
<1>1. n \in Nat
  BY LenProperties
<1>2. a \in Nat
  BY PassIs DEF CmdEnd
<1>3. b \in Nat
  <2> HIDE DEF a
  <2> QED  BY <1>2, PassIs DEF RecipientStart, a
<1>4. c \in Nat /\ b <= c /\ (b >= n => c = b) /\ (b < n => c <= n)
  <2> HIDE DEF b
  <2> QED  BY <1>3, PassIs DEF RecipientEnd, b
<1>5. d \in Nat /\ c + 1 <= d
  <2> HIDE DEF c
  <2>1. c + 1 \in Nat
    BY <1>4
  <2> QED  BY <2>1, PassIs DEF MsgStart, c
<1> HIDE DEF a, b, c, d
<1>6. Recipient(line) \in Seq(Byte) /\ Len(Recipient(line)) = c - b
  <2>1. CASE b < n
    BY <1>1, <1>3, <1>4, <2>1, SubSeqIs DEF Recipient, b, c
  <2>2. CASE b >= n
    <3>1. b + 1 \in Int /\ c \in Int /\ c < b + 1 /\ c - b = 0
      BY <1>3, <1>4, <2>2
    <3>2. SubSeq(line, b + 1, c) = <<>>
      BY <3>1, SubSeqEmpty
    <3> QED  BY <3>1, <3>2 DEF Recipient, b, c
  <2> QED  BY <1>1, <1>3, <2>1, <2>2
<1>7. /\ Message(line) \in Seq(Byte)
      /\ d < n => Len(Message(line)) = n - d
  <2>1. CASE d < n
    BY <1>1, <1>5, <2>1, SubSeqIs DEF Message, d, n
  <2>2. CASE d >= n
    <3>1. d + 1 \in Int /\ n \in Int /\ n < d + 1
      BY <1>1, <1>5, <2>2
    <3>2. SubSeq(line, d + 1, n) = <<>>
      BY <3>1, SubSeqEmpty
    <3> QED  BY <1>5, <2>2, <3>2 DEF Message, d, n
  <2> QED  BY <1>1, <1>5, <2>1, <2>2
<1>8. c - b <= n
  BY <1>1, <1>3, <1>4
<1>9. d < n => (c - b) + (n - d) <= n
  BY <1>1, <1>3, <1>4, <1>5
<1> QED  BY <1>6, <1>7, <1>8, <1>9 DEF d

LEMMA CommandIs ==
  ASSUME NEW line
  PROVE  Command(line) \in {"help", "exit", "info", "list", "whisper"}
BY DEF Command, Aliases

(* What a name may be made of.                                             *)
LEMMA NamesAreBytes ==
  /\ NameChar \subseteq Byte /\ Blank \notin NameChar /\ Prefix \notin NameChar
  /\ \A name \in Seq(NameChar) : name \in Seq(Byte)
<1>1. NameChar \subseteq Byte /\ Blank \notin NameChar /\ Prefix \notin NameChar
  BY DEF NameChar, Lower, Upper, Byte, Blank, Prefix
<1> QED  BY <1>1


(* A reply says no more than the line that it answers, but for the name of *)
(* the user.                                                               *)
LEMMA ReplyIs ==
  ASSUME state \in UserStates, username \in Seq(NameChar), NEW line \in Seq(Byte)
  PROVE  LET r == Reply(line)
         IN  /\ r \in Replies
             /\ \/ Len(r.to) + Len(r.said) <= Len(line)
                \/ r.to = username /\ r.said = <<>>
             /\ state = "login" =>
                  /\ r.kind \in {"prompt", "taken", "invalid", "welcome"}
                  /\ r.kind = "welcome" => ValidateUsername(line)
<1> DEFINE Ok(r) == /\ r \in Replies
                    /\ \/ Len(r.to) + Len(r.said) <= Len(line)
                       \/ r.to = username /\ r.said = <<>>
<1>1. /\ Len(line) \in Nat /\ <<>> \in Seq(Byte) /\ Len(<<>>) = 0
      /\ username \in Seq(Byte)
  BY NamesAreBytes, LenProperties, EmptySeq
<1>2. \A kind \in Kinds : \A to, said \in Seq(Byte) :
        \/ Len(to) + Len(said) <= Len(line)
        \/ to = username /\ said = <<>>
        => Ok(R(kind, to, said))
  BY DEF R, Replies, Kinds
<1>3. \A kind \in Kinds : Ok(R(kind, <<>>, <<>>))
  <2>1. Len(<<>>) + Len(<<>>) <= Len(line)
    BY <1>1
  <2> HIDE DEF Ok
  <2> QED  BY <1>1, <1>2, <2>1
<1>4. \A kind \in Kinds : \A to \in Seq(Byte) :
        Len(to) <= Len(line) => Ok(R(kind, to, <<>>)) /\ Ok(R(kind, <<>>, to))
  <2> TAKE kind \in Kinds
  <2> TAKE to \in Seq(Byte)
  <2> HAVE Len(to) <= Len(line)
  <2>1. Len(to) + Len(<<>>) <= Len(line) /\ Len(<<>>) + Len(to) <= Len(line)
    BY <1>1, LenProperties
  <2> HIDE DEF Ok
  <2> QED  BY <1>1, <1>2, <2>1
<1>5. \A kind \in Kinds : Ok(R(kind, line, <<>>)) /\ Ok(R(kind, <<>>, line))
  <2>1. Len(line) <= Len(line)
    BY <1>1
  <2> HIDE DEF Ok
  <2> QED  BY <1>4, <2>1
<1>6. /\ Ok(LoginReply(line))
      /\ LoginReply(line).kind \in {"prompt", "taken", "invalid", "welcome"}
      /\ LoginReply(line).kind = "welcome" => ValidateUsername(line)
  <2>1. Ok(LoginReply(line))
    <3>1. Ok(R("prompt", <<>>, <<>>)) /\ Ok(R("taken", <<>>, <<>>))
          /\ Ok(R("invalid", <<>>, <<>>)) /\ Ok(R("welcome", line, <<>>))
      <4> HIDE DEF Ok
      <4> QED  BY <1>3, <1>5 DEF Kinds
    <3> HIDE DEF Ok
    <3> QED  BY <3>1 DEF LoginReply
  <2> QED  BY <2>1 DEF LoginReply, R
<1>7. Ok(WhisperReply(line))
  <2>1. PICK to \in Seq(Byte), said \in Seq(Byte) :
          /\ to = Recipient(line) /\ said = Message(line) /\ Len(to) <= Len(line)
          /\ MsgStart(line) < Len(line) => Len(to) + Len(said) <= Len(line)
    BY WhisperIs
  <2>2. MsgStart(line) \in Nat
    <3>1. CmdEnd(line) \in Nat
      BY PassIs DEF CmdEnd
    <3>2. RecipientStart(line) \in Nat
      BY <3>1, PassIs DEF RecipientStart
    <3>3. RecipientEnd(line) \in Nat
      BY <3>2, PassIs DEF RecipientEnd
    <3> QED  BY <3>3, PassIs DEF MsgStart
  <2>3. MsgStart(line) >= Len(line) \/ MsgStart(line) < Len(line)
    BY <1>1, <2>2
  <2>4. Ok(R("notfound", to, <<>>)) /\ Ok(R("notinchat", to, <<>>))
        /\ Ok(R("usage", <<>>, <<>>))
    <3> QED  BY <1>3, <1>4, <2>1 DEF Kinds
  <2>5. MsgStart(line) < Len(line) => Ok(R("ack", to, said))
    <3> QED  BY <1>2, <2>1 DEF Kinds
  <2> HIDE DEF Ok
  <2> QED  BY <2>1, <2>3, <2>4, <2>5 DEF WhisperReply
<1>8. Ok(ChatReply(line))
  <2>1. Command(line) \in {"help", "exit", "info", "list", "whisper"}
    BY CommandIs
  <2>2. Ok(R("prompt", <<>>, <<>>)) /\ Ok(R("confirm", <<>>, <<>>))
        /\ Ok(R("help", <<>>, <<>>))
        /\ Ok(R("info", <<>>, <<>>)) /\ Ok(R("list", <<>>, <<>>)) /\ Ok(R("you", <<>>, line))
    <3> HIDE DEF Ok
    <3> QED  BY <1>3, <1>5 DEF Kinds
  <2> HIDE DEF Ok
  <2> QED  BY <1>7, <2>1, <2>2 DEF ChatReply
<1>9. Ok(ExitReply(line))
  <2>1. Ok(R("goodbye", <<>>, <<>>)) /\ Ok(R("welcome", username, <<>>))
    <3> QED  BY <1>1, <1>2, <1>3 DEF Kinds
  <2> HIDE DEF Ok
  <2> QED  BY <2>1 DEF ExitReply
<1>10. Ok(Reply(line)) /\ (state = "login" => Reply(line) = LoginReply(line))
  <2>1. \/ state = "login" /\ Reply(line) = LoginReply(line)
        \/ state = "chat" /\ Reply(line) = ChatReply(line)
        \/ state = "exit" /\ Reply(line) = ExitReply(line)
    BY DEF UserStates, Reply
  <2> HIDE DEF Ok
  <2> QED  BY <1>6, <1>8, <1>9, <2>1
<1> QED  BY <1>6, <1>10

LEMMA OthersListed ==
  ASSUME NEW i \in 1 .. Cardinality(DOMAIN Others)
  PROVE  SetToSeq(DOMAIN Others)[i] \in DOMAIN Others
<1> DEFINE S == DOMAIN Others
<1>1. ExistsBijection(1 .. Cardinality(S), S)
  BY SessionAssumption, FS_CardinalityType
<1>2. \E f \in [1 .. Cardinality(S) -> S] : IsInjective(f)
  BY <1>1 DEF ExistsBijection, Bijection, Injection
<1>3. SetToSeq(S) \in [1 .. Cardinality(S) -> S]
  BY <1>2 DEF SetToSeq
<1> QED  BY <1>3

(* The pieces of a reply are of a kind that has the constant ones and      *)
(* those that the reply and the names of users make.                       *)
LEMMA PiecesIn ==
  ASSUME NEW S, NEW r, NewLine \in S, PromptSign \in S,
         Formatted(Wording \o r.to \o r.said) \in S, Formatted(Wording) \in S,
         Formatted(username) \in S, Formatted(r.to \o r.said) \in S,
         \A name \in DOMAIN Others : Formatted(name) \in S
  PROVE  Pieces(r) \in Seq(S) /\ Interrupt(Wording) \in Seq(S)
<1>1. ASSUME NEW text, Formatted(text) \in S  PROVE AfterEnter(text) \in Seq(S)
  BY <1>1 DEF AfterEnter
<1>2. ASSUME NEW text, Formatted(text) \in S  PROVE Interrupt(text) \in Seq(S)
  <2>1. <<NewLine>> \in Seq(S) /\ AfterEnter(text) \in Seq(S)
    BY <1>1, <1>2
  <2> QED  BY <2>1, ConcatProperties DEF Interrupt
<1>3. <<PromptSign>> \in Seq(S) /\ <<>> \in Seq(S)
  OBVIOUS
<1>4. <<Formatted(Wording), Formatted(username)>>
        \o [i \in 1 .. Cardinality(DOMAIN Others) |->
              Formatted(SetToSeq(DOMAIN Others)[i])]
        \o <<PromptSign>> \in Seq(S)
  <2> DEFINE n == Cardinality(DOMAIN Others)
             listed == [i \in 1 .. n |-> Formatted(SetToSeq(DOMAIN Others)[i])]
  <2>1. n \in Nat
    BY SessionAssumption, FS_CardinalityType
  <2>2. listed \in [1 .. n -> S]
    BY OthersListed
  <2>3. listed \in Seq(S)
    <3> HIDE DEF n, listed
    <3> QED  BY <2>1, <2>2, FunctionIsSeq
  <2> HIDE DEF listed
  <2>4. PICK u \in Seq(S) : u = <<Formatted(Wording), Formatted(username)>>
    <3>1. <<Formatted(Wording), Formatted(username)>> \in Seq(S)
      OBVIOUS
    <3> QED  BY <3>1, Zenon
  <2>5. u \o listed \in Seq(S)
    BY <2>3, ConcatProperties
  <2>6. (u \o listed) \o <<PromptSign>> \in Seq(S)
    BY <1>3, <2>5, ConcatProperties
  <2> QED  BY <2>4, <2>6 DEF listed
<1>5. ASSUME r.to = username
      PROVE  Interrupt(username \o r.said) \o AfterEnter(r.to \o r.said) \in Seq(S)
  <2>1. PICK u \in Seq(S), v \in Seq(S) :
          u = Interrupt(username \o r.said) /\ v = AfterEnter(r.to \o r.said)
    BY <1>1, <1>2, <1>5
  <2> QED  BY <2>1, ConcatProperties
<1>6. AfterEnter(Wording \o r.to \o r.said) \in Seq(S)
  BY <1>1
<1>7. Pieces(r) \in Seq(S)
  BY <1>3, <1>4, <1>5, <1>6 DEF Pieces
<1> QED  BY <1>2, <1>7


-----------------------------------------------------------------------------
(* The inductive invariant.                                                *)

LEMMA ConstantPieces == NewLine \in Piece /\ PromptSign \in Piece
<1>1. ASSUME NEW text \in Seq(Byte), Len(text) = 1 \/ Len(text) = 2
      PROVE  Literal(text) \in Piece
  <2>1. \A n \in 1 .. 2 : n \div 256 \in 0 .. 255
    OBVIOUS
  <2>2. Len(text) \in 1 .. 2
    BY <1>1
  <2>3. Len(text) \div 256 \in 0 .. 255
    BY <2>1, <2>2, Zenon
  <2> QED  BY <2>3 DEF Literal, Piece
<1>2. /\ <<CR, LF>> \in Seq(Byte) /\ Len(<<CR, LF>>) = 2
      /\ <<62>> \in Seq(Byte) /\ Len(<<62>>) = 1
  BY DEF Byte, CR, LF
<1> QED  BY <1>1, <1>2 DEF NewLine, PromptSign

LEMMA PiecesAre ==
  ASSUME TypeOK, NEW r \in Replies
  PROVE  Pieces(r) \in Seq(Piece) /\ Interrupt(Wording) \in Seq(Piece)
<1>1. /\ r.to \in Seq(Byte) /\ r.said \in Seq(Byte) /\ Wording \in Seq(Byte)
      /\ username \in Seq(Byte)
      /\ \A name \in DOMAIN Others : name \in Seq(Byte)
  BY NamesAreBytes, SessionAssumption DEF TypeOK, Replies, Wording, Byte
<1>2. /\ Wording \o r.to \o r.said \in Seq(Byte)
      /\ r.to \o r.said \in Seq(Byte)
  BY <1>1, ConcatProperties
<1>3. \A text \in Seq(Byte) : Formatted(text) \in Piece
  BY DEF Formatted, Piece
<1> QED  BY <1>1, <1>2, <1>3, ConstantPieces, PiecesIn

(* What waits in the input is bytes that have been received.               *)
LEMMA InputIs ==
  ASSUME SessionInv
  PROVE  /\ Elems(in) \in Seq(Byte) /\ Len(Elems(in)) = in.len
         /\ in.len \in 0 .. got /\ got \in 0 .. Len(stream) /\ Len(stream) \in Nat
         /\ Elems(in) = SubSeq(stream, (got - in.len) + 1, got)
<1>1. /\ ProperArray(in, Cell) /\ stream \in Seq(Byte) /\ got \in 0 .. Len(stream)
      /\ in.len <= got /\ Elems(in) = SubSeq(stream, got - in.len + 1, got)
  BY DEF SessionInv, TypeOK, InputKept, Cell
<1>2. in.len \in Nat /\ Len(Elems(in)) = in.len /\ Len(stream) \in Nat
  BY <1>1, ElemsOf, LenProperties DEF ProperArray
<1>3. got - in.len \in Nat /\ got \in Nat /\ got - in.len <= got /\ got <= Len(stream)
  <2>1. \A a, b, c \in Nat : a <= b /\ b <= c => b - a \in Nat /\ b - a <= b
    OBVIOUS
  <2>2. got \in Nat /\ got <= Len(stream) /\ in.len <= got
    BY <1>1, <1>2
  <2> QED  BY <1>2, <2>1, <2>2, Zenon
<1>4. SubSeq(stream, (got - in.len) + 1, got) \in Seq(Byte)
  <2>1. \A i, j \in Nat : i <= j /\ j <= Len(stream) => SubSeq(stream, i + 1, j) \in Seq(Byte)
    BY <1>1, SubSeqIs
  <2> QED  BY <1>3, <2>1, Zenon
<1> QED  BY <1>1, <1>2, <1>4

LEMMA InitInv == Init => SessionInv
<1> SUFFICES ASSUME Init  PROVE SessionInv
  OBVIOUS
<1>1. Garbage \in Cell /\ 0 \in Nat
  BY DEF Cell
<1>2. /\ ProperArray(NewReserve(0), Cell) /\ Elems(NewReserve(0)) = <<>>
      /\ NewReserve(0).len = 0
  BY <1>1, NewIsEmpty DEF NewReserve
<1>3. stream \in Seq(Byte) /\ Len(stream) \in Nat
  BY SessionAssumption, LenProperties DEF Init
<1>4. username \in Seq(NameChar)
  BY SessionAssumption DEF Init
<1>5. TypeOK
  <2>1. <<>> \in Seq(Byte)
        /\ <<>> \in Seq([state : UserStates, line : Seq(Byte), reply : Replies])
    OBVIOUS
  <2> QED  BY <1>2, <1>3, <1>4, <2>1, SessionAssumption DEF Init, TypeOK, Cell
<1>6. InputKept
  <2>1. SubSeq(stream, 1, 0) = <<>>
    BY SubSeqEmpty
  <2>2. got = 0 /\ in.len = 0 /\ Elems(in) = <<>>
    BY <1>2 DEF Init
  <2>3. got - in.len + 1 = 1 /\ in.len <= got
    BY <2>2
  <2> QED  BY <2>1, <2>2, <2>3 DEF InputKept
<1>7. Named
  BY SessionAssumption DEF Init, Named
<1> QED  BY <1>5, <1>6, <1>7 DEF SessionInv

(* What is received is put behind what waits.                              *)
LEMMA RecvIs ==
  ASSUME SessionInv, Recv
  PROVE  \E n \in Nat : \E b \in Seq(Byte) :
           /\ got' = got + n /\ got + n <= Len(stream)
           /\ b = SubSeq(stream, got + 1, got + n) /\ Len(b) = n
           /\ in' = AppendN(in, b) /\ in'.len = in.len + n
<1>1. PICK n \in 0 .. Min({Buf, Len(stream) - got}) :
        got' = got + n /\ in' = AppendN(in, SubSeq(stream, got + 1, got + n))
  BY DEF Recv
<1>2. got \in 0 .. Len(stream) /\ Len(stream) \in Nat /\ stream \in Seq(Byte)
  BY InputIs DEF SessionInv, TypeOK
<1>3. n \in Nat /\ got + n <= Len(stream)
  <2> DEFINE T == {Buf, Len(stream) - got}
  <2>1. T \subseteq Nat /\ T # {} /\ Len(stream) - got \in T
    BY <1>2, SessionAssumption
  <2>2. Min(T) \in T /\ \A m \in T : Min(T) <= m
    <3> HIDE DEF T
    <3> QED  BY <2>1, MinIs
  <2> HIDE DEF T
  <2>3. Min(T) <= Len(stream) - got /\ Min(T) \in Nat
    BY <2>1, <2>2
  <2>4. n \in 0 .. Min(T)
    BY DEF T
  <2> QED  BY <1>2, <2>3, <2>4
<1>4. PICK b \in Seq(Byte) : b = SubSeq(stream, got + 1, got + n) /\ Len(b) = n
  <2>1. got \in Nat /\ got + n \in Nat /\ got <= got + n /\ (got + n) - got = n
    BY <1>2, <1>3
  <2>2. \A i, k \in Nat : i <= k /\ k <= Len(stream) =>
          SubSeq(stream, i + 1, k) \in Seq(Byte) /\ Len(SubSeq(stream, i + 1, k)) = k - i
    BY <1>2, SubSeqIs
  <2>3. /\ SubSeq(stream, got + 1, got + n) \in Seq(Byte)
        /\ Len(SubSeq(stream, got + 1, got + n)) = (got + n) - got
    BY <1>3, <2>1, <2>2, Zenon
  <2> QED  BY <2>1, <2>3, Zenon
<1>5. in' = AppendN(in, b)
  BY <1>1, <1>4
<1>6. in'.len = in.len + n
  BY <1>4, <1>5 DEF AppendN, InsertN
<1> QED  BY <1>1, <1>3, <1>4, <1>5, <1>6

LEMMA RecvInv == SessionInv /\ Recv => SessionInv'
<1> SUFFICES ASSUME SessionInv, Recv  PROVE SessionInv'
  OBVIOUS
<1>1. PICK n \in Nat, b \in Seq(Byte) :
        /\ got' = got + n /\ got + n <= Len(stream)
        /\ b = SubSeq(stream, got + 1, got + n) /\ Len(b) = n
        /\ in' = AppendN(in, b) /\ in'.len = in.len + n
  BY RecvIs
<1>2. /\ in.len \in 0 .. got /\ got \in 0 .. Len(stream) /\ Len(stream) \in Nat
      /\ Elems(in) = SubSeq(stream, (got - in.len) + 1, got)
  BY InputIs
<1>3. n \in Nat
  OBVIOUS
<1>4. PICK i \in Nat, j \in Nat, k \in Nat :
        /\ i = got - in.len /\ j = got /\ k = got + n
        /\ i <= j /\ j <= k /\ k <= Len(stream)
  <2>1. got - in.len \in Nat /\ got \in Nat /\ got + n \in Nat
        /\ got - in.len <= got /\ got <= got + n
    BY <1>2
  <2> QED  BY <1>1, <2>1
<1>5. b = SubSeq(stream, j + 1, k)
  BY <1>1, <1>4
<1>6. in' = AppendN(in, b) /\ b \in Seq(Cell)
  BY <1>1, BytesAreCells
<1>7. /\ ProperArray(in', Cell) /\ Elems(in') = Elems(in) \o b
      /\ in'.len = in.len + n
  <2>1. ProperArray(in, Cell) /\ Garbage \in Cell
    BY DEF SessionInv, TypeOK, Cell
  <2>2. Elems(in') = Elems(in) \o b /\ ProperArray(in', Cell)
    BY <1>6, <2>1, AppendAppends
  <2> QED  BY <1>1, <2>2
<1>8. Elems(in') = SubSeq(stream, i + 1, k)
  <2>1. stream \in Seq(Byte)
    BY DEF SessionInv, TypeOK
  <2>2. SubSeq(stream, i + 1, j) \o SubSeq(stream, j + 1, k) = SubSeq(stream, i + 1, k)
    <3>1. i \in Nat /\ j \in Nat /\ k \in Nat /\ i <= j /\ j <= k /\ k <= Len(stream)
      BY <1>4
    <3> QED  BY <2>1, <3>1, PartsJoin, Zenon
  <2> QED  BY <1>2, <1>4, <1>5, <1>7, <2>2
<1>9. got' \in 0 .. Len(stream) /\ in'.len <= got' /\ got' - in'.len = i
      /\ got' = k
  <2>1. got' = got + n /\ in'.len = in.len + n /\ i = got - in.len /\ k = got + n
    BY <1>1, <1>4, <1>7
  <2>2. got \in Nat /\ in.len \in Nat /\ in.len <= got
    BY <1>2
  <2>3. got + n \in 0 .. Len(stream) /\ in.len + n <= got + n
        /\ (got + n) - (in.len + n) = got - in.len
    BY <1>1, <1>2, <1>3, <2>2
  <2> QED  BY <2>1, <2>3, Zenon
<1>10. TypeOK'
  BY <1>7, <1>9 DEF SessionInv, TypeOK, Recv, Cell
<1>11. InputKept'
  BY <1>8, <1>9 DEF InputKept, Recv
<1>12. Named'
  BY DEF SessionInv, Named, Recv
<1> QED  BY <1>10, <1>11, <1>12 DEF SessionInv

LEMMA FrontCut ==
  ASSUME NEW S, NEW s \in Seq(S), NEW n \in Nat
  PROVE  SubSeq(s, n + 1, Len(s)) \in Seq(S)
<1>1. Len(s) \in Nat /\ n + 1 \in Int
      /\ \A k \in n + 1 .. Len(s) : s[k] \in S
  <2>1. Len(s) \in Nat /\ \A k \in 1 .. Len(s) : s[k] \in S
    BY LenProperties, ElementOfSeq
  <2> QED  BY <2>1
<1> QED  BY <1>1, SubSeqProperties

LEMMA FlushInv == SessionInv /\ Flush => SessionInv'
<1> SUFFICES ASSUME SessionInv, Flush  PROVE SessionInv'
  OBVIOUS
<1>1. PICK n \in 0 .. out.len :
        /\ n < out.len => incidents < MaxIncidents
        /\ incidents' = IF n < out.len THEN incidents + 1 ELSE incidents
        /\ out' = IF out.len > 0 THEN RemoveN(out, 0, n) ELSE out
        /\ owed' = SubSeq(owed, n + 1, Len(owed))
  BY DEF Flush
<1>2. ProperArray(out, Cell) /\ out.len \in Nat /\ n \in Nat /\ owed \in Seq(Byte)
  BY DEF SessionInv, TypeOK, Cell, ProperArray
<1>3. ProperArray(out', Cell)
  <2>1. CASE out.len > 0
    <3>1. CanRemove(out, 0, n) /\ 0 \in Nat
      BY <1>2, <2>1 DEF CanRemove
    <3>2. ProperArray(RemoveN(out, 0, n), Cell)
      BY <1>2, <3>1, RemoveRemoves
    <3> QED  BY <1>1, <2>1, <3>2
  <2> QED  BY <1>1, <1>2, <2>1
<1>4. owed' \in Seq(Byte)
  BY <1>1, <1>2, FrontCut
<1>5. incidents' \in 0 .. MaxIncidents
  BY <1>1, SessionAssumption DEF SessionInv, TypeOK
<1>6. TypeOK'
  BY <1>3, <1>4, <1>5 DEF SessionInv, TypeOK, Flush, Cell
<1>7. InputKept' /\ Named'
  BY DEF SessionInv, InputKept, Named, Flush
<1> QED  BY <1>6, <1>7 DEF SessionInv

LEMMA NoticeInv == SessionInv /\ Notice => SessionInv'
<1> SUFFICES ASSUME SessionInv, Notice  PROVE SessionInv'
  OBVIOUS
<1> DEFINE pieces == Interrupt(Wording)
<1>1. pieces \in Seq(Piece)
  <2>1. R("prompt", <<>>, <<>>) \in Replies
    BY DEF R, Replies, Kinds
  <2> QED  BY <2>1, PiecesAre DEF SessionInv
<1>2. ProperArray(out, Cell) /\ owed \in Seq(Byte)
  BY DEF SessionInv, TypeOK, Cell
<1>3. out' = Sent(out, pieces) /\ owed' = owed \o TextOf(pieces)
  BY DEF Notice, Tell
<1> HIDE DEF pieces
<1>4. ProperArray(Sent(out, pieces), Cell) /\ TextOf(pieces) \in Seq(Byte)
  BY <1>1, <1>2, SentIs
<1>5. owed' \in Seq(Byte)
  BY <1>2, <1>3, <1>4, ConcatProperties
<1>6. incidents' \in 0 .. MaxIncidents
  BY SessionAssumption DEF SessionInv, TypeOK, Notice
<1>7. TypeOK'
  BY <1>3, <1>4, <1>5, <1>6 DEF SessionInv, TypeOK, Notice, Cell
<1>8. InputKept' /\ Named'
  BY DEF SessionInv, InputKept, Named, Notice
<1> QED  BY <1>7, <1>8 DEF SessionInv


(* What ac_state_update takes is the first line of the input, and what it  *)
(* leaves there is the rest.                                               *)
LEMMA TakeIs ==
  ASSUME SessionInv, TakeLine
  PROVE  LET e == Elems(in)
         IN  /\ HasCompleteLine(e)
             /\ Consumed(e) \in 1 .. in.len
             /\ ProperArray(in', Cell) /\ in'.len = in.len - Consumed(e)
             /\ Elems(in') = Rest(e, Consumed(e))
             /\ LineOf(e) \in Seq(Byte) /\ Len(LineOf(e)) <= LineEnd(e)
             /\ LineEnd(e) \in 0 .. in.len - 1
<1> DEFINE e == Elems(in)
           c == Consumed(e)
<1>1. /\ e \in Seq(Byte) /\ Len(e) = in.len /\ in.len \in Nat
      /\ HasCompleteLine(e) /\ in' = RemoveN(in, 0, c)
  BY InputIs DEF TakeLine
<1>2. ProperArray(in, Cell) /\ e \in Seq(Cell)
  BY ElemsOf DEF SessionInv, TypeOK, Cell
<1> HIDE DEF e, c
<1>3. LineEnd(e) \in 0 .. in.len - 1 /\ c \in LineEnd(e) + 1 .. in.len
  BY <1>1, LineEndIs, ConsumedIs DEF c
<1>4. c \in 1 .. in.len /\ c \in Nat
  BY <1>1, <1>3
<1>5. LineOf(e) \in Seq(Byte) /\ Len(LineOf(e)) <= LineEnd(e)
  BY <1>1, LineOfIs
<1>6. CanRemove(in, 0, c) /\ 0 \in Nat
  BY <1>1, <1>4 DEF CanRemove
<1>7. /\ ProperArray(in', Cell)
      /\ Elems(in') = SubSeq(e, 1, 0) \o SubSeq(e, 0 + c + 1, in.len)
  BY <1>1, <1>2, <1>4, <1>6, RemoveRemoves DEF e
<1>8. SubSeq(e, 1, 0) = <<>> /\ SubSeq(e, 0 + c + 1, in.len) = Rest(e, c)
  <2>1. 0 + c + 1 = c + 1
    BY <1>4
  <2>2. SubSeq(e, 1, 0) = <<>>
    BY SubSeqEmpty
  <2> QED  BY <1>1, <2>1, <2>2 DEF Rest
<1>9. Elems(in') = Rest(e, c)
  <2>1. Rest(e, c) \in Seq(Byte)
    BY <1>1, <1>4, RestIs
  <2>2. <<>> \o Rest(e, c) = Rest(e, c)
    BY <2>1, ConcatEmptySeq
  <2> QED  BY <1>7, <1>8, <2>2
<1>10. in'.len = in.len - c
  BY <1>1 DEF RemoveN
<1> QED  BY <1>1, <1>3, <1>4, <1>5, <1>7, <1>9, <1>10 DEF e, c

LEMMA TakeLineInv == SessionInv /\ TakeLine => SessionInv'
<1> SUFFICES ASSUME SessionInv, TakeLine  PROVE SessionInv'
  OBVIOUS
<1>1. PICK e \in Seq(Byte) :
        /\ e = Elems(in) /\ Len(e) = in.len /\ in.len \in 0 .. got
        /\ got \in 0 .. Len(stream) /\ Len(stream) \in Nat
        /\ e = SubSeq(stream, (got - in.len) + 1, got)
  BY InputIs
<1>2. PICK c \in 1 .. in.len :
        /\ c = Consumed(e) /\ ProperArray(in', Cell) /\ in'.len = in.len - c
        /\ Elems(in') = Rest(e, c)
  BY <1>1, TakeIs
<1>3. PICK line \in Seq(Byte), r \in Replies :
        /\ line = LineOf(e) /\ r = Reply(line)
        /\ state = "login" =>
             /\ r.kind \in {"prompt", "taken", "invalid", "welcome"}
             /\ r.kind = "welcome" => ValidateUsername(line)
  <2>1. LineOf(e) \in Seq(Byte)
    BY <1>1, TakeIs
  <2>2. state \in UserStates /\ username \in Seq(NameChar)
    BY DEF SessionInv, TypeOK
  <2> QED  BY <2>1, <2>2, ReplyIs
<1>4. /\ turns' = Append(turns, [state |-> state, line |-> line, reply |-> r])
      /\ out' = Sent(out, Pieces(r)) /\ owed' = owed \o TextOf(Pieces(r))
      /\ state' = StateAfter(r)
      /\ username' = IF state = "login" /\ r.kind = "welcome" THEN line ELSE username
      /\ phase' \in {"gone", "recv", "segv"}
      /\ UNCHANGED <<stream, got, incidents>>
  BY <1>1, <1>3 DEF TakeLine, GetLine, Tell
<1>5. /\ got \in 0 .. Len(stream) /\ stream \in Seq(Byte) /\ state \in UserStates
      /\ username \in Seq(NameChar) /\ owed \in Seq(Byte)
      /\ turns \in Seq([state : UserStates, line : Seq(Byte), reply : Replies])
      /\ incidents \in 0 .. MaxIncidents /\ ProperArray(out, Cell)
  BY DEF SessionInv, TypeOK, Cell
<1>6. Pieces(r) \in Seq(Piece)
  BY <1>3, PiecesAre DEF SessionInv
<1>7. ProperArray(out', Cell) /\ owed' \in Seq(Byte)
  <2>1. ProperArray(Sent(out, Pieces(r)), Cell) /\ TextOf(Pieces(r)) \in Seq(Byte)
    BY <1>5, <1>6, SentIs
  <2> QED  BY <1>4, <1>5, <2>1, ConcatProperties
<1>8. state' \in UserStates
  BY <1>4, <1>5 DEF StateAfter, UserStates
<1>9. turns' \in Seq([state : UserStates, line : Seq(Byte), reply : Replies])
  <2>1. [state |-> state, line |-> line, reply |-> r]
          \in [state : UserStates, line : Seq(Byte), reply : Replies]
    BY <1>3, <1>5
  <2> QED  BY <1>4, <1>5, <2>1, AppendProperties
<1>10. Named' /\ username' \in Seq(NameChar)
  <2>1. CASE state = "login" /\ r.kind = "welcome"
    <3>1. ValidateUsername(line) /\ username' = line /\ state' = "chat"
      BY <1>3, <1>4, <2>1 DEF StateAfter
    <3>2. line \in Seq(NameChar)
      <4>1. Len(line) \in Nat /\ line \in [1 .. Len(line) -> NameChar]
        BY <3>1, LenProperties DEF ValidateUsername
      <4> QED  BY <4>1, FunctionIsSeq
    <3> QED  BY <3>1, <3>2 DEF Named
  <2>2. CASE state = "login" /\ r.kind # "welcome"
    <3>1. state' = "login" /\ username' = username
      BY <1>3, <1>4, <2>2 DEF StateAfter
    <3> QED  BY <1>5, <2>2, <3>1 DEF SessionInv, Named
  <2>3. CASE state # "login"
    <3>1. state' # "login" /\ username' = username
      BY <1>4, <2>3 DEF StateAfter
    <3> QED  BY <1>5, <2>3, <3>1 DEF SessionInv, Named
  <2> QED  BY <2>1, <2>2, <2>3
<1>11. TypeOK'
  BY <1>2, <1>4, <1>5, <1>7, <1>8, <1>9, <1>10 DEF TypeOK, Cell
<1>12. InputKept'
  <2>1. PICK i \in Nat, j \in Nat :
          i = got - in.len /\ j = got /\ i <= j /\ j <= Len(stream) /\ j - i = in.len
    <3>1. /\ got - in.len \in Nat /\ got \in Nat /\ got - in.len <= got
          /\ got <= Len(stream) /\ got - (got - in.len) = in.len
      <4>1. in.len \in Nat /\ got \in Nat /\ Len(stream) \in Nat
            /\ in.len <= got /\ got <= Len(stream)
        BY <1>1
      <4>2. \A l, g \in Nat :
              l <= g => g - l \in Nat /\ g - l <= g /\ g - (g - l) = l
        OBVIOUS
      <4> QED  BY <4>1, <4>2, Zenon
    <3> QED  BY <3>1, Zenon
  <2>2. c \in 0 .. j - i
    <3>1. c \in 1 .. in.len
      BY <1>2
    <3>2. in.len \in Nat /\ j - i = in.len
      BY <1>1, <2>1
    <3> QED  BY <3>1, <3>2
  <2>3. Rest(SubSeq(stream, i + 1, j), c) = SubSeq(stream, i + c + 1, j)
    <3>1. stream \in Seq(Byte) /\ i \in Nat /\ j \in Nat /\ i <= j /\ j <= Len(stream)
      BY <1>5, <2>1
    <3> QED  BY <2>2, <3>1, RestOfPart, Zenon
  <2>4. Elems(in') = SubSeq(stream, i + c + 1, j)
    BY <1>1, <1>2, <2>1, <2>3
  <2>5. (got - (in.len - c)) + 1 = i + c + 1 /\ in.len - c <= got
    <3>1. \A l, g, m \in Nat :
            l <= g /\ m <= l => (g - (l - m)) + 1 = (g - l) + m + 1 /\ l - m <= g
      OBVIOUS
    <3>2. in.len \in Nat /\ got \in Nat /\ c \in Nat /\ in.len <= got /\ c <= in.len
      BY <1>1
    <3>3. (got - (in.len - c)) + 1 = (got - in.len) + c + 1 /\ in.len - c <= got
      BY <3>1, <3>2, Zenon
    <3>4. i = got - in.len
      BY <2>1
    <3> QED  BY <3>3, <3>4, Zenon
  <2>6. (got' - in'.len) + 1 = i + c + 1 /\ in'.len <= got' /\ got' = j
    BY <1>2, <1>4, <2>1, <2>5, Zenon
  <2> QED  BY <1>4, <2>4, <2>6 DEF InputKept
<1> QED  BY <1>10, <1>11, <1>12 DEF SessionInv

LEMMA NothingInv == SessionInv /\ (TakeNothing \/ UNCHANGED vars) => SessionInv'
BY DEF SessionInv, TypeOK, InputKept, Named, TakeNothing, vars

(* Whatever is typed and however it arrives: the arrays stay proper ones,  *)
(* the input is the untaken end of what has been received, and a user past *)
(* the login has an acceptable name (net.c:213-251, state.c:81-206).        *)
THEOREM SessionInvHolds == Spec => []SessionInv
<1>1. Init => SessionInv
  BY InitInv
<1>2. SessionInv /\ [Next]_vars => SessionInv'
  <2> SUFFICES ASSUME SessionInv, [Next]_vars  PROVE SessionInv'
    OBVIOUS
  <2>1. CASE Recv
    BY <2>1, RecvInv
  <2>2. CASE Flush
    BY <2>2, FlushInv
  <2>3. CASE Notice
    BY <2>3, NoticeInv
  <2>4. CASE TakeLine
    BY <2>4, TakeLineInv
  <2>5. CASE TakeNothing
    BY <2>5, NothingInv
  <2>6. CASE UNCHANGED vars
    BY <2>6, NothingInv
  <2> QED  BY <2>1, <2>2, <2>3, <2>4, <2>5, <2>6 DEF Next
<1> QED  BY <1>1, <1>2, PTL DEF Spec

(* Every variable has its type, whatever is typed.                         *)
THEOREM TypesHold == Spec => []TypeOK
<1>1. SessionInv => TypeOK
  BY DEF SessionInv
<1> QED  BY <1>1, SessionInvHolds, PTL

(* What has been received and not taken waits in the input as it came,     *)
(* through every growth and shift of the array (net.c:235, io.c:78).       *)
THEOREM InputIsKept == Spec => []InputKept
<1>1. SessionInv => InputKept
  BY DEF SessionInv
<1> QED  BY <1>1, SessionInvHolds, PTL


-----------------------------------------------------------------------------
(* Lines.                                                                  *)

(* An end of line is taken with its line, however many CRs and LFs it has, *)
(* as long as they arrive together (io.c:74).                              *)
THEOREM EndsAreTaken == Spec => EndsTaken
<1> DEFINE Step == turns' # turns /\ in'.len > 0 => ~EndsLine(Elems(in')[1])
<1>1. SessionInv /\ [Next]_vars => [Step]_vars
  <2> SUFFICES ASSUME SessionInv, Next  PROVE Step
    OBVIOUS
  <2>1. CASE TakeLine
    <3> SUFFICES ASSUME in'.len > 0  PROVE ~EndsLine(Elems(in')[1])
      OBVIOUS
    <3>1. PICK e \in Seq(Byte) : e = Elems(in) /\ Len(e) = in.len /\ in.len \in Nat
      BY InputIs
    <3>2. PICK c \in 1 .. in.len :
            /\ c = Consumed(e) /\ in'.len = in.len - c /\ Elems(in') = Rest(e, c)
            /\ HasCompleteLine(e)
      BY <2>1, <3>1, TakeIs
    <3>3. c # Len(e) /\ c \in 0 .. Len(e) /\ 1 \in 1 .. Len(e) - c
      BY <3>1, <3>2
    <3>4. ~EndsLine(e[c + 1])
      BY <3>1, <3>2, <3>3, ConsumedIs
    <3>5. Rest(e, c)[1] = e[c + 1]
      BY <3>1, <3>3, RestIs
    <3> QED  BY <3>2, <3>4, <3>5
  <2>2. CASE ~TakeLine
    BY <2>2 DEF Next, Recv, Flush, Notice, TakeNothing
  <2> QED  BY <2>1, <2>2
<1> QED  BY <1>1, SessionInvHolds, PTL DEF Spec, EndsTaken

Turn == [state : UserStates, line : Seq(Byte), reply : Replies]

LEMMA LinesOfTurns ==
  ASSUME NEW s \in Seq(Turn), NEW t \in Turn
  PROVE  [i \in DOMAIN Append(s, t) |-> Append(s, t)[i].line]
           = Append([i \in DOMAIN s |-> s[i].line], t.line)
<1> DEFINE lines == [i \in DOMAIN s |-> s[i].line]
           u == Append(s, t)
<1>1. Len(s) \in Nat /\ DOMAIN s = 1 .. Len(s) /\ \A i \in 1 .. Len(s) : s[i] \in Turn
  BY LenProperties, ElementOfSeq
<1>2. lines \in Seq(Seq(Byte)) /\ Len(lines) = Len(s)
      /\ \A i \in 1 .. Len(s) : lines[i] = s[i].line
  <2>1. lines \in [1 .. Len(s) -> Seq(Byte)]
    BY <1>1 DEF Turn
  <2>2. \A i \in 1 .. Len(s) : lines[i] = s[i].line
    BY <1>1
  <2> HIDE DEF lines
  <2> QED  BY <1>1, <2>1, <2>2, FunctionIsSeq
<1>3. t.line \in Seq(Byte)
  BY DEF Turn
<1>4. /\ DOMAIN u = 1 .. Len(s) + 1 /\ u[Len(s) + 1] = t
      /\ \A i \in 1 .. Len(s) : u[i] = s[i]
  BY <1>1
<1> HIDE DEF lines
<1> DEFINE w == Append(lines, t.line)
<1>5. /\ w \in Seq(Seq(Byte)) /\ DOMAIN w = 1 .. Len(s) + 1
      /\ w[Len(s) + 1] = t.line
      /\ \A i \in 1 .. Len(s) : w[i] = lines[i]
  BY <1>1, <1>2, <1>3
<1> HIDE DEF w, u
<1>6. ASSUME NEW i \in 1 .. Len(s) + 1  PROVE w[i] = u[i].line
  <2>1. i = Len(s) + 1 \/ i \in 1 .. Len(s)
    BY <1>1
  <2> QED  BY <1>2, <1>4, <1>5, <2>1
<1>7. w = [i \in 1 .. Len(s) + 1 |-> u[i].line]
  BY <1>1, <1>5, <1>6
<1> QED  BY <1>4, <1>7 DEF w, u, lines

(* To the rest of the server the input is a queue of lines: receiving only *)
(* adds to it, and a line is taken as the queue promised it (io.c:16-83).  *)
THEOREM InputIsLineQueue == Spec => IsLineQueue
<1> DEFINE queue == LinesIn(Elems(in))
<1>1. Init => Lines!Init
  <2> SUFFICES ASSUME Init  PROVE Lines!Init
    OBVIOUS
  <2>1. Elems(in) = <<>>
    <3>1. Garbage \in Cell /\ 0 \in Nat
      BY DEF Cell
    <3> QED  BY <3>1, NewIsEmpty DEF Init
  <2>2. ~HasCompleteLine(<<>>) /\ <<>> \in Seq(Byte)
    BY DEF HasCompleteLine
  <2>3. LinesIn(Elems(in)) = <<>>
    BY <2>1, <2>2, LinesInIs
  <2>4. Taken = <<>>
    BY DEF Init, Taken
  <2> QED  BY <2>3, <2>4 DEF Lines!Init
<1>2. SessionInv /\ [Next]_vars => [Lines!Next]_<<queue, Taken>>
  <2> SUFFICES ASSUME SessionInv, [Next]_vars
               PROVE  Lines!Next \/ UNCHANGED <<queue, Taken>>
    OBVIOUS
  <2>1. PICK e \in Seq(Byte) : e = Elems(in) /\ Len(e) = in.len /\ in.len \in Nat
    BY InputIs
  <2>2. CASE Recv
    <3>1. PICK b \in Seq(Byte) : in' = AppendN(in, b)
      BY <2>2, RecvIs
    <3>3. Elems(in') = e \o b
      <4>1. ProperArray(in, Cell) /\ Garbage \in Cell /\ b \in Seq(Cell)
        BY BytesAreCells DEF SessionInv, TypeOK, Cell
      <4> QED  BY <2>1, <3>1, <4>1, AppendAppends
    <3>4. IsPrefix(LinesIn(e), LinesIn(e \o b))
      BY ArrivingAdds
    <3>5. Taken' = Taken
      BY <2>2 DEF Recv, Taken
    <3> QED  BY <2>1, <3>3, <3>4, <3>5 DEF Lines!Next, Lines!Arrive, Lines!IsPrefix, IsPrefix
  <2>3. CASE TakeLine
    <3>1. PICK c \in 1 .. in.len :
            /\ c = Consumed(e) /\ Elems(in') = Rest(e, c) /\ HasCompleteLine(e)
            /\ LineOf(e) \in Seq(Byte)
      BY <2>1, <2>3, TakeIs
    <3>2. PICK line \in Seq(Byte) : line = LineOf(e)
      BY <3>1
    <3>3. PICK rest \in Seq(Seq(Byte)) : rest = LinesIn(Rest(e, c))
      <4>1. c \in 0 .. Len(e)
        BY <2>1
      <4> QED  BY <4>1, RestIs, LinesInType
    <3>4. LinesIn(e) = <<line>> \o rest
      BY <3>1, <3>2, <3>3, LinesInIs
    <3>5. /\ <<line>> \o rest # <<>>
          /\ Head(<<line>> \o rest) = line
          /\ Tail(<<line>> \o rest) = rest
      BY HeadTailProperties, ConcatProperties
    <3>6. PICK r : r = Reply(line) /\ turns' = Append(turns, [state |-> state, line |-> line, reply |-> r])
      BY <2>1, <2>3, <3>2 DEF TakeLine, GetLine
    <3>7. Taken' = Append(Taken, line)
      <4>1. turns \in Seq(Turn)
        BY DEF SessionInv, TypeOK, Turn
      <4>2. [state |-> state, line |-> line, reply |-> r] \in Turn
        BY <3>2, <3>6, ReplyIs DEF SessionInv, TypeOK, Turn
      <4> QED  BY <3>6, <4>1, <4>2, LinesOfTurns DEF Taken
    <3> QED  BY <2>1, <3>1, <3>3, <3>4, <3>5, <3>7 DEF Lines!Next, Lines!Take
  <2>4. CASE in' = in /\ turns' = turns
    BY <2>4 DEF Taken, Elems
  <2>5. Flush \/ Notice \/ TakeNothing \/ UNCHANGED vars => in' = in /\ turns' = turns
    BY DEF Flush, Notice, TakeNothing, vars
  <2> QED  BY <2>2, <2>3, <2>4, <2>5 DEF Next
<1> QED  BY <1>1, <1>2, SessionInvHolds, PTL DEF Spec, IsLineQueue, Lines!Spec


-----------------------------------------------------------------------------
(* The lines typed.                                                        *)

LEMMA OnlyNone ==
  ASSUME NEW S, NEW T, NEW s \in Seq(S), \A i \in 1 .. Len(s) : s[i] \notin T
  PROVE  Only(s, T) = <<>>
<1> DEFINE U == {s[i] : i \in 1 .. Len(s)}
<1>1. s \in Seq(U)
  <2>1. Len(s) \in Nat /\ s = [i \in 1 .. Len(s) |-> s[i]]
    BY LenProperties
  <2>2. s \in [1 .. Len(s) -> U]
    BY <2>1
  <2> QED  BY <2>1, <2>2, SeqDef
<1>2. U \cap T = {}
  OBVIOUS
<1> HIDE DEF U
<1>3. Only(s, T) \in Seq({})
  BY <1>1, <1>2, OnlyIs
<1> DEFINE o == Only(s, T)
<1>4. Len(o) \in Nat /\ \A i \in 1 .. Len(o) : o[i] \in {}
  BY <1>3, LenProperties, ElementOfSeq
<1>5. Len(o) = 0
  BY <1>4
<1> QED  BY <1>3, <1>5, EmptySeq

Kept(T, w, x) == IF x \in T THEN Append(w, x) ELSE w

KeptLast(T, z, y, x) == Kept(T, z \o y, x) = z \o Kept(T, y, x)

LEMMA JoinOne ==
  ASSUME NEW S, NEW T, NEW z \in Seq(S), NEW y \in Seq(S), NEW x \in S
  PROVE  KeptLast(T, z, y, x)
<1>1. Append(z \o y, x) = z \o Append(y, x)
  OBVIOUS
<1> QED  BY <1>1 DEF KeptLast, Kept

(* A text is filtered part by part.                                        *)
LEMMA OnlyJoin ==
  \A S, T : \A s, t \in Seq(S) : Only(s \o t, T) = Only(s, T) \o Only(t, T)
<1> SUFFICES ASSUME NEW S, NEW T, NEW s \in Seq(S), NEW t \in Seq(S)
             PROVE  Only(s \o t, T) = Only(s, T) \o Only(t, T)
  OBVIOUS
<1> DEFINE u == s \o t
           ST == Seq(S \cap T)
<1>1. /\ u \in Seq(S) /\ Len(u) = Len(s) + Len(t)
      /\ \A i \in 1 .. Len(s) : u[i] = s[i]
      /\ \A i \in 1 .. Len(t) : u[Len(s) + i] = t[i]
  OBVIOUS
<1>2. Len(s) \in Nat /\ Len(t) \in Nat /\ \A i \in 1 .. Len(t) : t[i] \in S
  BY LenProperties, ElementOfSeq
<1> HIDE DEF u
<1>3. PICK ks : Keeps(ks, s, S, T) /\ Only(s, T) = ks[Len(s)]
  BY OnlyKeeps
<1>4. PICK kt : Keeps(kt, t, S, T) /\ Only(t, T) = kt[Len(t)]
  BY OnlyKeeps
<1>5. PICK ku : Keeps(ku, u, S, T) /\ Only(u, T) = ku[Len(u)]
  BY <1>1, OnlyKeeps
<1>6. \A i \in 0 .. Len(s) : ku[i] = ks[i]
  <2> DEFINE U == {i \in 0 .. Len(s) : ku[i] # ks[i]}
  <2>1. ASSUME U # {}  PROVE FALSE
    <3>1. U \subseteq Nat
      BY <1>2
    <3>2. PICK i \in U : \A m \in U : i <= m
      <4> HIDE DEF U
      <4> QED  BY <2>1, <3>1, LeastNat
    <3>3. i # 0
      BY <1>3, <1>5, <3>2 DEF Keeps
    <3>4. i \in 1 .. Len(s) /\ i - 1 \notin U /\ i - 1 \in 0 .. Len(s) /\ i \in 1 .. Len(u)
      BY <1>1, <1>2, <3>2, <3>3
    <3>5. ku[i - 1] = ks[i - 1] /\ u[i] = s[i]
      BY <1>1, <3>4
    <3>6. ku[i] = ks[i]
      BY <1>3, <1>5, <3>4, <3>5 DEF Keeps
    <3> QED  BY <3>2, <3>6
  <2> QED  BY <2>1
<1> DEFINE z == ks[Len(s)]
<1>7. z \in ST
  <2>1. Len(s) \in 0 .. Len(s) /\ ks \in [0 .. Len(s) -> ST]
    BY <1>2, <1>3 DEF Keeps
  <2> HIDE DEF ST
  <2> QED  BY <2>1
<1> HIDE DEF z
<1>8. \A j \in 0 .. Len(t) : ku[Len(s) + j] = z \o kt[j]
  <2> DEFINE U == {j \in 0 .. Len(t) : ku[Len(s) + j] # z \o kt[j]}
  <2>1. ASSUME U # {}  PROVE FALSE
    <3>1. U \subseteq Nat
      BY <1>2
    <3>2. PICK j \in U : \A m \in U : j <= m
      <4> HIDE DEF U
      <4> QED  BY <2>1, <3>1, LeastNat
    <3>3. j # 0
      <4>1. z \o <<>> = z
        BY <1>7, ConcatEmptySeq
      <4>2. ku[Len(s) + 0] = z
        BY <1>2, <1>6 DEF z
      <4> QED  BY <1>4, <3>2, <4>1, <4>2 DEF Keeps
    <3>4. j \in 1 .. Len(t) /\ j - 1 \in 0 .. Len(t) /\ j - 1 \notin U
      BY <1>2, <3>2, <3>3
    <3>5. ku[Len(s) + (j - 1)] = z \o kt[j - 1] /\ u[Len(s) + j] = t[j]
      BY <1>1, <3>4
    <3>6. PICK y \in ST : y = kt[j - 1]
      BY <1>4, <3>4 DEF Keeps
    <3>7. Len(s) + j \in 1 .. Len(u) /\ (Len(s) + j) - 1 = Len(s) + (j - 1)
      BY <1>1, <1>2, <3>4
    <3>8. ku[Len(s) + j] = Kept(T, z \o y, t[j])
      BY <1>5, <3>5, <3>6, <3>7 DEF Keeps, Kept
    <3>9. kt[j] = Kept(T, y, t[j])
      BY <1>4, <3>4, <3>6 DEF Keeps, Kept
    <3>10. ku[Len(s) + j] = z \o kt[j]
      <4>1. t[j] \in S /\ z \in Seq(S) /\ y \in Seq(S)
        <5>1. Seq(S \cap T) \subseteq Seq(S)
          OBVIOUS
        <5> QED  BY <1>2, <1>7, <3>4, <5>1
      <4>2. KeptLast(T, z, y, t[j])
        BY <4>1, JoinOne, Zenon
      <4> QED  BY <3>8, <3>9, <4>2, Zenon DEF KeptLast
    <3> QED  BY <3>2, <3>10
  <2> QED  BY <2>1
<1>9. Len(t) \in 0 .. Len(t)
  BY <1>2
<1> QED  BY <1>1, <1>3, <1>4, <1>5, <1>8, <1>9 DEF u, z

LEMMA OnlyOne ==
  ASSUME NEW S, NEW T, NEW x \in S
  PROVE  Only(<<x>>, T) = IF x \in T THEN <<x>> ELSE <<>>
<1>1. <<x>> \in Seq(S) /\ Len(<<x>>) = 1 /\ <<x>>[1] = x
  OBVIOUS
<1> DEFINE s == <<x>>
<1> HIDE DEF s
<1>2. PICK kept : Keeps(kept, s, S, T) /\ Only(s, T) = kept[Len(s)]
  BY <1>1, OnlyKeeps DEF s
<1>3. Len(s) = 1 /\ s[1] = x
  BY <1>1 DEF s
<1>4. kept[0] = <<>>
  BY <1>2 DEF Keeps
<1>5. kept[1] = IF x \in T THEN Append(<<>>, x) ELSE <<>>
  <2>1. 1 \in 1 .. Len(s)
    BY <1>3
  <2>2. kept[1] = IF s[1] \in T THEN Append(kept[1 - 1], s[1]) ELSE kept[1 - 1]
    BY <1>2, <2>1, Zenon DEF Keeps
  <2>3. 1 - 1 = 0
    OBVIOUS
  <2> QED  BY <1>3, <1>4, <2>2, <2>3, Zenon
<1>6. Append(<<>>, x) = <<x>>
  OBVIOUS
<1>7. Only(s, T) = IF x \in T THEN <<x>> ELSE <<>>
  BY <1>2, <1>3, <1>5, <1>6
<1> QED  BY <1>7 DEF s

OneOf(T, x) == IF x \in T THEN <<x>> ELSE <<>>

(* Of a sequence where one member at most counts, that is what counts.     *)
LEMMA OnlyAt ==
  ASSUME NEW S, NEW T, NEW s \in Seq(S), NEW m \in 1 .. Len(s),
         \A i \in 1 .. Len(s) : i # m => s[i] \notin T
  PROVE  Only(s, T) = OneOf(T, s[m])
<1>1. Len(s) \in Nat /\ m \in Nat /\ m - 1 \in Nat /\ s[m] \in S
  BY LenProperties, ElementOfSeq
<1> DEFINE a == SubSeq(s, 1, m - 1)
           b == SubSeq(s, (m - 1) + 1, m)
           c == SubSeq(s, m + 1, Len(s))
           z == IF s[m] \in T THEN <<s[m]>> ELSE <<>>
<1>2. /\ a \in Seq(S) /\ Len(a) = m - 1
      /\ \A i \in 1 .. m - 1 : a[i] = s[i]
      /\ c \in Seq(S) /\ Len(c) = Len(s) - m
      /\ \A i \in 1 .. Len(s) - m : c[i] = s[m + i]
  BY <1>1, Parts
<1>3. b \in Seq(S) /\ Len(b) = 1 /\ b[1] = s[m]
  <2>1. m - 1 <= m /\ m - (m - 1) = 1 /\ (m - 1) + 1 = m
    BY <1>1
  <2> QED  BY <1>1, <2>1, SubSeqIs
<1>4. (a \o b) \o c = s
  <2>1. a \o b = SubSeq(s, 1, m)
    <3>1. 1 \in 1 .. Len(s) + 1 /\ m - 1 \in 1 - 1 .. Len(s) /\ m \in m - 1 .. Len(s)
      BY <1>1
    <3> QED  BY <3>1, ConcatAdjacentSubSeq
  <2>2. SubSeq(s, 1, m) \o c = s
    <3>1. m \in 0 .. Len(s)
      BY <1>1
    <3> QED  BY <3>1, CutInTwo
  <2> QED  BY <2>1, <2>2
<1> HIDE DEF a, b, c, z
<1>5. b = <<s[m]>>
  BY <1>3
<1>6. Only(a, T) = <<>>
  <2>1. \A i \in 1 .. Len(a) : a[i] \notin T
    BY <1>1, <1>2
  <2> QED  BY <1>2, <2>1, OnlyNone
<1>7. Only(c, T) = <<>>
  <2>1. \A i \in 1 .. Len(c) : c[i] \notin T
    <3> TAKE i \in 1 .. Len(c)
    <3>1. m + i \in 1 .. Len(s) /\ m + i # m /\ i \in 1 .. Len(s) - m
      BY <1>1, <1>2
    <3> QED  BY <1>2, <3>1
  <2> QED  BY <1>2, <2>1, OnlyNone
<1>8. Only(b, T) = z
  BY <1>1, <1>5, OnlyOne DEF z
<1>9. z \in Seq(S)
  <2>1. <<s[m]>> \in Seq(S) /\ <<>> \in Seq(S)
    BY <1>1
  <2> QED  BY <2>1 DEF z
<1>10. a \o b \in Seq(S)
  BY <1>2, <1>3, ConcatProperties
<1>11. Only(s, T) = (Only(a, T) \o Only(b, T)) \o Only(c, T)
  <2>1. Only(a \o b, T) = Only(a, T) \o Only(b, T)
    BY <1>2, <1>3, OnlyJoin, Zenon
  <2>2. Only((a \o b) \o c, T) = Only(a \o b, T) \o Only(c, T)
    BY <1>2, <1>10, OnlyJoin, Zenon
  <2> QED  BY <1>4, <2>1, <2>2
<1>12. (<<>> \o z) \o <<>> = z
  BY <1>9, ConcatEmptySeq
<1> QED  BY <1>6, <1>7, <1>8, <1>11, <1>12 DEF z, OneOf

-----------------------------------------------------------------------------
(* What is shown of a text is the same, trimmed before or after filtering. *)

LEMMA TrimBlanks ==
  ASSUME NEW s \in Seq(Byte), \A i \in 1 .. Len(s) : s[i] = Blank
  PROVE  Trim(s) = <<>>
<1>1. DOMAIN s = 1 .. Len(s)
  BY LenProperties
<1>2. {i \in DOMAIN s : s[i] # Blank} = {}
  BY <1>1
<1> QED  BY <1>2 DEF Trim

LEMMA TrimParts ==
  ASSUME NEW u \in Seq(Byte), NEW v \in Seq(Byte), NEW w \in Seq(Byte),
         \A i \in 1 .. Len(u) : u[i] = Blank,
         \A i \in 1 .. Len(w) : w[i] = Blank,
         v # <<>>, v[1] # Blank, v[Len(v)] # Blank
  PROVE  Trim((u \o v) \o w) = v
<1> DEFINE x == u \o v
           s == x \o w
           kept == {i \in DOMAIN s : s[i] # Blank}
           lo == Len(u) + 1
           hi == Len(u) + Len(v)
<1>1. Len(u) \in Nat /\ Len(v) \in Nat /\ Len(v) >= 1 /\ Len(w) \in Nat
  BY LenProperties, EmptySeq
<1>2. /\ x \in Seq(Byte) /\ Len(x) = hi
      /\ \A i \in 1 .. hi : x[i] = IF i <= Len(u) THEN u[i] ELSE v[i - Len(u)]
  BY ConcatProperties
<1> HIDE DEF x
<1>3. /\ s \in Seq(Byte) /\ Len(s) = hi + Len(w)
      /\ \A i \in 1 .. hi + Len(w) : s[i] = IF i <= hi THEN x[i] ELSE w[i - hi]
  <2>1. /\ x \o w \in Seq(Byte) /\ Len(x \o w) = Len(x) + Len(w)
        /\ \A i \in 1 .. Len(x) + Len(w) :
             (x \o w)[i] = IF i <= Len(x) THEN x[i] ELSE w[i - Len(x)]
    <3>1. x \in Seq(Byte)
      BY <1>2
    <3> QED  BY <3>1, ConcatProperties
  <2> HIDE DEF hi
  <2> QED  BY <1>2, <2>1, Zenon
<1> HIDE DEF s
<1>4. DOMAIN s = 1 .. hi + Len(w)
  BY <1>3, LenProperties
<1>5. lo \in kept /\ hi \in kept
  <2>1. lo \in 1 .. hi /\ lo \in 1 .. hi + Len(w) /\ ~(lo <= Len(u)) /\ lo - Len(u) = 1
        /\ lo <= hi
    BY <1>1
  <2>2. hi \in 1 .. hi /\ hi \in 1 .. hi + Len(w) /\ ~(hi <= Len(u)) /\ hi - Len(u) = Len(v)
        /\ hi <= hi
    BY <1>1
  <2>3. s[lo] = v[1]
    BY <1>2, <1>3, <2>1
  <2>4. s[hi] = v[Len(v)]
    BY <1>2, <1>3, <2>2
  <2> QED  BY <1>4, <2>1, <2>2, <2>3, <2>4
<1>6. \A i \in kept : lo <= i /\ i <= hi
  <2> SUFFICES ASSUME NEW i \in 1 .. hi + Len(w), s[i] # Blank
               PROVE  lo <= i /\ i <= hi
    BY <1>4
  <2>1. i <= Len(u) => s[i] = Blank
    <3> SUFFICES ASSUME i <= Len(u)  PROVE s[i] = Blank
      OBVIOUS
    <3>1. i \in 1 .. hi /\ i <= hi /\ i \in 1 .. Len(u)
      BY <1>1
    <3> QED  BY <1>2, <1>3, <3>1
  <2>2. ~(i <= hi) => s[i] = Blank
    <3> SUFFICES ASSUME ~(i <= hi)  PROVE s[i] = Blank
      OBVIOUS
    <3>1. i - hi \in 1 .. Len(w)
      BY <1>1
    <3> QED  BY <1>3, <3>1
  <2> QED  BY <1>1, <2>1, <2>2
<1>7. kept \subseteq Nat /\ kept \subseteq 0 .. hi + Len(w) /\ kept # {}
  <2>1. kept # {}
    <3> HIDE DEF kept
    <3> QED  BY <1>5
  <2>2. kept \subseteq 1 .. hi + Len(w)
    BY <1>4
  <2>3. hi + Len(w) \in Nat
    BY <1>1
  <2> HIDE DEF kept, hi
  <2> QED  BY <2>1, <2>2, <2>3
<1> HIDE DEF kept
<1>8. Min(kept) = lo
  <2>1. Min(kept) \in kept /\ Min(kept) <= lo
    BY <1>5, <1>7, MinIs
  <2>2. Min(kept) \in Nat /\ lo <= Min(kept)
    BY <1>6, <1>7, <2>1, Zenon
  <2>3. lo \in Nat
    BY <1>1
  <2> QED  BY <2>1, <2>2, <2>3
<1>9. Max(kept) = hi
  <2>0. hi + Len(w) \in Nat
    BY <1>1
  <2> HIDE DEF hi
  <2>1. Max(kept) \in kept /\ hi <= Max(kept)
    BY <1>5, <1>7, <2>0, MaxIs
  <2>2. Max(kept) \in Nat /\ Max(kept) <= hi
    BY <1>6, <1>7, <2>1
  <2>3. hi \in Nat
    BY <1>1 DEF hi
  <2> QED  BY <2>1, <2>2, <2>3
<1>10. Trim(s) = SubSeq(s, lo, hi)
  BY <1>7, <1>8, <1>9 DEF Trim, kept
<1> DEFINE t == SubSeq(s, lo, hi)
<1>11. /\ t \in Seq(Byte) /\ Len(t) = Len(v)
       /\ \A i \in 1 .. Len(v) : t[i] = s[Len(u) + i]
  <2>1. hi \in Nat /\ Len(u) <= hi /\ hi <= Len(s) /\ hi - Len(u) = Len(v)
    BY <1>1, <1>3
  <2> HIDE DEF hi
  <2> QED  BY <1>1, <1>3, <2>1, SubSeqIs
<1>12. ASSUME NEW i \in 1 .. Len(v)  PROVE s[Len(u) + i] = v[i]
  <2>1. /\ Len(u) + i \in 1 .. hi /\ Len(u) + i \in 1 .. hi + Len(w)
        /\ Len(u) + i <= hi /\ ~(Len(u) + i <= Len(u)) /\ (Len(u) + i) - Len(u) = i
    BY <1>1
  <2> QED  BY <1>2, <1>3, <2>1
<1> HIDE DEF t
<1>13. t = v
  BY <1>11, <1>12, SeqEqual
<1> QED  BY <1>10, <1>13 DEF s, x, t

LEMMA OnlyEdges ==
  ASSUME NEW t \in Seq(Byte), t # <<>>, t[1] \in Visibles, t[Len(t)] \in Visibles
  PROVE  LET v == Only(t, Printables)
         IN  v # <<>> /\ v[1] = t[1] /\ v[Len(v)] = t[Len(t)]
<1>1. Len(t) \in Nat /\ Len(t) >= 1 /\ t[1] \in Byte /\ t[Len(t)] \in Byte
  BY LenProperties, EmptySeq, ElementOfSeq
<1>2. Visibles \subseteq Printables
  BY DEF Visibles, Printables
<1> DEFINE v == Only(t, Printables)
<1>3. v # <<>> /\ v[1] = t[1]
  <2> DEFINE b == SubSeq(t, 1 + 1, Len(t))
             o == Only(b, Printables)
  <2>1. t = <<t[1]>> \o b /\ b \in Seq(Byte)
    <3>1. /\ SubSeq(t, 1, 1) \in Seq(Byte) /\ Len(SubSeq(t, 1, 1)) = 1
          /\ SubSeq(t, 1, 1)[1] = t[1]
      BY <1>1, Parts
    <3>2. SubSeq(t, 1, 1) = <<t[1]>>
      <4> DEFINE b1 == SubSeq(t, 1, 1)
      <4> HIDE DEF b1
      <4>1. b1 \in Seq(Byte) /\ Len(b1) = 1 /\ b1[1] = t[1]
        BY <3>1 DEF b1
      <4>2. b1 = <<t[1]>>
        BY <4>1
      <4> QED  BY <4>2 DEF b1
    <3>3. 1 \in 0 .. Len(t)
      BY <1>1
    <3> QED  BY <3>2, <3>3, CutInTwo
  <2> HIDE DEF b, o
  <2>2. <<t[1]>> \in Seq(Byte) /\ Only(<<t[1]>>, Printables) = <<t[1]>>
    BY <1>1, <1>2, OnlyOne
  <2>3. v = <<t[1]>> \o o
    <3>1. Only(<<t[1]>> \o b, Printables) = Only(<<t[1]>>, Printables) \o Only(b, Printables)
      BY <2>1, <2>2, OnlyJoin, Zenon
    <3> QED  BY <2>1, <2>2, <3>1, Zenon DEF o
  <2>4. o \in Seq(Byte)
    BY <2>1, OnlyIs DEF o
  <2> QED  BY <1>1, <2>3, <2>4
<1>4. v[Len(v)] = t[Len(t)]
  <2> DEFINE n == Len(t) - 1
             a == SubSeq(t, 1, n)
             b == SubSeq(t, n + 1, Len(t))
             o == Only(a, Printables)
  <2>0. n \in Nat /\ n <= Len(t) /\ n + 1 = Len(t) /\ Len(t) - n = 1 /\ n \in 0 .. Len(t)
    BY <1>1
  <2> HIDE DEF n
  <2>1. t = a \o <<t[Len(t)]>> /\ a \in Seq(Byte)
    <3>1. b \in Seq(Byte) /\ Len(b) = 1 /\ b[1] = t[Len(t)]
      BY <1>1, <2>0, Parts
    <3>2. b = <<t[Len(t)]>>
      <4> HIDE DEF b
      <4> QED  BY <3>1
    <3> QED  BY <2>0, <3>2, CutInTwo
  <2> HIDE DEF a, o
  <2>2. <<t[Len(t)]>> \in Seq(Byte) /\ Only(<<t[Len(t)]>>, Printables) = <<t[Len(t)]>>
    BY <1>1, <1>2, OnlyOne
  <2>3. v = o \o <<t[Len(t)]>>
    <3>1. Only(a \o <<t[Len(t)]>>, Printables)
            = Only(a, Printables) \o Only(<<t[Len(t)]>>, Printables)
      BY <2>1, <2>2, OnlyJoin, Zenon
    <3> QED  BY <2>1, <2>2, <3>1, Zenon DEF o
  <2>4. o \in Seq(Byte)
    BY <2>1, OnlyIs DEF o
  <2> QED  BY <1>1, <2>3, <2>4
<1> QED  BY <1>3, <1>4

LEMMA BlanksOnly ==
  ASSUME NEW a \in Seq(Byte), \A i \in 1 .. Len(a) : a[i] \notin Visibles
  PROVE  LET o == Only(a, Printables)
         IN  o \in Seq(Byte) /\ \A i \in 1 .. Len(o) : o[i] = Blank
<1> DEFINE U == Byte \ Visibles
           o == Only(a, Printables)
<1>1. a \in Seq(U)
  <2>1. Len(a) \in Nat /\ a \in [1 .. Len(a) -> Byte]
    BY LenProperties
  <2>2. \A i \in 1 .. Len(a) : a[i] \in U
    BY <2>1
  <2> HIDE DEF U
  <2>3. a \in [1 .. Len(a) -> U]
    BY <2>1, <2>2
  <2> QED  BY <2>1, <2>3, SeqDef
<1>2. o \in Seq(U \cap Printables) /\ o \in Seq(Byte)
  <2> HIDE DEF U
  <2> QED  BY <1>1, OnlyIs
<1>3. \A c \in U \cap Printables : c = Blank
  BY DEF Byte, Visibles, Printables, Blank
<1> HIDE DEF o, U
<1>4. \A i \in 1 .. Len(o) : o[i] = Blank
  BY <1>2, <1>3, ElementOfSeq
<1> QED  BY <1>2, <1>4 DEF o

Shown(t) == {k \in 1 .. Len(t) : t[k] \in Visibles}

LEMMA ShownIs ==
  ASSUME NEW t \in Seq(Byte)
  PROVE  Trim(Filter[t])
           = IF Shown(t) = {} THEN <<>>
             ELSE Only(SubSeq(t, Min(Shown(t)), Max(Shown(t))), Printables)
<1> DEFINE V == Shown(t)
<1>1. Len(t) \in Nat
  BY LenProperties
<1>2. CASE V = {}
  <2>1. \A i \in 1 .. Len(t) : t[i] \notin Visibles
    BY <1>2 DEF Shown
  <2>2. Trim(Only(t, Printables)) = <<>>
    BY <2>1, BlanksOnly, TrimBlanks
  <2> QED  BY <1>2, <2>2, FilterOnly
<1>3. CASE V # {}
  <2>1. V \subseteq 1 .. Len(t)
    BY DEF Shown
  <2> HIDE DEF V
  <2>2. PICK p \in Nat, h \in Nat : Spans(V, Len(t), p, h)
    BY <1>1, <1>3, <2>1, SpanIs
  <2>4. /\ Min(V) = p + 1 /\ Max(V) = h /\ p < h /\ h <= Len(t)
        /\ p + 1 \in V /\ h \in V /\ p \in Nat /\ h \in Nat
        /\ \A m \in V : p + 1 <= m /\ m <= h
    BY <2>2 DEF Spans
  <2> DEFINE a == SubSeq(t, 1, p)
             b == SubSeq(t, p + 1, h)
             c == SubSeq(t, h + 1, Len(t))
             A == Only(a, Printables)
             B == Only(b, Printables)
             C == Only(c, Printables)
  <2>5. /\ a \in Seq(Byte) /\ Len(a) = p /\ \A k \in 1 .. p : a[k] = t[k]
        /\ c \in Seq(Byte) /\ Len(c) = Len(t) - h
        /\ \A k \in 1 .. Len(t) - h : c[k] = t[h + k]
    <3>1. p <= Len(t)
      BY <1>1, <2>4
    <3> QED  BY <2>4, <3>1, Parts
  <2>6. b \in Seq(Byte) /\ Len(b) = h - p /\ \A k \in 1 .. h - p : b[k] = t[p + k]
    BY <1>1, <2>4, SubSeqIs
  <2>7. (a \o b) \o c = t
    <3>1. a \o b = SubSeq(t, 1, h)
      <4>1. 1 \in 1 .. Len(t) + 1 /\ p \in 1 - 1 .. Len(t) /\ h \in p .. Len(t)
        BY <1>1, <2>4
      <4> QED  BY <4>1, ConcatAdjacentSubSeq
    <3>2. SubSeq(t, 1, h) \o c = t
      <4>1. h \in 0 .. Len(t)
        BY <1>1, <2>4
      <4> QED  BY <4>1, CutInTwo
    <3> QED  BY <3>1, <3>2
  <2> HIDE DEF a, b, c
  <2>8. \A k \in 1 .. Len(t) : t[k] \in Visibles => k \in V
    BY DEF V, Shown
  <2>9. A \in Seq(Byte) /\ \A i \in 1 .. Len(A) : A[i] = Blank
    <3>1. \A i \in 1 .. Len(a) : a[i] \notin Visibles
      <4> TAKE i \in 1 .. Len(a)
      <4>1. i \in 1 .. p /\ i \in 1 .. Len(t) /\ ~(p + 1 <= i)
        BY <1>1, <2>4, <2>5
      <4> QED  BY <2>4, <2>5, <2>8, <4>1
    <3> QED  BY <2>5, <3>1, BlanksOnly
  <2>10. C \in Seq(Byte) /\ \A i \in 1 .. Len(C) : C[i] = Blank
    <3>1. \A i \in 1 .. Len(c) : c[i] \notin Visibles
      <4> TAKE i \in 1 .. Len(c)
      <4>1. i \in 1 .. Len(t) - h /\ h + i \in 1 .. Len(t) /\ ~(h + i <= h)
        BY <1>1, <2>4, <2>5
      <4> QED  BY <2>4, <2>5, <2>8, <4>1
    <3> QED  BY <2>5, <3>1, BlanksOnly
  <2>11. B \in Seq(Byte) /\ B # <<>> /\ B[1] # Blank /\ B[Len(B)] # Blank
    <3>1. b[1] \in Visibles /\ b[Len(b)] \in Visibles /\ b # <<>>
      <4>1. 1 \in 1 .. h - p /\ h - p \in 1 .. h - p /\ p + (h - p) = h
        BY <2>4
      <4>2. t[p + 1] \in Visibles /\ t[h] \in Visibles
        BY <2>4 DEF V, Shown
      <4>3. b[1] = t[p + 1] /\ b[Len(b)] = t[h]
        BY <2>6, <4>1
      <4>4. Len(b) # 0
        BY <2>6, <4>1
      <4> QED  BY <4>2, <4>3, <4>4, EmptySeq
    <3>2. B # <<>> /\ B[1] = b[1] /\ B[Len(B)] = b[Len(b)]
      BY <2>6, <3>1, OnlyEdges
    <3>3. B \in Seq(Byte)
      BY <2>6, OnlyIs
    <3>4. Blank \notin Visibles
      BY DEF Blank, Visibles
    <3> HIDE DEF B
    <3> QED  BY <3>1, <3>2, <3>3, <3>4
  <2>12. Only(t, Printables) = (A \o B) \o C
    <3>1. Only(a \o b, Printables) = A \o B
      BY <2>5, <2>6, OnlyJoin, Zenon
    <3>2. a \o b \in Seq(Byte)
      BY <2>5, <2>6, ConcatProperties
    <3>3. Only((a \o b) \o c, Printables) = Only(a \o b, Printables) \o C
      BY <2>5, <3>2, OnlyJoin, Zenon
    <3> QED  BY <2>7, <3>1, <3>3, Zenon
  <2> HIDE DEF A, B, C
  <2>13. Trim((A \o B) \o C) = B
    BY <2>9, <2>10, <2>11, TrimParts
  <2>14. Filter[t] = (A \o B) \o C
    BY <2>12, FilterOnly
  <2>15. B = Only(SubSeq(t, Min(V), Max(V)), Printables)
    BY <2>4 DEF B, b
  <2> QED  BY <1>3, <2>13, <2>14, <2>15, Zenon DEF V
<1> QED  BY <1>2, <1>3

-----------------------------------------------------------------------------
(* The text that ends at a position of the bytes.                          *)

LEMMA TypedIs ==
  ASSUME NEW b \in Seq(Byte), NEW j \in 1 .. Len(b)
  PROVE  TypedBefore(b, j) \in Seq(Byte)
<1> DEFINE shown == {k \in 1 .. j - 1 :
                       b[k] \in Visibles /\ \A i \in k .. j - 1 : ~EndsLine(b[i])}
<1>1. CASE EndsLine(b[j]) /\ shown # {}
  <2>1. Len(b) \in Nat
    BY LenProperties
  <2>2. shown \subseteq 1 .. Len(b)
    BY <2>1
  <2>3. TypedBefore(b, j) = Only(SubSeq(b, Min(shown), Max(shown)), Printables)
    BY <1>1 DEF TypedBefore
  <2> HIDE DEF shown
  <2>4. PICK p \in Nat, h \in Nat : Spans(shown, Len(b), p, h)
    BY <1>1, <2>1, <2>2, SpanIs
  <2>5. p \in Nat /\ h \in Nat /\ Min(shown) = p + 1 /\ Max(shown) = h /\ p <= h /\ h <= Len(b)
    BY <2>4 DEF Spans
  <2>6. SubSeq(b, p + 1, h) \in Seq(Byte)
    BY <2>1, <2>5, SubSeqIs
  <2>7. Only(SubSeq(b, p + 1, h), Printables) \in Seq(Byte)
    BY <2>6, OnlyIs
  <2> QED  BY <2>3, <2>5, <2>7
<1>2. CASE ~(EndsLine(b[j]) /\ shown # {})
  <2>1. TypedBefore(b, j) = <<>>
    BY <1>2 DEF TypedBefore
  <2> QED  BY <2>1
<1> QED  BY <1>1, <1>2

LEMMA TypedNone ==
  ASSUME NEW b \in Seq(Byte), NEW j \in 1 .. Len(b),
         EndsLine(b[j]) => j > 1 /\ EndsLine(b[j - 1])
  PROVE  TypedBefore(b, j) = <<>>
<1>1. Len(b) \in Nat
  BY LenProperties
<1>2. CASE EndsLine(b[j])
  <2>1. \A k \in 1 .. j - 1 : j - 1 \in k .. j - 1
    BY <1>1
  <2>2. {k \in 1 .. j - 1 :
           b[k] \in Visibles /\ \A i \in k .. j - 1 : ~EndsLine(b[i])} = {}
    BY <1>2, <2>1
  <2> QED  BY <2>2 DEF TypedBefore
<1>3. CASE ~EndsLine(b[j])
  BY <1>3 DEF TypedBefore
<1> QED  BY <1>2, <1>3

(* It is there as soon as the bytes before it are.                         *)
LEMMA TypedSame ==
  ASSUME NEW b \in Seq(Byte), NEW n \in 0 .. Len(b), NEW j \in 1 .. n
  PROVE  TypedBefore(SubSeq(b, 1, n), j) = TypedBefore(b, j)
<1> DEFINE a == SubSeq(b, 1, n)
           shown(x) == {k \in 1 .. j - 1 :
                          x[k] \in Visibles /\ \A i \in k .. j - 1 : ~EndsLine(x[i])}
<1>1. /\ Len(b) \in Nat /\ n \in Nat /\ n <= Len(b)
      /\ a \in Seq(Byte) /\ Len(a) = n /\ \A k \in 1 .. n : a[k] = b[k]
  <2>1. Len(b) \in Nat
    BY LenProperties
  <2>2. n \in Nat /\ n <= Len(b)
    BY <2>1
  <2> QED  BY <2>1, <2>2, Parts
<1> HIDE DEF a
<1>2. shown(a) = shown(b)
  <2>1. \A k \in 1 .. j - 1 : k \in 1 .. n
    BY <1>1
  <2>2. \A k \in 1 .. j - 1 : \A i \in k .. j - 1 : i \in 1 .. n
    BY <1>1
  <2> QED  BY <1>1, <2>1, <2>2
<1>3. a[j] = b[j]
  BY <1>1
<1>4. ASSUME shown(b) # {}
      PROVE  SubSeq(a, Min(shown(b)), Max(shown(b))) = SubSeq(b, Min(shown(b)), Max(shown(b)))
  <2> DEFINE V == shown(b)
  <2>1. V \subseteq 1 .. n /\ V # {}
    BY <1>1, <1>4
  <2> HIDE DEF shown, V
  <2>2. PICK p \in Nat, h \in Nat : Spans(V, n, p, h)
    BY <1>1, <2>1, SpanIs
  <2>4. p \in Nat /\ h \in Nat /\ Min(V) = p + 1 /\ Max(V) = h /\ p <= h /\ h <= n
    BY <2>2 DEF Spans
  <2> DEFINE x == SubSeq(a, p + 1, h)
             y == SubSeq(b, p + 1, h)
  <2>5. x \in Seq(Byte) /\ Len(x) = h - p /\ \A k \in 1 .. h - p : x[k] = a[p + k]
    BY <1>1, <2>4, SubSeqIs
  <2>6. y \in Seq(Byte) /\ Len(y) = h - p /\ \A k \in 1 .. h - p : y[k] = b[p + k]
    <3>1. h <= Len(b)
      BY <1>1, <2>4
    <3> QED  BY <2>4, <3>1, SubSeqIs
  <2> HIDE DEF x, y
  <2>7. \A k \in 1 .. h - p : x[k] = y[k]
    <3> TAKE k \in 1 .. h - p
    <3>1. p + k \in 1 .. n
      BY <1>1, <2>4
    <3> QED  BY <1>1, <2>5, <2>6, <3>1
  <2>8. x = y
    BY <2>5, <2>6, <2>7, SeqEqual
  <2> QED  BY <2>4, <2>8 DEF x, y, V
<1>5. TypedBefore(a, j) = TypedBefore(b, j)
  <2>1. TypedBefore(a, j)
          = IF EndsLine(a[j]) /\ shown(a) # {}
            THEN Only(SubSeq(a, Min(shown(a)), Max(shown(a))), Printables) ELSE <<>>
    BY DEF TypedBefore
  <2>2. TypedBefore(b, j)
          = IF EndsLine(b[j]) /\ shown(b) # {}
            THEN Only(SubSeq(b, Min(shown(b)), Max(shown(b))), Printables) ELSE <<>>
    BY DEF TypedBefore
  <2> DEFINE V == shown(b)
  <2> HIDE DEF shown, V
  <2>3. TypedBefore(a, j)
          = IF EndsLine(b[j]) /\ V # {}
            THEN Only(SubSeq(a, Min(V), Max(V)), Printables) ELSE <<>>
    BY <1>2, <1>3, <2>1 DEF V
  <2>4. TypedBefore(b, j)
          = IF EndsLine(b[j]) /\ V # {}
            THEN Only(SubSeq(b, Min(V), Max(V)), Printables) ELSE <<>>
    BY <2>2 DEF V
  <2>5. V # {} => SubSeq(a, Min(V), Max(V)) = SubSeq(b, Min(V), Max(V))
    BY <1>4 DEF V
  <2> DEFINE x == SubSeq(a, Min(V), Max(V))
             y == SubSeq(b, Min(V), Max(V))
             ends == EndsLine(b[j]) /\ V # {}
  <2>6. ends => x = y
    BY <2>5
  <2>7. TypedBefore(a, j) = IF ends THEN Only(x, Printables) ELSE <<>>
    BY <2>3
  <2>8. TypedBefore(b, j) = IF ends THEN Only(y, Printables) ELSE <<>>
    BY <2>4
  <2> HIDE DEF x, y, ends
  <2> QED  BY <2>6, <2>7, <2>8
<1> QED  BY <1>5 DEF a

(* The text that ends at j, with p the end of the one before it.           *)
LEMMA TypedAt ==
  ASSUME NEW b \in Seq(Byte), NEW j \in 1 .. Len(b), NEW p \in 0 .. j - 1,
         p = 0 \/ EndsLine(b[p]),
         \A k \in p + 1 .. j - 1 : ~EndsLine(b[k]),
         EndsLine(b[j])
  PROVE  TypedBefore(b, j) = Trim(Filter[SubSeq(b, p + 1, j - 1)])
<1> DEFINE x == SubSeq(b, p + 1, j - 1)
           shown == {k \in 1 .. j - 1 :
                       b[k] \in Visibles /\ \A i \in k .. j - 1 : ~EndsLine(b[i])}
           V == Shown(x)
           n == j - 1 - p
<1>1. /\ Len(b) \in Nat /\ p \in Nat /\ j - 1 \in Nat /\ p <= j - 1 /\ j - 1 <= Len(b)
      /\ n \in Nat
  <2>1. Len(b) \in Nat
    BY LenProperties
  <2> QED  BY <2>1
<1>2. x \in Seq(Byte) /\ Len(x) = n /\ \A k \in 1 .. n : x[k] = b[p + k]
  BY <1>1, SubSeqIs
<1> HIDE DEF x
<1>3. TypedBefore(b, j)
        = IF shown # {} THEN Only(SubSeq(b, Min(shown), Max(shown)), Printables) ELSE <<>>
  BY DEF TypedBefore
<1>4. Trim(Filter[x])
        = IF V = {} THEN <<>> ELSE Only(SubSeq(x, Min(V), Max(V)), Printables)
  BY <1>2, ShownIs
<1>5. \A k \in shown : k - p \in V
  <2> TAKE k \in shown
  <2>1. k \in 1 .. j - 1 /\ b[k] \in Visibles
    OBVIOUS
  <2>2. k > p
    <3>1. k <= p => p \in k .. j - 1 /\ p # 0
      BY <1>1, <2>1
    <3>2. \A i \in k .. j - 1 : ~EndsLine(b[i])
      OBVIOUS
    <3> HIDE DEF shown
    <3> QED  BY <1>1, <2>1, <3>1, <3>2
  <2>3. k - p \in 1 .. n /\ p + (k - p) = k
    BY <1>1, <2>1, <2>2
  <2> HIDE DEF shown
  <2> QED  BY <1>2, <2>1, <2>3 DEF Shown
<1>6. \A k \in V : k \in 1 .. n /\ p + k \in shown
  <2> TAKE k \in V
  <2>1. k \in 1 .. n /\ b[p + k] \in Visibles
    BY <1>2 DEF Shown
  <2>2. p + k \in 1 .. j - 1
    BY <1>1, <2>1
  <2>3. \A i \in p + k .. j - 1 : i \in p + 1 .. j - 1
    BY <1>1, <2>1
  <2> HIDE DEF V, n
  <2> QED  BY <2>1, <2>2, <2>3
<1>7. V \subseteq 1 .. n /\ shown \subseteq 1 .. j - 1
  BY <1>2 DEF Shown
<1> HIDE DEF V, shown
<1>8. CASE V = {}
  <2>1. shown = {}
    BY <1>5, <1>8
  <2> QED  BY <1>3, <1>4, <1>8, <2>1 DEF x
<1>9. CASE V # {}
  <2>1. PICK q \in Nat, h \in Nat : Spans(V, n, q, h)
    <3> HIDE DEF n
    <3> QED  BY <1>1, <1>7, <1>9, SpanIs
  <2>2. PICK r \in Nat, g \in Nat : Spans(shown, j - 1, r, g)
    <3>1. shown # {}
      BY <1>6, <1>9
    <3> DEFINE m == j - 1
    <3> HIDE DEF m
    <3>2. m \in Nat /\ shown \subseteq 1 .. m
      BY <1>1, <1>7 DEF m
    <3>3. \E r \in Nat : \E g \in Nat : Spans(shown, m, r, g)
      BY <3>1, <3>2, SpanIs
    <3> QED  BY <3>3 DEF m
  <2>3. /\ Min(V) = q + 1 /\ Max(V) = h /\ q < h /\ h <= n
        /\ q + 1 \in V /\ h \in V
        /\ \A m \in V : q + 1 <= m /\ m <= h
    BY <2>1 DEF Spans
  <2>4. /\ Min(shown) = r + 1 /\ Max(shown) = g /\ r < g /\ g <= j - 1
        /\ r + 1 \in shown /\ g \in shown
        /\ \A m \in shown : r + 1 <= m /\ m <= g
    BY <2>2 DEF Spans
  <2>5. r = p + q /\ g = p + h
    <3>1. p + (q + 1) \in shown /\ p + h \in shown /\ (r + 1) - p \in V /\ g - p \in V
      BY <1>5, <1>6, <2>3, <2>4
    <3>2. r + 1 <= p + (q + 1) /\ p + h <= g /\ q + 1 <= (r + 1) - p /\ g - p <= h
      BY <2>3, <2>4, <3>1
    <3> HIDE DEF n
    <3> QED  BY <1>1, <3>2
  <2> DEFINE y == SubSeq(x, q + 1, h)
             z == SubSeq(b, r + 1, g)
  <2>6. y \in Seq(Byte) /\ Len(y) = h - q /\ \A k \in 1 .. h - q : y[k] = x[q + k]
    <3>1. q <= h /\ h <= Len(x)
      BY <1>2, <2>3
    <3>2. x \in Seq(Byte)
      BY <1>2
    <3> QED  BY <3>1, <3>2, SubSeqIs
  <2>7. z \in Seq(Byte) /\ Len(z) = g - r /\ \A k \in 1 .. g - r : z[k] = b[r + k]
    <3>1. r <= g /\ g <= Len(b)
      BY <1>1, <2>4
    <3> QED  BY <3>1, SubSeqIs
  <2> HIDE DEF y, z
  <2>8. \A k \in 1 .. h - q : y[k] = z[k]
    <3> TAKE k \in 1 .. h - q
    <3>1. q + k \in 1 .. n /\ k \in 1 .. g - r /\ p + (q + k) = r + k
      BY <1>1, <2>3, <2>5
    <3> HIDE DEF n
    <3>2. x[q + k] = b[p + (q + k)]
      BY <1>2, <3>1
    <3> QED  BY <2>6, <2>7, <3>1, <3>2
  <2>9. y = z
    <3>1. h - q = g - r
      BY <1>1, <2>5
    <3>2. Len(y) = Len(z) /\ \A k \in 1 .. Len(y) : y[k] = z[k]
      BY <2>6, <2>7, <2>8, <3>1
    <3>3. y \in Seq(Byte) /\ z \in Seq(Byte)
      BY <2>6, <2>7
    <3> QED  BY <3>2, <3>3, SeqEqual
  <2>10. shown # {}
    BY <2>4
  <2>11. TypedBefore(b, j) = Only(z, Printables)
    BY <1>3, <2>4, <2>10 DEF z
  <2>12. Trim(Filter[x]) = Only(y, Printables)
    BY <1>4, <1>9, <2>3 DEF y
  <2> QED  BY <2>9, <2>11, <2>12 DEF x
<1> QED  BY <1>8, <1>9

-----------------------------------------------------------------------------
(* Taking a line adds it to the lines typed, if there is something in it.  *)

TextsOf(b) == [j \in DOMAIN b |-> TypedBefore(b, j)]

LEMMA TextsAre ==
  ASSUME NEW b \in Seq(Byte)
  PROVE  /\ TextsOf(b) \in Seq(Seq(Byte)) /\ Len(TextsOf(b)) = Len(b)
         /\ \A j \in 1 .. Len(b) : TextsOf(b)[j] = TypedBefore(b, j)
<1>1. Len(b) \in Nat /\ DOMAIN b = 1 .. Len(b)
  BY LenProperties
<1>2. \A j \in 1 .. Len(b) : TypedBefore(b, j) \in Seq(Byte)
  BY TypedIs
<1>3. TextsOf(b) \in [1 .. Len(b) -> Seq(Byte)]
  BY <1>1, <1>2 DEF TextsOf
<1>4. \A j \in 1 .. Len(b) : TextsOf(b)[j] = TypedBefore(b, j)
  BY <1>1 DEF TextsOf
<1> QED  BY <1>1, <1>3, <1>4, FunctionIsSeq

(* From p + 1 there are l bytes of a text, and the ends of lines up to c.   *)
OneTyped(s, p, l, c) ==
  LinesTyped(SubSeq(s, 1, p + c))
    = LinesTyped(SubSeq(s, 1, p)) \o OneOf(Texts, Trim(Filter[SubSeq(s, p + 1, p + l)]))

LEMMA TypedMore ==
  ASSUME NEW s \in Seq(Byte), NEW p \in Nat, NEW l \in Nat, NEW c \in Nat,
         l < c, p + c <= Len(s),
         p = 0 \/ EndsLine(s[p]),
         \A k \in p + 1 .. p + l : ~EndsLine(s[k]),
         \A k \in p + l + 1 .. p + c : EndsLine(s[k])
  PROVE  OneTyped(s, p, l, c)
<1> DEFINE n == p + c
           a == SubSeq(s, 1, p)
           b == SubSeq(s, 1, n)
           x == SubSeq(b, p + 1, p + l)
           t == TextsOf(b)
           u == SubSeq(t, 1, p)
           v == SubSeq(t, p + 1, Len(t))
           line == Trim(Filter[SubSeq(s, p + 1, p + l)])
<1>1. Len(s) \in Nat /\ n \in Nat /\ p <= n /\ n <= Len(s) /\ p <= Len(s) /\ p \in 0 .. n
  <2>1. Len(s) \in Nat
    BY LenProperties
  <2> QED  BY <2>1
<1>2. b \in Seq(Byte) /\ Len(b) = n /\ \A k \in 1 .. n : b[k] = s[k]
  BY <1>1, Parts
<1>3. a \in Seq(Byte) /\ Len(a) = p /\ \A k \in 1 .. p : a[k] = s[k]
  BY <1>1, Parts
<1>4. a = SubSeq(b, 1, p)
  <2> DEFINE d == SubSeq(b, 1, p)
  <2> HIDE DEF a, b, n
  <2>1. d \in Seq(Byte) /\ Len(d) = p /\ \A k \in 1 .. p : d[k] = b[k]
    BY <1>1, <1>2, Parts
  <2> HIDE DEF d
  <2>2. \A k \in 1 .. p : a[k] = d[k]
    <3>1. \A k \in 1 .. p : k \in 1 .. n
      BY <1>1
    <3> QED  BY <1>2, <1>3, <2>1, <3>1
  <2>3. a = d
    BY <1>3, <2>1, <2>2, SeqEqual
  <2> QED  BY <2>3 DEF d
<1>5. x = SubSeq(s, p + 1, p + l)
  <2> DEFINE y == SubSeq(s, p + 1, p + l)
             h == p + l
  <2>1. h \in Nat /\ p <= h /\ h <= n /\ h <= Len(s) /\ h - p = l
    BY <1>1
  <2> HIDE DEF b, n
  <2>2. y \in Seq(Byte) /\ Len(y) = h - p /\ \A k \in 1 .. h - p : y[k] = s[p + k]
    <3> HIDE DEF h
    <3> QED  BY <2>1, SubSeqIs DEF h
  <2>3. x \in Seq(Byte) /\ Len(x) = h - p /\ \A k \in 1 .. h - p : x[k] = b[p + k]
    <3> HIDE DEF h
    <3> QED  BY <1>2, <2>1, SubSeqIs DEF h
  <2> HIDE DEF x, y, h
  <2>4. \A k \in 1 .. h - p : x[k] = y[k]
    <3> TAKE k \in 1 .. h - p
    <3>1. p + k \in 1 .. n
      BY <1>1, <2>1
    <3> QED  BY <1>2, <2>2, <2>3, <3>1
  <2>5. x = y
    BY <2>2, <2>3, <2>4, SeqEqual
  <2> QED  BY <2>5 DEF y
<1> HIDE DEF a, b, n
<1>6. t \in Seq(Seq(Byte)) /\ Len(t) = n /\ \A j \in 1 .. n : t[j] = TypedBefore(b, j)
  BY <1>2, TextsAre
<1> HIDE DEF t
<1>7. /\ u \in Seq(Seq(Byte)) /\ Len(u) = p /\ \A k \in 1 .. p : u[k] = t[k]
      /\ v \in Seq(Seq(Byte)) /\ Len(v) = n - p /\ \A k \in 1 .. n - p : v[k] = t[p + k]
  <2>1. t \in Seq(Seq(Byte)) /\ Len(t) = n /\ p <= Len(t)
    BY <1>1, <1>6
  <2>2. /\ u \in Seq(Seq(Byte)) /\ Len(u) = p /\ \A k \in 1 .. p : u[k] = t[k]
        /\ v \in Seq(Seq(Byte)) /\ Len(v) = Len(t) - p
        /\ \A k \in 1 .. Len(t) - p : v[k] = t[p + k]
    BY <2>1, Parts
  <2> QED  BY <2>1, <2>2
<1>8. u \o v = t
  BY <1>1, <1>6, CutInTwo
<1> HIDE DEF u, v
<1>9. u = TextsOf(a)
  <2>1. /\ TextsOf(a) \in Seq(Seq(Byte)) /\ Len(TextsOf(a)) = p
        /\ \A j \in 1 .. p : TextsOf(a)[j] = TypedBefore(a, j)
    BY <1>3, TextsAre
  <2>2. ASSUME NEW j \in 1 .. p  PROVE u[j] = TextsOf(a)[j]
    <3>1. TypedBefore(a, j) = TypedBefore(b, j)
      BY <1>1, <1>2, <1>4, TypedSame
    <3>2. j \in 1 .. n
      BY <1>1
    <3> QED  BY <1>6, <1>7, <2>1, <3>1, <3>2
  <2>3. \A j \in 1 .. p : u[j] = TextsOf(a)[j]
    BY <2>2
  <2> QED  BY <1>7, <2>1, <2>3, SeqEqual
<1>10. n - p = c /\ l + 1 \in 1 .. c /\ p + (l + 1) \in 1 .. n /\ p + l + 1 = p + (l + 1)
  BY <1>1 DEF n
<1>11. v[l + 1] = line
  <2> DEFINE j == p + (l + 1)
  <2>1. /\ j \in 1 .. n /\ p \in 0 .. j - 1 /\ j - 1 = p + l /\ j \in p + l + 1 .. n
    BY <1>1, <1>10 DEF n
  <2> HIDE DEF j
  <2>2. EndsLine(b[j])
    BY <1>2, <2>1 DEF n
  <2>3. p = 0 \/ EndsLine(b[p])
    <3>1. p # 0 => p \in 1 .. n
      BY <1>1
    <3> QED  BY <1>2, <3>1
  <2>4. \A k \in p + 1 .. j - 1 : ~EndsLine(b[k])
    <3> TAKE k \in p + 1 .. j - 1
    <3>1. k \in p + 1 .. p + l /\ k \in 1 .. n
      BY <1>1, <2>1
    <3> QED  BY <1>2, <3>1
  <2>5. TypedBefore(b, j) = Trim(Filter[SubSeq(b, p + 1, j - 1)])
    BY <1>2, <2>1, <2>2, <2>3, <2>4, TypedAt
  <2>6. v[l + 1] = TypedBefore(b, j)
    BY <1>6, <1>7, <1>10 DEF j
  <2> QED  BY <1>5, <2>1, <2>5, <2>6
<1>12. ASSUME NEW i \in 1 .. c, i # l + 1  PROVE v[i] \notin Texts
  <2> DEFINE j == p + i
  <2>1. j \in 1 .. n
    BY <1>1, <1>10
  <2>2. EndsLine(b[j]) => j > 1 /\ EndsLine(b[j - 1])
    <3>1. CASE i <= l
      <4>1. j \in p + 1 .. p + l
        BY <3>1
      <4> HIDE DEF j
      <4> QED  BY <1>2, <2>1, <4>1
    <3>2. CASE i > l + 1
      <4>1. j - 1 \in p + l + 1 .. p + c /\ j > 1 /\ j - 1 \in 1 .. n
        BY <1>1, <1>10, <3>2
      <4> HIDE DEF j
      <4> QED  BY <1>2, <4>1
    <3> QED  BY <1>12, <3>1, <3>2
  <2>3. v[i] = TypedBefore(b, j)
    BY <1>6, <1>7, <1>10, <2>1
  <2> HIDE DEF j
  <2>4. TypedBefore(b, j) = <<>>
    BY <1>2, <2>1, <2>2, TypedNone
  <2> QED  BY <2>3, <2>4 DEF Texts
<1> HIDE DEF line
<1>13. Only(v, Texts) = OneOf(Texts, line)
  <2>1. l + 1 \in 1 .. Len(v) /\ \A i \in 1 .. Len(v) : i # l + 1 => v[i] \notin Texts
    BY <1>7, <1>10, <1>12
  <2> DEFINE m == l + 1
  <2>2. v \in Seq(Seq(Byte)) /\ m \in 1 .. Len(v)
    BY <1>7, <2>1
  <2>3. \A i \in 1 .. Len(v) : i # m => v[i] \notin Texts
    BY <2>1
  <2>4. v[m] = line
    BY <1>11
  <2> HIDE DEF m
  <2>5. Only(v, Texts) = OneOf(Texts, v[m])
    BY <2>2, <2>3, OnlyAt
  <2> QED  BY <2>4, <2>5, Zenon
<1>14. Only(u \o v, Texts) = Only(u, Texts) \o Only(v, Texts)
  <2>1. u \in Seq(Seq(Byte)) /\ v \in Seq(Seq(Byte))
    BY <1>7
  <2>2. \A y, z \in Seq(Seq(Byte)) : Only(y \o z, Texts) = Only(y, Texts) \o Only(z, Texts)
    BY OnlyJoin
  <2> QED  BY <2>1, <2>2
<1>15. LinesTyped(b) = LinesTyped(a) \o OneOf(Texts, line)
  <2>1. LinesTyped(b) = Only(t, Texts) /\ LinesTyped(a) = Only(u, Texts)
    BY <1>9, Zenon DEF LinesTyped, TextsOf, t
  <2> QED  BY <1>8, <1>13, <1>14, <2>1, Zenon
<1> QED  BY <1>15, Zenon DEF a, b, n, line, OneTyped

-----------------------------------------------------------------------------
(* What has been taken ends with an end of line, which is what a text that *)
(* is cut by the segments could otherwise lack.                            *)
AtLineStart == got - in.len = 0 \/ EndsLine(stream[got - in.len])

TypedInv == LinesAsTyped /\ AtLineStart

LEMMA TypedInit == Init => TypedInv
<1> SUFFICES ASSUME Init  PROVE TypedInv
  OBVIOUS
<1>1. got - in.len = 0
  BY DEF Init, NewReserve
<1>2. Taken = <<>> /\ SubSeq(stream, 1, 0) = <<>>
  BY SubSeqEmpty DEF Init, Taken
<1>3. Only(<<>>, Texts) = <<>>
  <2>1. <<>> \in Seq(Seq(Byte)) /\ \A i \in 1 .. Len(<<>>) : <<>>[i] \notin Texts
    OBVIOUS
  <2> QED  BY <2>1, OnlyNone, Zenon
<1>4. LinesTyped(<<>>) = Only(<<>>, Texts)
  BY DEF LinesTyped
<1> QED  BY <1>1, <1>2, <1>3, <1>4 DEF TypedInv, LinesAsTyped, AtLineStart

LEMMA TypedTake == SessionInv /\ TypedInv /\ TakeLine => TypedInv'
<1> SUFFICES ASSUME SessionInv, TypedInv, TakeLine  PROVE TypedInv'
  OBVIOUS
<1>1. /\ in.len \in 0 .. got /\ got \in 0 .. Len(stream) /\ Len(stream) \in Nat
      /\ stream \in Seq(Byte)
  BY InputIs DEF SessionInv, TypeOK
<1>2. PICK p \in Nat : p = got - in.len /\ p <= got
  <2>1. got - in.len \in Nat /\ got - in.len <= got
    BY <1>1
  <2> QED  BY <2>1
<1>3. PICK e \in Seq(Byte) : e = Elems(in) /\ Len(e) = in.len /\ e = SubSeq(stream, p + 1, got)
  BY <1>2, InputIs
<1>4. \A k \in 1 .. in.len : e[k] = stream[p + k]
  <2>1. \A i, j \in Nat : i <= j /\ j <= Len(stream) =>
          \A k \in 1 .. j - i : SubSeq(stream, i + 1, j)[k] = stream[i + k]
    BY <1>1, SubSeqIs
  <2>2. got \in Nat /\ got <= Len(stream) /\ got - p = in.len
    BY <1>1, <1>2
  <2>3. \A k \in 1 .. got - p : SubSeq(stream, p + 1, got)[k] = stream[p + k]
    BY <1>2, <2>1, <2>2, Zenon
  <2> QED  BY <1>3, <2>2, <2>3
<1>5. /\ HasCompleteLine(e) /\ Consumed(e) \in 1 .. in.len
      /\ in'.len = in.len - Consumed(e)
      /\ LineOf(e) \in Seq(Byte) /\ LineEnd(e) \in 0 .. in.len - 1
  BY <1>3, TakeIs
<1>6. PICK c \in Nat, l \in Nat :
        /\ c = Consumed(e) /\ l = LineEnd(e) /\ l < c /\ c <= in.len
        /\ \A k \in 1 .. l : ~EndsLine(e[k])
        /\ \A k \in l + 1 .. c : EndsLine(e[k])
  <2> DEFINE c == Consumed(e)
             l == LineEnd(e)
  <2>1. /\ EndsLine(e[l + 1]) /\ \A k \in 1 .. l : ~EndsLine(e[k])
        /\ c \in l + 1 .. in.len
        /\ \A n \in l + 1 .. c - 1 : EndsLine(e[n + 1])
    BY <1>3, <1>5, LineEndIs, ConsumedIs
  <2>2. l \in 0 .. in.len - 1 /\ in.len \in Nat
    BY <1>1, <1>5
  <2> HIDE DEF c, l
  <2>3. \A k \in l + 1 .. c : EndsLine(e[k])
    <3> TAKE k \in l + 1 .. c
    <3>1. k = l + 1 \/ (k - 1 \in l + 1 .. c - 1 /\ (k - 1) + 1 = k)
      BY <2>1, <2>2
    <3> QED  BY <2>1, <3>1
  <2>4. c \in Nat /\ l \in Nat /\ l < c /\ c <= in.len
    BY <2>1, <2>2
  <2> QED  BY <2>1, <2>3, <2>4 DEF c, l
<1>7. p + c <= got /\ p + c <= Len(stream) /\ p + l <= Len(stream) /\ in.len \in Nat
  BY <1>1, <1>2, <1>6
<1>8. stream' = stream /\ got' - in'.len = p + c
  <2>1. stream' = stream /\ got' = got
    BY DEF TakeLine
  <2> QED  BY <1>1, <1>2, <1>5, <1>6, <2>1
<1>9. \A k \in p + 1 .. p + l : ~EndsLine(stream[k])
  <2> TAKE k \in p + 1 .. p + l
  <2>1. k - p \in 1 .. l /\ k - p \in 1 .. in.len /\ p + (k - p) = k
    <3>1. p \in Nat /\ l \in Nat /\ c \in Nat /\ l < c /\ c <= in.len /\ in.len \in Nat
      BY <1>2, <1>6, <1>7
    <3> QED  BY <3>1
  <2>2. stream[p + (k - p)] = e[k - p]
    BY <1>4, <2>1, Zenon
  <2>3. ~EndsLine(e[k - p])
    BY <1>6, <2>1, Zenon
  <2> QED  BY <2>1, <2>2, <2>3
<1>10. \A k \in p + l + 1 .. p + c : EndsLine(stream[k])
  <2> TAKE k \in p + l + 1 .. p + c
  <2>1. k - p \in l + 1 .. c /\ k - p \in 1 .. in.len /\ p + (k - p) = k
    <3>1. p \in Nat /\ l \in Nat /\ c \in Nat /\ l < c /\ c <= in.len /\ in.len \in Nat
      BY <1>2, <1>6, <1>7
    <3> QED  BY <3>1
  <2>2. stream[p + (k - p)] = e[k - p]
    BY <1>4, <2>1, Zenon
  <2>3. EndsLine(e[k - p])
    BY <1>6, <2>1, Zenon
  <2> QED  BY <2>1, <2>2, <2>3
<1>11. AtLineStart'
  <2>1. p + c \in p + l + 1 .. p + c
    BY <1>6
  <2> QED  BY <1>8, <1>10, <2>1 DEF AtLineStart
<1>12. SubSeq(stream, p + 1, p + l) = SubSeq(e, 1, l)
  <2> DEFINE x == SubSeq(stream, p + 1, p + l)
             y == SubSeq(e, 1, l)
  <2>1. x \in Seq(Byte) /\ Len(x) = l /\ \A k \in 1 .. l : x[k] = stream[p + k]
    <3>1. p + l \in Nat /\ p <= p + l /\ (p + l) - p = l
      OBVIOUS
    <3> DEFINE h == p + l
    <3> HIDE DEF h
    <3>2. h \in Nat /\ p <= h /\ h - p = l /\ h <= Len(stream)
      BY <1>7, <3>1 DEF h
    <3>3. /\ SubSeq(stream, p + 1, h) \in Seq(Byte)
          /\ Len(SubSeq(stream, p + 1, h)) = h - p
          /\ \A k \in 1 .. h - p : SubSeq(stream, p + 1, h)[k] = stream[p + k]
      BY <1>1, <3>2, SubSeqIs
    <3> QED  BY <3>2, <3>3 DEF h
  <2>2. y \in Seq(Byte) /\ Len(y) = l /\ \A k \in 1 .. l : y[k] = e[k]
    <3>1. l <= Len(e)
      BY <1>3, <1>6, <1>7
    <3> QED  BY <3>1, Parts
  <2> HIDE DEF x, y
  <2>3. \A k \in 1 .. l : x[k] = y[k]
    <3>1. \A k \in 1 .. l : k \in 1 .. in.len
      BY <1>6, <1>7
    <3> QED  BY <1>4, <2>1, <2>2, <3>1
  <2>4. x = y
    BY <2>1, <2>2, <2>3, SeqEqual
  <2> QED  BY <2>4 DEF x, y
<1>13. PICK line \in Seq(Byte) : line = LineOf(e) /\ line = Trim(Filter[SubSeq(stream, p + 1, p + l)])
  BY <1>5, <1>6, <1>12 DEF LineOf
<1>14. p = 0 \/ EndsLine(stream[p])
  BY <1>2 DEF TypedInv, AtLineStart
<1>15. LinesTyped(SubSeq(stream, 1, p + c)) = LinesTyped(SubSeq(stream, 1, p)) \o OneOf(Texts, line)
  <2>1. /\ stream \in Seq(Byte) /\ p \in Nat /\ l \in Nat /\ c \in Nat
        /\ l < c /\ p + c <= Len(stream)
    BY <1>1, <1>2, <1>6, <1>7
  <2>2. OneTyped(stream, p, l, c)
    BY <1>9, <1>10, <1>14, <2>1, TypedMore, Zenon
  <2> QED  BY <1>13, <2>2, Zenon DEF OneTyped
<1>16. Taken \in Seq(Seq(Byte)) /\ Taken' = Taken \o <<line>>
  <2>1. turns \in Seq(Turn)
    BY DEF SessionInv, TypeOK, Turn
  <2>2. PICK r : r = Reply(line)
                 /\ turns' = Append(turns, [state |-> state, line |-> line, reply |-> r])
    BY <1>3, <1>13 DEF TakeLine, GetLine
  <2>3. [state |-> state, line |-> line, reply |-> r] \in Turn
    BY <2>2, ReplyIs DEF SessionInv, TypeOK, Turn
  <2>4. Taken' = Append(Taken, line)
    BY <2>1, <2>2, <2>3, LinesOfTurns DEF Taken
  <2>5. Taken \in Seq(Seq(Byte))
    <3>1. /\ Len(turns) \in Nat /\ DOMAIN turns = 1 .. Len(turns)
          /\ \A i \in 1 .. Len(turns) : turns[i] \in Turn
      BY <2>1, LenProperties, ElementOfSeq
    <3>2. Taken \in [1 .. Len(turns) -> Seq(Byte)]
      BY <3>1 DEF Taken, Turn
    <3> QED  BY <3>1, <3>2, FunctionIsSeq
  <2> QED  BY <2>4, <2>5, AppendIsConcat
<1>17. Only(Taken, Texts)' = Only(Taken, Texts) \o OneOf(Texts, line)
  <2> DEFINE T == Taken
  <2>1. <<line>> \in Seq(Seq(Byte)) /\ T \in Seq(Seq(Byte))
    BY <1>16
  <2> HIDE DEF T
  <2>2. \A y, z \in Seq(Seq(Byte)) : Only(y \o z, Texts) = Only(y, Texts) \o Only(z, Texts)
    BY OnlyJoin
  <2>3. Only(T \o <<line>>, Texts) = Only(T, Texts) \o Only(<<line>>, Texts)
    BY <2>1, <2>2
  <2>4. Only(<<line>>, Texts) = OneOf(Texts, line)
    BY OnlyOne DEF OneOf
  <2> QED  BY <1>16, <2>3, <2>4 DEF T
<1>18. Only(Taken, Texts) = LinesTyped(SubSeq(stream, 1, p))
  BY <1>2 DEF TypedInv, LinesAsTyped
<1>19. LinesAsTyped'
  BY <1>8, <1>15, <1>17, <1>18 DEF LinesAsTyped
<1> QED  BY <1>11, <1>19 DEF TypedInv

LEMMA TypedStays == SessionInv /\ TypedInv /\ [Next]_vars /\ ~TakeLine => TypedInv'
<1> SUFFICES ASSUME SessionInv, TypedInv, [Next]_vars, ~TakeLine  PROVE TypedInv'
  OBVIOUS
<1>1. stream' = stream /\ turns' = turns
  BY DEF Next, Recv, Flush, Notice, TakeNothing, vars
<1>2. got' - in'.len = got - in.len
  <2>1. CASE Recv
    <3>1. PICK n \in Nat : got' = got + n /\ in'.len = in.len + n
      BY <2>1, RecvIs
    <3>2. got \in Nat /\ in.len \in Nat
      BY InputIs
    <3>3. (got + n) - (in.len + n) = got - in.len
      BY <3>2
    <3> QED  BY <3>1, <3>3
  <2>2. CASE ~Recv
    BY <2>2 DEF Next, Flush, Notice, TakeNothing, vars
  <2> QED  BY <2>1, <2>2
<1>3. LinesAsTyped'
  BY <1>1, <1>2 DEF TypedInv, LinesAsTyped, Taken
<1>4. AtLineStart'
  BY <1>1, <1>2 DEF TypedInv, AtLineStart
<1> QED  BY <1>3, <1>4 DEF TypedInv

(* However the stream is cut into segments and however much waits, the     *)
(* lines taken are those typed so far, in their order: none is lost,       *)
(* doubled or made of pieces of two (io.c:16-83).                          *)
THEOREM LinesAreAsTyped == Spec => []LinesAsTyped
<1>1. Init => TypedInv
  BY TypedInit
<1>2. SessionInv /\ TypedInv /\ [Next]_vars => TypedInv'
  BY TypedTake, TypedStays
<1>3. TypedInv => LinesAsTyped
  BY DEF TypedInv
<1> QED  BY <1>1, <1>2, <1>3, SessionInvHolds, PTL DEF Spec


-----------------------------------------------------------------------------
(* Names.                                                                  *)

LEMMA PassUnique ==
  ASSUME NEW line \in Seq(Byte), NEW start \in Nat, start < Len(line), NEW kind,
         NEW end \in start .. Len(line), end = Len(line) \/ line[end + 1] \notin kind,
         \A k \in start .. end - 1 : line[k + 1] \in kind
  PROVE  Pass(line, start, kind) = end
<1> DEFINE p == Pass(line, start, kind)
<1>1. /\ p \in start .. Len(line) /\ Len(line) \in Nat
      /\ p = Len(line) \/ line[p + 1] \notin kind
      /\ \A k \in start .. p - 1 : line[k + 1] \in kind
  <2>1. Len(line) \in Nat
    BY LenProperties
  <2>2. /\ p \in Nat /\ start <= p /\ p <= Len(line)
        /\ p = Len(line) \/ line[p + 1] \notin kind
        /\ \A k \in start .. p - 1 : line[k + 1] \in kind
    BY PassIs
  <2> HIDE DEF p
  <2> QED  BY <2>1, <2>2
<1> HIDE DEF p
<1>2. p < end => p \in start .. end - 1 /\ p # Len(line)
  BY <1>1
<1>3. end < p => end \in start .. p - 1 /\ end # Len(line)
  BY <1>1
<1>4. ~(p < end) /\ ~(end < p)
  BY <1>1, <1>2, <1>3
<1> QED  BY <1>1, <1>4 DEF p

(* The line that whispers '!' to a user.                                   *)
WhisperTo(name) == <<Prefix, 119, Blank>> \o name \o <<Blank, 33>>

LEMMA WhisperToIs ==
  ASSUME NEW name \in Seq(NameChar), NEW n \in Nat, n = Len(name)
  PROVE  LET line == WhisperTo(name)
         IN  /\ line \in Seq(Byte) /\ Len(line) = n + 5
             /\ line[1] = Prefix /\ line[2] = 119 /\ line[3] = Blank
             /\ \A k \in 1 .. n : line[3 + k] = name[k]
             /\ line[n + 4] = Blank /\ line[n + 5] = 33
<1>1. PICK u \in Seq(Byte) : u = <<Prefix, 119, Blank>> /\ Len(u) = 3
                             /\ u[1] = Prefix /\ u[2] = 119 /\ u[3] = Blank
  <2>1. <<Prefix, 119, Blank>> \in Seq(Byte) /\ Len(<<Prefix, 119, Blank>>) = 3
    BY DEF Prefix, Blank, Byte
  <2> QED  BY <2>1
<1>2. PICK w \in Seq(Byte) : w = <<Blank, 33>> /\ Len(w) = 2 /\ w[1] = Blank /\ w[2] = 33
  <2>1. <<Blank, 33>> \in Seq(Byte) /\ Len(<<Blank, 33>>) = 2
    BY DEF Blank, Byte
  <2> QED  BY <2>1
<1>3. name \in Seq(Byte)
  BY NamesAreBytes
<1>4. PICK v \in Seq(Byte) :
        /\ v = u \o name /\ Len(v) = 3 + n
        /\ \A k \in 1 .. 3 : v[k] = u[k]
        /\ \A k \in 1 .. n : v[3 + k] = name[k]
  <2>1. /\ u \o name \in Seq(Byte) /\ Len(u \o name) = 3 + n
        /\ \A k \in 1 .. 3 : (u \o name)[k] = u[k]
        /\ \A k \in 1 .. n : (u \o name)[3 + k] = name[k]
    BY <1>1, <1>3, JoinIs
  <2> QED  BY <2>1, Zenon
<1>5. PICK l \in Seq(Byte) :
        /\ l = v \o w /\ Len(l) = 3 + n + 2
        /\ \A k \in 1 .. 3 + n : l[k] = v[k]
        /\ \A k \in 1 .. 2 : l[3 + n + k] = w[k]
  <2>1. /\ v \o w \in Seq(Byte) /\ Len(v \o w) = 3 + n + 2
        /\ \A k \in 1 .. 3 + n : (v \o w)[k] = v[k]
        /\ \A k \in 1 .. 2 : (v \o w)[3 + n + k] = w[k]
    BY <1>2, <1>4, JoinIs
  <2> QED  BY <2>1, Zenon
<1>6. WhisperTo(name) = l
  BY <1>1, <1>2, <1>4, <1>5 DEF WhisperTo
<1>7. Len(l) = n + 5 /\ l[1] = Prefix /\ l[2] = 119 /\ l[3] = Blank
  BY <1>1, <1>4, <1>5
<1>8. \A k \in 1 .. n : l[3 + k] = name[k]
  <2> TAKE k \in 1 .. n
  <2>1. 3 + k \in 1 .. 3 + n
    OBVIOUS
  <2> QED  BY <1>4, <1>5, <2>1
<1>9. l[n + 4] = Blank /\ l[n + 5] = 33
  <2>1. 3 + n + 1 = n + 4 /\ 3 + n + 2 = n + 5 /\ 1 \in 1 .. 2 /\ 2 \in 1 .. 2
    OBVIOUS
  <2>2. l[3 + n + 1] = Blank /\ l[3 + n + 2] = 33
    BY <1>2, <1>5, <2>1
  <2> QED  BY <2>1, <2>2
<1> QED  BY <1>6, <1>7, <1>8, <1>9

LEMMA OneByte ==
  ASSUME NEW t \in Seq(Byte), Len(t) = 1
  PROVE  t = <<t[1]>>
<1>1. t[1] \in Byte
  BY ElementOfSeq
<1>2. PICK o \in Seq(Byte) : o = <<t[1]>> /\ Len(o) = 1 /\ o[1] = t[1]
  BY <1>1
<1>3. Len(t) = Len(o) /\ \A k \in 1 .. Len(t) : t[k] = o[k]
  BY <1>2
<1> QED  BY <1>2, <1>3, SeqEqual

LEMMA NameIsAddressable ==
  ASSUME NEW name \in Seq(NameChar), ValidateUsername(name)
  PROVE  /\ Command(WhisperTo(name)) = "whisper"
         /\ Recipient(WhisperTo(name)) = name
         /\ Message(WhisperTo(name)) = <<33>>
         /\ ~IsCommand(name)
<1>1. PICK n \in Nat : n = Len(name) /\ n >= 1 /\ DOMAIN name = 1 .. n
  BY LenProperties, CommandsAssumption DEF ValidateUsername
<1>2. \A k \in 1 .. n : name[k] \in NameChar /\ name[k] \in NotBlank
                        /\ name[k] # Prefix /\ name[k] # Blank
  BY <1>1, NamesAreBytes, ElementOfSeq DEF NotBlank
<1>3. PICK l \in Seq(Byte) :
        /\ l = WhisperTo(name) /\ Len(l) = n + 5
        /\ l[1] = Prefix /\ l[2] = 119 /\ l[3] = Blank
        /\ \A k \in 1 .. n : l[3 + k] = name[k]
        /\ l[n + 4] = Blank /\ l[n + 5] = 33
  BY <1>1, WhisperToIs
<1>4. Blank \notin NotBlank /\ 119 \in NotBlank /\ 33 \notin {Blank}
  BY DEF NotBlank, Blank, Byte
<1>5. CmdEnd(l) = 2
  <2>1. /\ 1 \in Nat /\ 1 < Len(l) /\ 2 \in 1 .. Len(l) /\ l[2 + 1] \notin NotBlank
        /\ \A k \in 1 .. 2 - 1 : l[k + 1] \in NotBlank
    BY <1>3, <1>4
  <2> QED  BY <2>1, PassUnique DEF CmdEnd
<1>6. RecipientStart(l) = 3
  <2>1. l[3 + 1] \notin {Blank}
    BY <1>1, <1>2, <1>3
  <2>2. /\ 3 \in Nat /\ 3 < Len(l) /\ 3 \in 3 .. Len(l)
        /\ \A k \in 3 .. 3 - 1 : l[k + 1] \in {Blank}
    BY <1>3
  <2> QED  BY <1>5, <2>1, <2>2, PassUnique DEF RecipientStart
<1>7. RecipientEnd(l) = n + 3
  <2>1. ASSUME NEW k \in 3 .. (n + 3) - 1  PROVE l[k + 1] \in NotBlank
    <3>1. k - 2 \in 1 .. n /\ 3 + (k - 2) = k + 1
      BY <1>1
    <3>2. l[3 + (k - 2)] = name[k - 2]
      BY <1>3, <3>1
    <3> QED  BY <1>2, <3>1, <3>2
  <2>2. l[(n + 3) + 1] \notin NotBlank
    <3>1. (n + 3) + 1 = n + 4
      OBVIOUS
    <3> QED  BY <1>3, <1>4, <3>1
  <2>3. 3 \in Nat /\ 3 < Len(l) /\ n + 3 \in 3 .. Len(l)
    BY <1>1, <1>3
  <2> QED  BY <1>6, <2>1, <2>2, <2>3, PassUnique DEF RecipientEnd
<1>8. MsgStart(l) = n + 4
  <2>1. l[(n + 4) + 1] \notin {Blank}
    <3>1. (n + 4) + 1 = n + 5
      OBVIOUS
    <3> QED  BY <1>3, <1>4, <3>1
  <2>2. /\ n + 4 \in Nat /\ n + 4 < Len(l) /\ n + 4 \in n + 4 .. Len(l)
        /\ \A k \in n + 4 .. (n + 4) - 1 : l[k + 1] \in {Blank}
    BY <1>3
  <2>3. RecipientEnd(l) + 1 = n + 4
    BY <1>7
  <2> QED  BY <2>1, <2>2, <2>3, PassUnique DEF MsgStart
<1>9. CmdStr(l) = <<119>>
  <2>1. 1 \in Nat /\ 2 \in Nat /\ 1 <= 2 /\ 2 <= Len(l)
    BY <1>3
  <2>2. PICK t \in Seq(Byte) : /\ t = SubSeq(l, 1 + 1, 2) /\ Len(t) = 1
                               /\ t[1] = l[2]
    <3>1. /\ SubSeq(l, 1 + 1, 2) \in Seq(Byte) /\ Len(SubSeq(l, 1 + 1, 2)) = 2 - 1
          /\ \A k \in 1 .. 2 - 1 : SubSeq(l, 1 + 1, 2)[k] = l[1 + k]
      BY <2>1, SubSeqIs
    <3>2. 2 - 1 = 1 /\ 1 \in 1 .. 2 - 1 /\ 1 + 1 = 2
      OBVIOUS
    <3> QED  BY <3>1, <3>2
  <2>3. t = <<119>>
    <3>1. t[1] = 119
      BY <1>3, <2>2
    <3>2. t = <<t[1]>>
      BY <2>2, OneByte
    <3> QED  BY <3>1, <3>2
  <2>4. CmdStr(l) = SubSeq(l, 1 + 1, 2)
    <3>1. 1 + 1 = 2
      OBVIOUS
    <3> QED  BY <1>5, <3>1, Zenon DEF CmdStr
  <2> QED  BY <2>2, <2>3, <2>4
<1>10. Command(l) = "whisper"
  <2>1. \A c \in DOMAIN Aliases : <<119>> \in Aliases[c] <=> c = "whisper"
    BY DEF Aliases
  <2>2. "whisper" \in DOMAIN Aliases
    BY DEF Aliases
  <2> QED  BY <1>9, <2>1, <2>2 DEF Command
<1>11. Recipient(l) = name
  <2>1. PICK t \in Seq(Byte) : /\ t = SubSeq(l, 3 + 1, n + 3) /\ Len(t) = n
                               /\ \A k \in 1 .. n : t[k] = l[3 + k]
    <3>1. 3 \in Nat /\ n + 3 \in Nat /\ 3 <= n + 3 /\ n + 3 <= Len(l) /\ (n + 3) - 3 = n
      BY <1>1, <1>3
    <3>2. /\ SubSeq(l, 3 + 1, n + 3) \in Seq(Byte)
          /\ Len(SubSeq(l, 3 + 1, n + 3)) = (n + 3) - 3
          /\ \A k \in 1 .. (n + 3) - 3 : SubSeq(l, 3 + 1, n + 3)[k] = l[3 + k]
      BY <3>1, SubSeqIs
    <3> QED  BY <3>1, <3>2
  <2>2. t = name
    BY <1>1, <1>3, <2>1, NamesAreBytes, SeqEqual
  <2> QED  BY <1>6, <1>7, <2>1, <2>2 DEF Recipient
<1>12. Message(l) = <<33>>
  <2>1. PICK t \in Seq(Byte) : /\ t = SubSeq(l, (n + 4) + 1, n + 5) /\ Len(t) = 1
                               /\ t[1] = l[n + 5]
    <3>1. n + 4 \in Nat /\ n + 5 \in Nat /\ n + 4 <= n + 5 /\ n + 5 <= Len(l)
          /\ (n + 5) - (n + 4) = 1 /\ (n + 4) + 1 = n + 5 /\ 1 \in 1 .. (n + 5) - (n + 4)
      BY <1>1, <1>3
    <3>2. /\ SubSeq(l, (n + 4) + 1, n + 5) \in Seq(Byte)
          /\ Len(SubSeq(l, (n + 4) + 1, n + 5)) = (n + 5) - (n + 4)
          /\ \A k \in 1 .. (n + 5) - (n + 4) :
               SubSeq(l, (n + 4) + 1, n + 5)[k] = l[(n + 4) + k]
      BY <3>1, SubSeqIs
    <3> QED  BY <3>1, <3>2
  <2>2. t = <<33>>
    BY <1>3, <2>1, OneByte
  <2> QED  BY <1>3, <1>8, <2>1, <2>2 DEF Message
<1>13. ~IsCommand(name)
  BY <1>1, <1>2 DEF IsCommand
<1> QED  BY <1>3, <1>10, <1>11, <1>12, <1>13

(* A name that a login accepts can be whispered to: no accepted name is    *)
(* cut where a command is, or taken for one (state.c:100, io.c:294).       *)
THEOREM AcceptedNamesAddressable == Spec => []NamesAddressable
<1>1. SessionInv => NamesAddressable
  <2> SUFFICES ASSUME SessionInv, username # <<>>
               PROVE  /\ Command(WhisperTo(username)) = "whisper"
                      /\ Recipient(WhisperTo(username)) = username
                      /\ Message(WhisperTo(username)) = <<33>>
                      /\ ~IsCommand(username)
    BY DEF NamesAddressable, WhisperTo
  <2>1. username \in Seq(NameChar) /\ ValidateUsername(username)
    BY DEF SessionInv, TypeOK, Named
  <2> QED  BY <2>1, NameIsAddressable
<1> QED  BY <1>1, SessionInvHolds, PTL

-----------------------------------------------------------------------------
(* Whispers.                                                               *)

(* Where the words of a whisper are in its line: the command ends at a, the *)
(* recipient is between b and c, and the message begins at d.              *)
Words(line, a, b, c, d) ==
  /\ a \in Nat /\ b \in Nat /\ c \in Nat /\ d \in Nat
  /\ 1 <= a /\ a < b /\ b < c /\ c < d /\ d < Len(line)
  /\ line[1] = Prefix
  /\ \A k \in 1 .. a - 1 : line[k + 1] # Blank
  /\ \A k \in a .. b - 1 : line[k + 1] = Blank
  /\ \A k \in b .. c - 1 : line[k + 1] # Blank
  /\ \A k \in c .. d - 1 : line[k + 1] = Blank
  /\ line[d + 1] # Blank

LEMMA BlankOrNot ==
  ASSUME NEW line \in Seq(Byte), NEW k \in Nat, k < Len(line)
  PROVE  line[k + 1] \in NotBlank <=> line[k + 1] # Blank
<1>1. k + 1 \in 1 .. Len(line)
  BY LenProperties
<1>2. line[k + 1] \in Byte
  BY <1>1, ElementOfSeq
<1> QED  BY <1>2 DEF NotBlank

LEMMA WordsAreFound ==
  ASSUME NEW line \in Seq(Byte), NEW a, NEW b, NEW c, NEW d, Words(line, a, b, c, d)
  PROVE  /\ CmdEnd(line) = a /\ RecipientStart(line) = b
         /\ RecipientEnd(line) = c /\ MsgStart(line) = d
<1>1. /\ a \in Nat /\ b \in Nat /\ c \in Nat /\ d \in Nat /\ Len(line) \in Nat
      /\ 1 <= a /\ a < b /\ b < c /\ c < d /\ d < Len(line)
  BY LenProperties DEF Words
<1>2. \A k \in Nat : k < Len(line) => (line[k + 1] \in NotBlank <=> line[k + 1] # Blank)
  BY BlankOrNot
<1>3. CmdEnd(line) = a
  <2>1. a \in 1 .. Len(line) /\ 1 < Len(line) /\ 1 \in Nat
    BY <1>1
  <2>2. line[a + 1] \notin NotBlank
    <3>1. a \in a .. b - 1 /\ a < Len(line)
      BY <1>1
    <3> QED  BY <1>1, <1>2, <3>1 DEF Words
  <2>3. ASSUME NEW k \in 1 .. a - 1  PROVE line[k + 1] \in NotBlank
    <3>1. k \in Nat /\ k < Len(line)
      BY <1>1
    <3> QED  BY <1>2, <2>3, <3>1 DEF Words
  <2> QED  BY <2>1, <2>2, <2>3, PassUnique DEF CmdEnd
<1>4. RecipientStart(line) = b
  <2>1. b \in a + 1 .. Len(line) /\ a + 1 < Len(line) /\ a + 1 \in Nat
    BY <1>1
  <2>2. line[b + 1] \notin {Blank}
    <3>1. b \in b .. c - 1
      BY <1>1
    <3> QED  BY <3>1 DEF Words
  <2>3. ASSUME NEW k \in a + 1 .. b - 1  PROVE line[k + 1] \in {Blank}
    <3>1. k \in a .. b - 1
      BY <1>1
    <3> QED  BY <3>1 DEF Words
  <2> QED  BY <1>3, <2>1, <2>2, <2>3, PassUnique DEF RecipientStart
<1>5. RecipientEnd(line) = c
  <2>1. c \in b .. Len(line) /\ b < Len(line)
    BY <1>1
  <2>2. line[c + 1] \notin NotBlank
    <3>1. c \in c .. d - 1 /\ c < Len(line)
      BY <1>1
    <3> QED  BY <1>1, <1>2, <3>1 DEF Words
  <2>3. ASSUME NEW k \in b .. c - 1  PROVE line[k + 1] \in NotBlank
    <3>1. k \in Nat /\ k < Len(line)
      BY <1>1
    <3> QED  BY <1>2, <2>3, <3>1 DEF Words
  <2> QED  BY <1>1, <1>4, <2>1, <2>2, <2>3, PassUnique DEF RecipientEnd
<1>6. MsgStart(line) = d
  <2>1. d \in c + 1 .. Len(line) /\ c + 1 < Len(line) /\ c + 1 \in Nat
    BY <1>1
  <2>2. line[d + 1] \notin {Blank}
    BY DEF Words
  <2>3. ASSUME NEW k \in c + 1 .. d - 1  PROVE line[k + 1] \in {Blank}
    <3>1. k \in c .. d - 1
      BY <1>1
    <3> QED  BY <3>1 DEF Words
  <2> QED  BY <1>5, <2>1, <2>2, <2>3, PassUnique DEF MsgStart
<1> QED  BY <1>3, <1>4, <1>5, <1>6

LEMMA FoundAreWords ==
  ASSUME NEW line \in Seq(Byte), IsCommand(line), Recipient(line) # <<>>,
         MsgStart(line) < Len(line)
  PROVE  Words(line, CmdEnd(line), RecipientStart(line), RecipientEnd(line),
               MsgStart(line))
<1>1. PICK n \in Nat : n = Len(line) /\ n >= 1
  BY LenProperties, EmptySeq DEF IsCommand
<1>2. \A k \in Nat : k < n => (line[k + 1] \in NotBlank <=> line[k + 1] # Blank)
  BY <1>1, BlankOrNot
<1>3. PICK a \in Nat :
        /\ a = CmdEnd(line) /\ 1 <= a
        /\ 1 >= n => a = 1
        /\ 1 < n => /\ a <= n /\ (a = n \/ line[a + 1] \notin NotBlank)
                    /\ \A k \in 1 .. a - 1 : line[k + 1] \in NotBlank
  BY <1>1, PassIs DEF CmdEnd
<1>4. PICK b \in Nat :
        /\ b = RecipientStart(line) /\ a + 1 <= b
        /\ a + 1 >= n => b = a + 1
        /\ a + 1 < n => /\ b <= n /\ (b = n \/ line[b + 1] \notin {Blank})
                        /\ \A k \in a + 1 .. b - 1 : line[k + 1] \in {Blank}
  <2> DEFINE p == Pass(line, a + 1, {Blank})
  <2>1. a + 1 \in Nat
    OBVIOUS
  <2>2. /\ p \in Nat /\ a + 1 <= p
        /\ a + 1 >= Len(line) => p = a + 1
        /\ a + 1 < Len(line) =>
             /\ p <= Len(line) /\ (p = Len(line) \/ line[p + 1] \notin {Blank})
             /\ \A k \in a + 1 .. p - 1 : line[k + 1] \in {Blank}
    BY <2>1, PassIs
  <2>3. p = RecipientStart(line)
    BY <1>3 DEF RecipientStart
  <2> HIDE DEF p
  <2> QED  BY <1>1, <2>2, <2>3
<1>5. PICK c \in Nat :
        /\ c = RecipientEnd(line) /\ b <= c
        /\ b >= n => c = b
        /\ b < n => /\ c <= n /\ (c = n \/ line[c + 1] \notin NotBlank)
                    /\ \A k \in b .. c - 1 : line[k + 1] \in NotBlank
  <2> DEFINE p == Pass(line, b, NotBlank)
  <2>1. /\ p \in Nat /\ b <= p
        /\ b >= Len(line) => p = b
        /\ b < Len(line) =>
             /\ p <= Len(line) /\ (p = Len(line) \/ line[p + 1] \notin NotBlank)
             /\ \A k \in b .. p - 1 : line[k + 1] \in NotBlank
    BY PassIs
  <2>2. p = RecipientEnd(line)
    BY <1>4 DEF RecipientEnd
  <2> HIDE DEF p
  <2> QED  BY <1>1, <2>1, <2>2
<1>6. PICK d \in Nat :
        /\ d = MsgStart(line) /\ c + 1 <= d
        /\ c + 1 >= n => d = c + 1
        /\ c + 1 < n => /\ d <= n /\ (d = n \/ line[d + 1] \notin {Blank})
                        /\ \A k \in c + 1 .. d - 1 : line[k + 1] \in {Blank}
  <2> DEFINE p == Pass(line, c + 1, {Blank})
  <2>1. c + 1 \in Nat
    OBVIOUS
  <2>2. /\ p \in Nat /\ c + 1 <= p
        /\ c + 1 >= Len(line) => p = c + 1
        /\ c + 1 < Len(line) =>
             /\ p <= Len(line) /\ (p = Len(line) \/ line[p + 1] \notin {Blank})
             /\ \A k \in c + 1 .. p - 1 : line[k + 1] \in {Blank}
    BY <2>1, PassIs
  <2>3. p = MsgStart(line)
    BY <1>5 DEF MsgStart
  <2> HIDE DEF p
  <2> QED  BY <1>1, <2>2, <2>3
<1>7. d < n
  BY <1>1, <1>6
<1>8. b # c
  <2>1. SUFFICES ASSUME b = c  PROVE FALSE
    OBVIOUS
  <2>2. b + 1 \in Int /\ c \in Int /\ c < b + 1
    BY <2>1
  <2>3. SubSeq(line, b + 1, c) = <<>>
    BY <2>2, SubSeqEmpty
  <2> QED  BY <1>4, <1>5, <2>3 DEF Recipient
<1>9. 1 <= a /\ a + 1 <= b /\ b <= c /\ c + 1 <= d
  BY <1>3, <1>4, <1>5, <1>6, Zenon
<1>10. a < b /\ b < c /\ c < d /\ a < n /\ b < n /\ c < n /\ 1 < n /\ a + 1 < n
  <2>1. a \in Nat /\ b \in Nat /\ c \in Nat /\ d \in Nat /\ n \in Nat
    BY <1>1, <1>3, <1>4, <1>5, <1>6
  <2>2. \A w, x, y, z, l \in Nat :
          1 <= w /\ w + 1 <= x /\ x <= y /\ y + 1 <= z /\ z < l /\ x # y =>
          w < x /\ x < y /\ y < z /\ w < l /\ x < l /\ y < l /\ 1 < l /\ w + 1 < l
    OBVIOUS
  <2> QED  BY <1>7, <1>8, <1>9, <2>1, <2>2, Zenon
<1>11. \A k \in 1 .. a - 1 : line[k + 1] # Blank
  <2> TAKE k \in 1 .. a - 1
  <2>1. k \in Nat /\ k < n
    BY <1>10
  <2> QED  BY <1>2, <1>3, <1>10, <2>1
<1>12. \A k \in a .. b - 1 : line[k + 1] = Blank
  <2> TAKE k \in a .. b - 1
  <2>1. CASE k = a
    BY <1>2, <1>3, <1>10, <2>1
  <2>2. CASE k # a
    <3>1. k \in a + 1 .. b - 1
      BY <1>10, <2>2
    <3> QED  BY <1>4, <1>10, <3>1
  <2> QED  BY <2>1, <2>2
<1>13. \A k \in b .. c - 1 : line[k + 1] # Blank
  <2> TAKE k \in b .. c - 1
  <2>1. k \in Nat /\ k < n
    BY <1>10
  <2> QED  BY <1>2, <1>5, <1>10, <2>1
<1>14. \A k \in c .. d - 1 : line[k + 1] = Blank
  <2> TAKE k \in c .. d - 1
  <2>1. CASE k = c
    BY <1>2, <1>5, <1>10, <2>1
  <2>2. CASE k # c
    <3>1. k \in c + 1 .. d - 1 /\ c + 1 < n
      BY <1>7, <1>10, <2>2
    <3> QED  BY <1>6, <3>1
  <2> QED  BY <2>1, <2>2
<1>15. line[d + 1] # Blank
  <2>1. CASE c + 1 < n
    BY <1>6, <1>7, <2>1
  <2>2. CASE ~(c + 1 < n)
    BY <1>6, <1>7, <2>2
  <2> QED  BY <2>1, <2>2
<1>16. line[1] = Prefix
  BY DEF IsCommand
<1> QED
  BY <1>1, <1>3, <1>4, <1>5, <1>6, <1>7, <1>10, <1>11, <1>12, <1>13, <1>14, <1>15, <1>16
     DEF Words

(* The aliases of whisper are words, and no other command has them.        *)
LEMMA WhisperAliases ==
  /\ \A alias \in Aliases.whisper :
       /\ alias \in Seq(Byte) /\ Len(alias) \in Nat \ {0}
       /\ \A k \in 1 .. Len(alias) : alias[k] # Blank
  /\ \A line : Command(line) = "whisper" <=> CmdStr(line) \in Aliases.whisper
<1> DEFINE w == <<119>>
           whisper == <<119, 104, 105, 115, 112, 101, 114>>
           m == <<109>>
           msg == <<109, 115, 103>>
           Word(alias) == /\ alias \in Seq(Byte) /\ Len(alias) \in Nat \ {0}
                          /\ \A k \in 1 .. Len(alias) : alias[k] # Blank
<1>1. Aliases.whisper = {w, whisper, m, msg}
  BY DEF Aliases
<1>2. Word(w) /\ Word(m)
  BY DEF Byte, Blank
<1>3. Word(msg)
  BY DEF Byte, Blank
<1>4. Word(whisper)
  BY DEF Byte, Blank
<1>5. \A c \in DOMAIN Aliases : w \in Aliases[c] <=> c = "whisper"
  BY DEF Aliases
<1>6. \A c \in DOMAIN Aliases : m \in Aliases[c] <=> c = "whisper"
  BY DEF Aliases
<1>7. \A c \in DOMAIN Aliases : msg \in Aliases[c] <=> c = "whisper"
  BY DEF Aliases
<1>8. \A c \in DOMAIN Aliases : whisper \in Aliases[c] <=> c = "whisper"
  BY DEF Aliases
<1>9. "whisper" \in DOMAIN Aliases /\ "help" # "whisper"
  BY DEF Aliases
<1> HIDE DEF w, whisper, m, msg, Word
<1>10. ASSUME NEW line
       PROVE  Command(line) = "whisper" <=> CmdStr(line) \in Aliases.whisper
  <2> DEFINE str == CmdStr(line)
             c == CHOOSE x \in DOMAIN Aliases : str \in Aliases[x]
  <2>1. CASE str \in Aliases.whisper
    <3>1. \A x \in DOMAIN Aliases : str \in Aliases[x] <=> x = "whisper"
      BY <1>1, <1>5, <1>6, <1>7, <1>8, <2>1
    <3>2. (\E x \in DOMAIN Aliases : str \in Aliases[x]) /\ c = "whisper"
      BY <1>9, <3>1
    <3> QED  BY <2>1, <3>2 DEF Command
  <2>2. CASE str \notin Aliases.whisper
    <3>1. ASSUME \E x \in DOMAIN Aliases : str \in Aliases[x]
          PROVE  c # "whisper"
      <4>1. c \in DOMAIN Aliases /\ str \in Aliases[c]
        BY <3>1
      <4> QED  BY <2>2, <4>1
    <3> QED  BY <1>9, <2>2, <3>1 DEF Command
  <2> QED  BY <2>1, <2>2
<1> QED  BY <1>1, <1>2, <1>3, <1>4, <1>10 DEF Word

(* Two parts of a line that meet.                                          *)
LEMMA PartsMeet ==
  ASSUME NEW S, NEW s \in Seq(S), NEW i \in Nat, NEW j \in Nat, i <= j, j <= Len(s)
  PROVE  SubSeq(s, 1, i) \o SubSeq(s, i + 1, j) = SubSeq(s, 1, j)
<1>1. Len(s) \in Nat /\ i <= Len(s)
  BY LenProperties
<1>2. PICK u \in Seq(S) : /\ u = SubSeq(s, 1, i) /\ Len(u) = i
                          /\ \A k \in 1 .. i : u[k] = s[k]
  <2>1. /\ SubSeq(s, 1, i) \in Seq(S) /\ Len(SubSeq(s, 1, i)) = i
        /\ \A k \in 1 .. i : SubSeq(s, 1, i)[k] = s[k]
    BY <1>1, Parts
  <2> QED  BY <2>1, Zenon
<1>3. PICK v \in Seq(S) : /\ v = SubSeq(s, i + 1, j) /\ Len(v) = j - i
                          /\ \A k \in 1 .. j - i : v[k] = s[i + k]
  <2>1. /\ SubSeq(s, i + 1, j) \in Seq(S) /\ Len(SubSeq(s, i + 1, j)) = j - i
        /\ \A k \in 1 .. j - i : SubSeq(s, i + 1, j)[k] = s[i + k]
    BY SubSeqIs
  <2> QED  BY <2>1, Zenon
<1>4. PICK w \in Seq(S) : /\ w = SubSeq(s, 1, j) /\ Len(w) = j
                          /\ \A k \in 1 .. j : w[k] = s[k]
  <2>1. /\ SubSeq(s, 1, j) \in Seq(S) /\ Len(SubSeq(s, 1, j)) = j
        /\ \A k \in 1 .. j : SubSeq(s, 1, j)[k] = s[k]
    BY <1>1, Parts
  <2> QED  BY <2>1, Zenon
<1>5. PICK t \in Seq(S) : /\ t = u \o v /\ Len(t) = i + (j - i)
                          /\ \A k \in 1 .. i : t[k] = u[k]
                          /\ \A k \in 1 .. j - i : t[i + k] = v[k]
  <2>1. /\ u \o v \in Seq(S) /\ Len(u \o v) = i + (j - i)
        /\ \A k \in 1 .. i : (u \o v)[k] = u[k]
        /\ \A k \in 1 .. j - i : (u \o v)[i + k] = v[k]
    BY <1>2, <1>3, JoinIs
  <2> QED  BY <2>1, Zenon
<1>6. ASSUME NEW k \in 1 .. j  PROVE t[k] = w[k]
  <2>1. CASE k <= i
    <3>1. k \in 1 .. i
      BY <2>1
    <3> QED  BY <1>2, <1>4, <1>5, <3>1
  <2>2. CASE i < k
    <3>1. k - i \in 1 .. j - i /\ i + (k - i) = k
      BY <2>2
    <3>2. t[k] = v[k - i]
      BY <1>5, <3>1
    <3>3. v[k - i] = s[k]
      BY <1>3, <3>1
    <3> QED  BY <1>4, <3>2, <3>3
  <2> QED  BY <2>1, <2>2
<1>7. Len(t) = Len(w)
  BY <1>4, <1>5
<1>8. t = w
  BY <1>4, <1>6, <1>7, SeqEqual
<1> QED  BY <1>2, <1>3, <1>4, <1>5, <1>8

LEMMA WordsWhisper ==
  ASSUME NEW line \in Seq(Byte), NEW a, NEW b, NEW c, NEW d, Words(line, a, b, c, d),
         SubSeq(line, 2, a) \in Aliases.whisper
  PROVE  IsWhisper(line, SubSeq(line, b + 1, c), SubSeq(line, d + 1, Len(line)))
<1>1. PICK n \in Nat : n = Len(line) /\ DOMAIN line = 1 .. n
  BY LenProperties
<1>2. /\ a \in Nat /\ b \in Nat /\ c \in Nat /\ d \in Nat
      /\ 1 <= a /\ a < b /\ b < c /\ c < d /\ d < n
      /\ 1 + 1 = 2
  BY <1>1 DEF Words
<1>3. PICK to \in Seq(Byte) : /\ to = SubSeq(line, b + 1, c) /\ Len(to) = c - b
                              /\ \A k \in 1 .. c - b : to[k] = line[b + k]
  <2>1. /\ SubSeq(line, b + 1, c) \in Seq(Byte) /\ Len(SubSeq(line, b + 1, c)) = c - b
        /\ \A k \in 1 .. c - b : SubSeq(line, b + 1, c)[k] = line[b + k]
    BY <1>1, <1>2, SubSeqIs
  <2> QED  BY <2>1, Zenon
<1>4. PICK said \in Seq(Byte) : /\ said = SubSeq(line, d + 1, n) /\ Len(said) = n - d
                                /\ \A k \in 1 .. n - d : said[k] = line[d + k]
  <2>1. /\ SubSeq(line, d + 1, n) \in Seq(Byte) /\ Len(SubSeq(line, d + 1, n)) = n - d
        /\ \A k \in 1 .. n - d : SubSeq(line, d + 1, n)[k] = line[d + k]
    BY <1>1, <1>2, SubSeqIs
  <2> QED  BY <2>1, Zenon
<1>5. Blank \notin ToSet(to) /\ to # <<>>
  <2>1. ASSUME NEW k \in 1 .. c - b  PROVE to[k] # Blank
    <3>1. b + k - 1 \in b .. c - 1 /\ (b + k - 1) + 1 = b + k
      BY <1>2
    <3>2. line[(b + k - 1) + 1] # Blank
      BY <3>1 DEF Words
    <3> QED  BY <1>3, <3>1, <3>2
  <2>2. DOMAIN to = 1 .. Len(to)
    BY LenProperties
  <2>3. Len(to) # 0
    BY <1>2, <1>3
  <2>4. to # <<>>
    BY <2>3, EmptySeq
  <2> QED  BY <1>3, <2>1, <2>2, <2>4 DEF ToSet
<1>6. said # <<>> /\ Head(said) # Blank
  <2>1. 1 \in 1 .. n - d /\ Len(said) # 0
    BY <1>2, <1>4
  <2>2. said[1] = line[d + 1]
    BY <1>4, <2>1
  <2> QED  BY <2>1, <2>2 DEF Words
<1>7. PICK alias \in Aliases.whisper : alias = SubSeq(line, 2, a) /\ alias \in Seq(Byte)
  BY WhisperAliases
<1>8. SubSeq(line, 1, 1) = <<Prefix>>
  <2>1. /\ SubSeq(line, 1, 1) \in Seq(Byte) /\ Len(SubSeq(line, 1, 1)) = 1
        /\ SubSeq(line, 1, 1)[1] = line[1]
    BY <1>1, <1>2, Parts
  <2>2. PICK t \in Seq(Byte) : t = SubSeq(line, 1, 1) /\ Len(t) = 1 /\ t[1] = Prefix
    BY <2>1 DEF Words
  <2>3. t = <<Prefix>>
    BY <2>2, OneByte
  <2> QED  BY <2>2, <2>3
<1>9. <<Prefix>> \o alias = SubSeq(line, 1, a)
  <2>1. SubSeq(line, 1, 1) \o SubSeq(line, 1 + 1, a) = SubSeq(line, 1, a)
    BY <1>1, <1>2, PartsMeet
  <2> QED  BY <1>2, <1>7, <1>8, <2>1, Zenon
<1>10. ASSUME NEW i \in Nat, NEW j \in Nat, i <= j, j <= n,
              \A k \in i .. j - 1 : line[k + 1] = Blank
       PROVE  SubSeq(line, i + 1, j) = [k \in 1 .. j - i |-> Blank]
  <2>1. PICK t \in Seq(Byte) : /\ t = SubSeq(line, i + 1, j) /\ Len(t) = j - i
                               /\ \A k \in 1 .. j - i : t[k] = line[i + k]
    <3>1. /\ SubSeq(line, i + 1, j) \in Seq(Byte) /\ Len(SubSeq(line, i + 1, j)) = j - i
          /\ \A k \in 1 .. j - i : SubSeq(line, i + 1, j)[k] = line[i + k]
      BY <1>1, <1>10, SubSeqIs
    <3> QED  BY <3>1, Zenon
  <2>2. ASSUME NEW k \in 1 .. j - i  PROVE t[k] = Blank
    <3>1. i + k - 1 \in i .. j - 1 /\ (i + k - 1) + 1 = i + k
      OBVIOUS
    <3> QED  BY <1>10, <2>1, <3>1
  <2>3. PICK z \in Seq(Byte) : /\ z = [k \in 1 .. j - i |-> Blank] /\ Len(z) = j - i
                               /\ \A k \in 1 .. j - i : z[k] = Blank
    <3>1. j - i \in Nat /\ Blank \in Byte
      BY <1>10 DEF Blank, Byte
    <3> DEFINE y == [k \in 1 .. j - i |-> Blank]
    <3>2. y \in [1 .. j - i -> Byte] /\ \A k \in 1 .. j - i : y[k] = Blank
      BY <3>1
    <3> HIDE DEF y
    <3>3. y \in Seq(Byte) /\ Len(y) = j - i
      BY <3>1, <3>2, FunctionIsSeq
    <3> QED  BY <3>2, <3>3 DEF y
  <2>4. t = z
    BY <2>1, <2>2, <2>3, SeqEqual
  <2> QED  BY <2>1, <2>3, <2>4
<1>11. SubSeq(line, a + 1, b) = [k \in 1 .. b - a |-> Blank]
  <2>1. a <= b /\ b <= n /\ \A k \in a .. b - 1 : line[k + 1] = Blank
    BY <1>2 DEF Words
  <2> QED  BY <1>2, <1>10, <2>1, Zenon
<1>12. SubSeq(line, c + 1, d) = [k \in 1 .. d - c |-> Blank]
  <2>1. c <= d /\ d <= n /\ \A k \in c .. d - 1 : line[k + 1] = Blank
    BY <1>2 DEF Words
  <2> QED  BY <1>2, <1>10, <2>1, Zenon
<1>13. line = <<Prefix>> \o alias \o [k \in 1 .. b - a |-> Blank]
                \o to \o [k \in 1 .. d - c |-> Blank] \o said
  <2>1. SubSeq(line, 1, a) \o SubSeq(line, a + 1, b) = SubSeq(line, 1, b)
    BY <1>1, <1>2, PartsMeet
  <2>2. SubSeq(line, 1, b) \o SubSeq(line, b + 1, c) = SubSeq(line, 1, c)
    BY <1>1, <1>2, PartsMeet
  <2>3. SubSeq(line, 1, c) \o SubSeq(line, c + 1, d) = SubSeq(line, 1, d)
    BY <1>1, <1>2, PartsMeet
  <2>4. SubSeq(line, 1, d) \o SubSeq(line, d + 1, n) = line
    <3>1. d <= n /\ n <= Len(line)
      BY <1>1, <1>2
    <3>2. SubSeq(line, 1, d) \o SubSeq(line, d + 1, n) = SubSeq(line, 1, n)
      BY <1>2, <3>1, PartsMeet
    <3>3. SubSeq(line, 1, n) = line
      BY <1>1, SubSeqFull
    <3> QED  BY <3>2, <3>3
  <2> QED  BY <1>3, <1>4, <1>9, <1>11, <1>12, <2>1, <2>2, <2>3, <2>4, Zenon
<1>14. IsPrefix(<<Prefix>> \o alias, line)
  <2>1. PICK t \in Seq(Byte) : /\ t = SubSeq(line, 1, a) /\ Len(t) = a
                               /\ \A k \in 1 .. a : t[k] = line[k]
    <3>1. a <= Len(line)
      BY <1>1, <1>2
    <3>2. /\ SubSeq(line, 1, a) \in Seq(Byte) /\ Len(SubSeq(line, 1, a)) = a
          /\ \A k \in 1 .. a : SubSeq(line, 1, a)[k] = line[k]
      BY <1>2, <3>1, Parts
    <3> QED  BY <3>2, Zenon
  <2>2. Len(t) <= Len(line)
    BY <1>1, <1>2, <2>1
  <2>3. IsPrefix(t, line)
    BY <2>1, <2>2, PrefixIs
  <2> QED  BY <1>9, <2>1, <2>3
<1>15. b - a \in DOMAIN line /\ d - c \in DOMAIN line
  BY <1>1, <1>2
<1>16. IsWhisper(line, to, said)
  BY <1>5, <1>6, <1>7, <1>13, <1>14, <1>15, Zenon DEF IsWhisper
<1> QED  BY <1>1, <1>3, <1>4, <1>16

(* The parts of what is joined.                                            *)
Joins(x, s, t, i, j) ==
  /\ x = s \o t /\ Len(x) = j
  /\ \A k \in 1 .. i : x[k] = s[k]
  /\ \A k \in 1 .. Len(t) : x[i + k] = t[k]

LEMMA Joined ==
  ASSUME NEW s \in Seq(Byte), NEW t \in Seq(Byte),
         NEW i \in Nat, Len(s) = i, NEW j \in Nat, j = i + Len(t)
  PROVE  \E x \in Seq(Byte) : Joins(x, s, t, i, j)
<1>1. /\ s \o t \in Seq(Byte) /\ Len(s \o t) = Len(s) + Len(t)
      /\ \A k \in 1 .. Len(s) : (s \o t)[k] = s[k]
      /\ \A k \in 1 .. Len(t) : (s \o t)[Len(s) + k] = t[k]
  <2>1. /\ s \o t \in Seq(Byte) /\ Len(s \o t) = Len(s) + Len(t)
        /\ \A k \in 1 .. Len(s) : (s \o t)[k] = s[k]
        /\ \A k \in 1 .. Len(t) : (s \o t)[Len(s) + k] = t[k]
    <3>1. s \o t \in Seq(Byte) /\ Len(s \o t) = Len(s) + Len(t)
      BY JoinIs
    <3>2. \A k \in 1 .. Len(s) : (s \o t)[k] = s[k]
      BY JoinIs
    <3>3. \A k \in 1 .. Len(t) : (s \o t)[Len(s) + k] = t[k]
      BY JoinIs
    <3> QED  BY <3>1, <3>2, <3>3
  <2> QED  BY <2>1
<1>2. Joins(s \o t, s, t, i, j)
  BY <1>1, Zenon DEF Joins
<1> QED  BY <1>1, <1>2

LEMMA PartIs ==
  ASSUME NEW line \in Seq(Byte), NEW t \in Seq(Byte), NEW i \in Nat, NEW j \in Nat,
         j = i + Len(t), j <= Len(line), \A k \in 1 .. Len(t) : line[i + k] = t[k]
  PROVE  SubSeq(line, i + 1, j) = t
<1>1. Len(t) \in Nat /\ i <= j /\ j - i = Len(t)
  BY LenProperties
<1>2. PICK x \in Seq(Byte) : /\ x = SubSeq(line, i + 1, j) /\ Len(x) = j - i
                             /\ \A k \in 1 .. j - i : x[k] = line[i + k]
  <2>1. /\ SubSeq(line, i + 1, j) \in Seq(Byte) /\ Len(SubSeq(line, i + 1, j)) = j - i
        /\ \A k \in 1 .. j - i : SubSeq(line, i + 1, j)[k] = line[i + k]
    BY <1>1, SubSeqIs
  <2> QED  BY <2>1, Zenon
<1>3. x = t
  BY <1>1, <1>2, SeqEqual
<1> QED  BY <1>2, <1>3

(* A part of a line by the positions before its characters.                *)
LEMMA PartBlank ==
  ASSUME NEW line, NEW x \in Nat, NEW y \in Nat, NEW z \in Nat, z = x + y,
         \A i \in 1 .. y : line[x + i] = Blank
  PROVE  \A k \in x .. z - 1 : line[k + 1] = Blank
<1>1. ASSUME NEW k \in x .. z - 1
      PROVE  k + 1 - x \in 1 .. y /\ x + (k + 1 - x) = k + 1
  OBVIOUS
<1> QED  BY <1>1

LEMMA PartNotBlank ==
  ASSUME NEW line, NEW x \in Nat, NEW y \in Nat, NEW z \in Nat, z = x + y,
         \A i \in 1 .. y : line[x + i] # Blank
  PROVE  \A k \in x .. z - 1 : line[k + 1] # Blank
<1>1. ASSUME NEW k \in x .. z - 1
      PROVE  k + 1 - x \in 1 .. y /\ x + (k + 1 - x) = k + 1
  OBVIOUS
<1> QED  BY <1>1

(* The words of a line are a whisper's.                                    *)
HasWords(line, to, said) ==
  \E a, b, c, d :
    /\ Words(line, a, b, c, d)
    /\ SubSeq(line, 2, a) \in Aliases.whisper
    /\ SubSeq(line, b + 1, c) = to
    /\ SubSeq(line, d + 1, Len(line)) = said

LEMMA WhisperHasWords ==
  ASSUME NEW line \in Seq(Byte), NEW to \in Seq(Byte), NEW said \in Seq(Byte),
         IsWhisper(line, to, said)
  PROVE  HasWords(line, to, said)
<1>1. PICK alias \in Seq(Byte), m \in DOMAIN line, n \in DOMAIN line :
        /\ alias \in Aliases.whisper
        /\ line = <<Prefix>> \o alias \o [k \in 1 .. m |-> Blank]
                    \o to \o [k \in 1 .. n |-> Blank] \o said
  <2>1. \A alias \in Aliases.whisper : alias \in Seq(Byte)
    BY WhisperAliases
  <2> QED  BY <2>1, Zenon DEF IsWhisper
<1>2. /\ alias \in Seq(Byte) /\ Len(alias) \in Nat \ {0}
      /\ \A k \in 1 .. Len(alias) : alias[k] # Blank
  BY <1>1, WhisperAliases
<1>3. m \in Nat \ {0} /\ n \in Nat \ {0}
  BY LenProperties
<1>4. /\ Len(to) \in Nat \ {0} /\ Len(said) \in Nat \ {0}
      /\ \A k \in 1 .. Len(to) : to[k] # Blank
      /\ said[1] # Blank
  <2>1. Blank \notin ToSet(to) /\ to # <<>> /\ said # <<>> /\ Head(said) # Blank
    BY Zenon DEF IsWhisper
  <2>2. DOMAIN to = 1 .. Len(to) /\ Len(to) \in Nat /\ Len(said) \in Nat
    BY LenProperties
  <2>3. Len(to) # 0 /\ Len(said) # 0
    BY <2>1, EmptySeq
  <2>4. \A k \in 1 .. Len(to) : to[k] # Blank
    BY <2>1, <2>2 DEF ToSet
  <2>5. Head(said) = said[1]
    BY <2>1
  <2>6. Len(to) \in Nat \ {0} /\ Len(said) \in Nat \ {0}
    BY <2>2, <2>3
  <2> QED  BY <2>1, <2>4, <2>5, <2>6
<1>5. ASSUME NEW l \in Nat
      PROVE  LET z == [k \in 1 .. l |-> Blank]
             IN  z \in Seq(Byte) /\ Len(z) = l /\ \A k \in 1 .. l : z[k] = Blank
  <2> DEFINE z == [k \in 1 .. l |-> Blank]
  <2>1. Blank \in Byte
    BY DEF Blank, Byte
  <2>2. z \in [1 .. l -> Byte] /\ \A k \in 1 .. l : z[k] = Blank
    BY <2>1
  <2> HIDE DEF z
  <2>3. z \in Seq(Byte) /\ Len(z) = l
    BY <2>2, FunctionIsSeq
  <2> QED  BY <2>2, <2>3 DEF z
<1>6. PICK u \in Seq(Byte) : /\ u = [k \in 1 .. m |-> Blank] /\ Len(u) = m
                             /\ \A k \in 1 .. m : u[k] = Blank
  BY <1>3, <1>5
<1>7. PICK v \in Seq(Byte) : /\ v = [k \in 1 .. n |-> Blank] /\ Len(v) = n
                             /\ \A k \in 1 .. n : v[k] = Blank
  BY <1>3, <1>5
<1>8. PICK p \in Seq(Byte) : p = <<Prefix>> /\ Len(p) = 1 /\ p[1] = Prefix
  <2>1. <<Prefix>> \in Seq(Byte) /\ Len(<<Prefix>>) = 1
    BY DEF Prefix, Byte
  <2> QED  BY <2>1
<1>9. \A x, y \in Nat : y # 0 => \E z \in Nat : z = x + y /\ x < z
  OBVIOUS
<1>10. \A x, y, z \in Nat : z = x + y => \A k \in 1 .. y : x + k \in 1 .. z
  OBVIOUS
<1>11. /\ m \in Nat /\ m # 0 /\ n \in Nat /\ n # 0 /\ Len(to) \in Nat /\ Len(to) # 0
       /\ Len(said) \in Nat /\ Len(said) # 0
  BY <1>3, <1>4
<1>12. PICK a \in Nat : a = 1 + Len(alias) /\ 1 < a
  BY <1>2
<1>13. PICK b \in Nat : b = a + m /\ a < b
  BY <1>9, <1>11, <1>12, Zenon
<1>14. PICK c \in Nat : c = b + Len(to) /\ b < c
  BY <1>9, <1>11, <1>13, Zenon
<1>15. PICK d \in Nat : d = c + n /\ c < d
  BY <1>9, <1>11, <1>14, Zenon
<1>16. PICK e \in Nat : e = d + Len(said) /\ d < e
  BY <1>9, <1>11, <1>15, Zenon
<1>17. PICK x1 \in Seq(Byte) : Joins(x1, p, alias, 1, a)
  BY <1>2, <1>8, <1>12, Joined
<1>18. PICK x2 \in Seq(Byte) : Joins(x2, x1, u, a, b)
  <2>1. Len(x1) = a
    BY <1>17 DEF Joins
  <2> QED  BY <1>6, <1>13, <2>1, Joined
<1>19. PICK x3 \in Seq(Byte) : Joins(x3, x2, to, b, c)
  <2>1. Len(x2) = b
    BY <1>18 DEF Joins
  <2> QED  BY <1>14, <2>1, Joined
<1>20. PICK x4 \in Seq(Byte) : Joins(x4, x3, v, c, d)
  <2>1. Len(x3) = c
    BY <1>19 DEF Joins
  <2> QED  BY <1>7, <1>15, <2>1, Joined
<1>21. PICK x5 \in Seq(Byte) : Joins(x5, x4, said, d, e)
  <2>1. Len(x4) = d
    BY <1>20 DEF Joins
  <2> QED  BY <1>16, <2>1, Joined
<1>22. line = x5
  <2>1. x1 = p \o alias /\ x2 = x1 \o u /\ x3 = x2 \o to /\ x4 = x3 \o v /\ x5 = x4 \o said
    BY <1>17, <1>18, <1>19, <1>20, <1>21, Zenon DEF Joins
  <2> QED  BY <1>1, <1>6, <1>7, <1>8, <2>1, Zenon
<1>23. /\ Len(line) = e
       /\ \A k \in 1 .. d : line[k] = x4[k]
       /\ \A k \in 1 .. Len(said) : line[d + k] = said[k]
  BY <1>21, <1>22 DEF Joins
<1>24. /\ \A k \in 1 .. c : line[k] = x3[k]
       /\ \A k \in 1 .. n : line[c + k] = Blank
  <2>1. ASSUME NEW k \in 1 .. c  PROVE line[k] = x3[k]
    <3>1. k \in 1 .. d
      BY <1>15
    <3> QED  BY <1>20, <1>23, <3>1 DEF Joins
  <2>2. ASSUME NEW k \in 1 .. n  PROVE line[c + k] = Blank
    <3>1. c + k \in 1 .. d
      BY <1>10, <1>11, <1>14, <1>15, Zenon
    <3> QED  BY <1>7, <1>20, <1>23, <3>1 DEF Joins
  <2> QED  BY <2>1, <2>2
<1>25. /\ \A k \in 1 .. b : line[k] = x2[k]
       /\ \A k \in 1 .. Len(to) : line[b + k] = to[k]
  <2>1. ASSUME NEW k \in 1 .. b  PROVE line[k] = x2[k]
    <3>1. k \in 1 .. c
      BY <1>14
    <3> QED  BY <1>19, <1>24, <3>1 DEF Joins
  <2>2. ASSUME NEW k \in 1 .. Len(to)  PROVE line[b + k] = to[k]
    <3>1. b + k \in 1 .. c
      BY <1>10, <1>11, <1>13, <1>14, Zenon
    <3> QED  BY <1>19, <1>24, <3>1 DEF Joins
  <2> QED  BY <2>1, <2>2
<1>26. /\ \A k \in 1 .. a : line[k] = x1[k]
       /\ \A k \in 1 .. m : line[a + k] = Blank
  <2>1. ASSUME NEW k \in 1 .. a  PROVE line[k] = x1[k]
    <3>1. k \in 1 .. b
      BY <1>13
    <3> QED  BY <1>18, <1>25, <3>1 DEF Joins
  <2>2. ASSUME NEW k \in 1 .. m  PROVE line[a + k] = Blank
    <3>1. a + k \in 1 .. b
      BY <1>10, <1>11, <1>12, <1>13, Zenon
    <3> QED  BY <1>6, <1>18, <1>25, <3>1 DEF Joins
  <2> QED  BY <2>1, <2>2
<1>27. line[1] = Prefix /\ \A k \in 1 .. Len(alias) : line[1 + k] = alias[k]
  <2>1. line[1] = Prefix
    <3>1. 1 \in 1 .. a /\ 1 \in 1 .. 1
      BY <1>12
    <3> QED  BY <1>8, <1>17, <1>26, <3>1 DEF Joins
  <2>2. ASSUME NEW k \in 1 .. Len(alias)  PROVE line[1 + k] = alias[k]
    <3>1. 1 + k \in 1 .. a
      BY <1>2, <1>12
    <3> QED  BY <1>17, <1>26, <3>1 DEF Joins
  <2> QED  BY <2>1, <2>2
<1>28. Words(line, a, b, c, d)
  <2>1. ASSUME NEW k \in 1 .. a - 1  PROVE line[k + 1] # Blank
    <3>1. k \in 1 .. Len(alias) /\ k + 1 = 1 + k
      BY <1>2, <1>12
    <3> QED  BY <1>2, <1>27, <3>1
  <2>2. \A k \in a .. b - 1 : line[k + 1] = Blank
    <3>1. a \in Nat /\ b \in Nat /\ m \in Nat /\ b = a + m
      BY <1>11, <1>12, <1>13
    <3>2. \A i \in 1 .. m : line[a + i] = Blank
      BY <1>26
    <3> QED  BY <3>1, <3>2, PartBlank, Zenon
  <2>3. \A k \in b .. c - 1 : line[k + 1] # Blank
    <3>1. b \in Nat /\ c \in Nat /\ Len(to) \in Nat /\ c = b + Len(to)
      BY <1>11, <1>13, <1>14
    <3>2. \A i \in 1 .. Len(to) : line[b + i] # Blank
      <4> TAKE i \in 1 .. Len(to)
      <4>1. line[b + i] = to[i]
        BY <1>25
      <4>2. to[i] # Blank
        BY <1>4
      <4> QED  BY <4>1, <4>2
    <3> QED  BY <3>1, <3>2, PartNotBlank, Zenon
  <2>4. \A k \in c .. d - 1 : line[k + 1] = Blank
    <3>1. c \in Nat /\ d \in Nat /\ n \in Nat /\ d = c + n
      BY <1>11, <1>14, <1>15
    <3>2. \A i \in 1 .. n : line[c + i] = Blank
      BY <1>24
    <3> QED  BY <3>1, <3>2, PartBlank, Zenon
  <2>5. line[d + 1] # Blank
    <3>1. 1 \in 1 .. Len(said)
      BY <1>4
    <3> QED  BY <1>4, <1>23, <3>1
  <2>6. 1 <= a /\ a < b /\ b < c /\ c < d /\ d < Len(line)
    BY <1>12, <1>13, <1>14, <1>15, <1>16, <1>23
  <2> QED  BY <1>27, <2>1, <2>2, <2>3, <2>4, <2>5, <2>6 DEF Words
<1>29. Len(line) \in Nat /\ a <= Len(line) /\ c <= Len(line) /\ Len(line) = e
  <2>1. a < b /\ b < c /\ c < d /\ d < e /\ Len(line) = e
    BY <1>13, <1>14, <1>15, <1>16, <1>23, Zenon
  <2>2. a \in Nat /\ b \in Nat /\ c \in Nat /\ d \in Nat /\ e \in Nat
    BY <1>12, <1>13, <1>14, <1>15, <1>16
  <2>3. \A h, w, x, y, z \in Nat : h < w /\ w < x /\ x < y /\ y < z => h <= z /\ x <= z
    OBVIOUS
  <2> QED  BY <2>1, <2>2, <2>3, Zenon
<1>30. SubSeq(line, 2, a) = alias
  <2>1. PICK o \in Nat : o = 1
    OBVIOUS
  <2>2. o \in Nat /\ a \in Nat /\ a = o + Len(alias) /\ alias \in Seq(Byte) /\ o + 1 = 2
    BY <1>2, <1>12, <2>1
  <2>3. \A k \in 1 .. Len(alias) : line[o + k] = alias[k]
    <3> TAKE k \in 1 .. Len(alias)
    <3>1. line[1 + k] = alias[k]
      BY <1>27
    <3> QED  BY <2>1, <3>1
  <2>4. SubSeq(line, o + 1, a) = alias
    <3>1. line \in Seq(Byte) /\ a <= Len(line)
      BY <1>29
    <3> QED  BY <2>2, <2>3, <3>1, PartIs, Zenon
  <2> QED  BY <2>2, <2>4
<1>31. SubSeq(line, b + 1, c) = to
  <2>1. b \in Nat /\ c \in Nat /\ c = b + Len(to)
    BY <1>13, <1>14
  <2>2. \A k \in 1 .. Len(to) : line[b + k] = to[k]
    BY <1>25
  <2> QED  BY <1>29, <2>1, <2>2, PartIs
<1>32. SubSeq(line, d + 1, Len(line)) = said
  <2>1. d \in Nat /\ Len(line) = d + Len(said) /\ Len(line) <= Len(line)
    BY <1>15, <1>16, <1>29
  <2>2. \A k \in 1 .. Len(said) : line[d + k] = said[k]
    BY <1>23
  <2> QED  BY <1>29, <2>1, <2>2, PartIs
<1> QED  BY <1>1, <1>28, <1>30, <1>31, <1>32, Zenon DEF HasWords

(* What is taken is a whisper if and only if it was typed as one, to       *)
(* somebody who is there to hear it.                                       *)
Present(to) == to = username \/ (to \in DOMAIN Others /\ Others[to] = "chat")

TakenAsTyped(line, r) ==
  IF r.kind = "ack" THEN Present(r.to) /\ IsWhisper(line, r.to, r.said)
  ELSE ~\E m, n, k \in DOMAIN line :
         /\ Present(SubSeq(line, m, n))
         /\ IsWhisper(line, SubSeq(line, m, n), SubSeq(line, k, Len(line)))

(* In chat a line is acknowledged exactly when it has the words for it.    *)
LEMMA AckIs ==
  ASSUME NEW line
  PROVE  LET r == ChatReply(line)
             to == Recipient(line)
         IN  /\ r.kind = "ack" <=>
                  /\ IsCommand(line) /\ Command(line) = "whisper" /\ Present(to)
                  /\ ~(MsgStart(line) >= Len(line))
             /\ r.kind = "ack" => r.to = to /\ r.said = Message(line)
<1> DEFINE r == ChatReply(line)
           to == Recipient(line)
<1>1. \A kind, x, said : /\ R(kind, x, said).kind = kind
                         /\ R(kind, x, said).to = x /\ R(kind, x, said).said = said
  BY DEF R
<1>2. CASE ~IsCommand(line)
  <2>1. r = R("prompt", <<>>, <<>>) \/ r = R("you", <<>>, line)
    BY <1>2 DEF ChatReply
  <2> HIDE DEF r
  <2>2. r.kind = "prompt" \/ r.kind = "you"
    BY <1>1, <2>1
  <2> QED  BY <1>2, <2>2 DEF r
<1>3. CASE IsCommand(line) /\ Command(line) # "whisper"
  <2> DEFINE kind == IF Command(line) = "exit" THEN "confirm" ELSE Command(line)
  <2>1. r = R(kind, <<>>, <<>>)
    BY <1>3 DEF ChatReply, IsCommand
  <2>2. kind # "ack"
    BY <1>3, CommandIs
  <2> HIDE DEF kind, r
  <2>3. r.kind = kind
    BY <1>1, <2>1, Zenon
  <2> QED  BY <1>3, <2>2, <2>3 DEF r
<1>4. CASE IsCommand(line) /\ Command(line) = "whisper"
  <2>1. r = WhisperReply(line)
    BY <1>4 DEF ChatReply, IsCommand
  <2> HIDE DEF r, to
  <2>2. CASE to \notin DOMAIN Others \cup {username}
    <3>1. r = R("notfound", to, <<>>)
      BY <2>1, <2>2 DEF WhisperReply, to
    <3>2. r.kind # "ack" /\ ~Present(to)
      BY <1>1, <2>2, <3>1 DEF Present
    <3> QED  BY <3>2 DEF r, to
  <2>3. CASE to \in DOMAIN Others \cup {username} /\ to # username /\ Others[to] # "chat"
    <3>1. r = R("notinchat", to, <<>>)
      BY <2>1, <2>3 DEF WhisperReply, to
    <3>2. r.kind # "ack" /\ ~Present(to)
      BY <1>1, <2>3, <3>1 DEF Present
    <3> QED  BY <3>2 DEF r, to
  <2>4. CASE Present(to)
    <3>1. /\ to \in DOMAIN Others \cup {username}
          /\ ~(to # username /\ Others[to] # "chat")
      BY <2>4 DEF Present
    <3>2. CASE MsgStart(line) >= Len(line)
      <4>1. r = R("usage", <<>>, <<>>)
        BY <2>1, <3>1, <3>2 DEF WhisperReply, to
      <4>2. r.kind # "ack"
        BY <1>1, <4>1
      <4> QED  BY <3>2, <4>2 DEF r, to
    <3>3. CASE ~(MsgStart(line) >= Len(line))
      <4>1. r = R("ack", to, Message(line))
        BY <2>1, <3>1, <3>3 DEF WhisperReply, to
      <4>2. r.kind = "ack" /\ r.to = to /\ r.said = Message(line)
        BY <1>1, <4>1
      <4> QED  BY <1>4, <2>4, <3>3, <4>2 DEF r, to
    <3> QED  BY <3>2, <3>3
  <2> QED  BY <2>2, <2>3, <2>4 DEF Present
<1> QED  BY <1>2, <1>3, <1>4

LEMMA MsgStartIs ==
  ASSUME NEW line \in Seq(Byte)
  PROVE  MsgStart(line) \in Nat
<1> DEFINE a == CmdEnd(line)
           b == RecipientStart(line)
           c == RecipientEnd(line)
<1>1. a \in Nat
  BY PassIs DEF CmdEnd
<1>2. b \in Nat
  <2> HIDE DEF a
  <2> QED  BY <1>1, PassIs DEF RecipientStart, a
<1>3. c \in Nat
  <2> HIDE DEF b
  <2> QED  BY <1>2, PassIs DEF RecipientEnd, b
<1> HIDE DEF c
<1>4. c + 1 \in Nat
  BY <1>3
<1> QED  BY <1>4, PassIs DEF MsgStart, c

LEMMA ChatTakesAsTyped ==
  ASSUME SessionInv, state = "chat", NEW line \in Seq(Byte)
  PROVE  TakenAsTyped(line, ChatReply(line))
<1> DEFINE r == ChatReply(line)
           to == Recipient(line)
<1>1. Len(line) \in Nat /\ MsgStart(line) \in Nat /\ DOMAIN line = 1 .. Len(line)
  BY LenProperties, MsgStartIs
<1>2. CASE r.kind = "ack"
  <2>1. /\ IsCommand(line) /\ Command(line) = "whisper" /\ Present(to)
        /\ ~(MsgStart(line) >= Len(line)) /\ r.to = to /\ r.said = Message(line)
    BY <1>2, AckIs, Zenon
  <2>2. MsgStart(line) < Len(line)
    BY <1>1, <2>1
  <2>3. to # <<>>
    <3>1. ~ValidateUsername(<<>>)
      BY CommandsAssumption, EmptySeq DEF ValidateUsername
    <3>2. <<>> \notin DOMAIN Others /\ username # <<>>
      BY <3>1, SessionAssumption DEF SessionInv, Named
    <3> QED  BY <2>1, <3>2 DEF Present
  <2>4. Words(line, CmdEnd(line), RecipientStart(line), RecipientEnd(line), MsgStart(line))
    BY <2>1, <2>2, <2>3, FoundAreWords
  <2>5. SubSeq(line, 2, CmdEnd(line)) \in Aliases.whisper
    BY <2>1, WhisperAliases DEF CmdStr
  <2>6. IsWhisper(line, to, Message(line))
    BY <2>4, <2>5, WordsWhisper DEF Recipient, Message
  <2> HIDE DEF r, to
  <2> QED  BY <1>2, <2>1, <2>6 DEF TakenAsTyped, r
<1>3. CASE r.kind # "ack"
  <2>1. ASSUME NEW m \in DOMAIN line, NEW n \in DOMAIN line, NEW k \in DOMAIN line,
               Present(SubSeq(line, m, n)),
               IsWhisper(line, SubSeq(line, m, n), SubSeq(line, k, Len(line)))
        PROVE  FALSE
    <3>1. \A i, j \in 1 .. Len(line) : SubSeq(line, i, j) \in Seq(Byte)
      <4>1. ASSUME NEW i \in 1 .. Len(line), NEW j \in 1 .. Len(line)
            PROVE  SubSeq(line, i, j) \in Seq(Byte)
        <5>1. i \in Int /\ j \in Int /\ \A l \in i .. j : line[l] \in Byte
          <6>1. \A l \in 1 .. Len(line) : line[l] \in Byte
            BY ElementOfSeq
          <6> QED  BY <1>1, <6>1
        <5> QED  BY <5>1, SubSeqProperties
      <4> QED  BY <4>1
    <3>2. /\ SubSeq(line, m, n) \in Seq(Byte)
          /\ SubSeq(line, k, Len(line)) \in Seq(Byte)
      <4>1. Len(line) \in 1 .. Len(line)
        BY <1>1
      <4> QED  BY <1>1, <3>1, <4>1
    <3>3. PICK a, b, c, d :
            /\ Words(line, a, b, c, d)
            /\ SubSeq(line, 2, a) \in Aliases.whisper
            /\ SubSeq(line, b + 1, c) = SubSeq(line, m, n)
      <4>1. HasWords(line, SubSeq(line, m, n), SubSeq(line, k, Len(line)))
        BY <2>1, <3>2, WhisperHasWords, Zenon
      <4> QED  BY <4>1 DEF HasWords
    <3>4. /\ CmdEnd(line) = a /\ RecipientStart(line) = b
          /\ RecipientEnd(line) = c /\ MsgStart(line) = d
      BY <3>3, WordsAreFound
    <3>5. Command(line) = "whisper"
      BY <3>3, <3>4, WhisperAliases DEF CmdStr
    <3>6. IsCommand(line) /\ ~(MsgStart(line) >= Len(line))
      <4>1. line[1] = Prefix /\ d < Len(line) /\ d \in Nat
        BY <3>3 DEF Words
      <4>2. line # <<>>
        BY <1>1, <4>1, EmptySeq
      <4> QED  BY <1>1, <3>4, <4>1, <4>2 DEF IsCommand
    <3>7. Present(to)
      BY <2>1, <3>3, <3>4 DEF Recipient
    <3> QED  BY <1>3, <3>5, <3>6, <3>7, AckIs, Zenon
  <2> HIDE DEF r
  <2> QED  BY <1>3, <2>1 DEF TakenAsTyped, r
<1> QED  BY <1>2, <1>3

(* A whisper goes to the user named in it and says what follows the name,  *)
(* blanks within included, if and only if the line has the form that the   *)
(* usage gives, whatever bytes it is made of (io.c:294-331).               *)
THEOREM WhispersAreAsTyped == Spec => []WhispersAsTyped
<1> DEFINE Inv == turns # <<>> /\ Last(turns).state = "chat"
                    => TakenAsTyped(Last(turns).line, Last(turns).reply)
<1>1. Init => Inv
  BY DEF Init
<1>2. SessionInv /\ Inv /\ [Next]_vars => Inv'
  <2> SUFFICES ASSUME SessionInv, Inv, [Next]_vars  PROVE Inv'
    OBVIOUS
  <2>1. CASE TakeLine
    <3>1. PICK line \in Seq(Byte) : line = LineOf(Elems(in))
      BY <2>1, TakeIs
    <3>2. PICK r : r = Reply(line)
      OBVIOUS
    <3> DEFINE t == [state |-> state, line |-> line, reply |-> r]
    <3>3. /\ turns' = Append(turns, t)
          /\ username' = IF state = "login" /\ r.kind = "welcome" THEN line ELSE username
      BY <2>1, <3>1, <3>2 DEF TakeLine, GetLine
    <3>4. Last(turns') = t /\ turns \in Seq([state : UserStates, line : Seq(Byte), reply : Replies])
      <4>1. turns \in Seq([state : UserStates, line : Seq(Byte), reply : Replies])
        BY DEF SessionInv, TypeOK
      <4>2. Len(turns) \in Nat /\ Len(Append(turns, t)) = Len(turns) + 1
            /\ Append(turns, t)[Len(turns) + 1] = t
        <5> HIDE DEF t
        <5> QED  BY <4>1, LenProperties
      <4> QED  BY <3>3, <4>1, <4>2 DEF Last
    <3>5. ASSUME state = "chat"  PROVE TakenAsTyped(line, r)'
      <4>1. username' = username
        BY <3>3, <3>5
      <4>2. r = ChatReply(line)
        BY <3>2, <3>5 DEF Reply
      <4>3. TakenAsTyped(line, r)
        BY <3>5, <4>2, ChatTakesAsTyped
      <4> QED  BY <4>1, <4>3 DEF TakenAsTyped, Present
    <3>6. Last(turns').state = state /\ Last(turns').line = line /\ Last(turns').reply = r
      BY <3>4
    <3> QED  BY <3>5, <3>6 DEF TakenAsTyped, Present
  <2>2. CASE Recv \/ Flush \/ Notice \/ TakeNothing \/ UNCHANGED vars
    <3>1. turns' = turns /\ username' = username
      BY <2>2 DEF Recv, Flush, Notice, TakeNothing, vars
    <3> QED  BY <3>1 DEF TakenAsTyped, Present
  <2> QED  BY <2>1, <2>2 DEF Next
<1>3. Inv => WhispersAsTyped
  BY DEF WhispersAsTyped, TakenAsTyped, Present
<1> QED  BY <1>1, <1>2, <1>3, SessionInvHolds, PTL DEF Spec

-----------------------------------------------------------------------------
(* What is sent.                                                           *)

(* Every line that is typed, and every name, fits with a character before  *)
(* it in what is reserved for a formatted message.                         *)
LinesFit ==
  /\ UsernameMax + 1 < Reserve
  /\ \A s \in UserStates : \A typed \in Streams[s] : \A i, j \in 0 .. Len(typed) :
       i <= j /\ (\A k \in i + 1 .. j : ~EndsLine(typed[k])) => (j - i) + 1 < Reserve

LEMMA PiecesFit ==
  ASSUME SessionInv, UsernameMax + 1 < Reserve, NEW r \in Replies,
         (Len(r.to) + Len(r.said)) + 1 < Reserve
  PROVE  /\ \A i \in DOMAIN Pieces(r) : Fits(Pieces(r)[i])
         /\ \A i \in DOMAIN Interrupt(Wording) : Fits(Interrupt(Wording)[i])
<1> DEFINE S == {p \in Piece : Fits(p)}
<1>1. /\ r.to \in Seq(Byte) /\ r.said \in Seq(Byte) /\ Wording \in Seq(Byte)
      /\ Len(Wording) = 1 /\ username \in Seq(Byte)
      /\ \A name \in DOMAIN Others : name \in Seq(Byte)
  BY NamesAreBytes, SessionAssumption
     DEF SessionInv, TypeOK, Replies, Wording, Byte
<1>2. /\ Len(username) <= UsernameMax
      /\ \A name \in DOMAIN Others : Len(name) <= UsernameMax
  <2>1. UsernameMax \in Nat /\ UsernameMin \in Nat
    BY CommandsAssumption
  <2>2. \A name \in Seq(Byte) : ValidateUsername(name) => Len(name) <= UsernameMax
    BY <2>1, LenProperties DEF ValidateUsername
  <2>3. username = <<>> \/ ValidateUsername(username)
    BY DEF SessionInv, Named
  <2>4. Len(<<>>) <= UsernameMax
    BY <2>1
  <2> QED  BY <1>1, <2>2, <2>3, <2>4, SessionAssumption
<1>3. \A text \in Seq(Byte) : Len(text) < Reserve => Formatted(text) \in S
  BY DEF Formatted, Piece, Fits
<1>4. NewLine \in S /\ PromptSign \in S
  <2>1. NewLine \in Piece /\ PromptSign \in Piece
    BY ConstantPieces
  <2> QED  BY <2>1 DEF NewLine, PromptSign, Literal, Fits
<1>5. /\ UsernameMax \in Nat /\ Reserve \in Nat
      /\ Len(r.to) \in Nat /\ Len(r.said) \in Nat /\ Len(username) \in Nat
  BY <1>1, CommandsAssumption, SessionAssumption, LenProperties
<1>6. PICK t \in Seq(Byte) : t = r.to \o r.said /\ Len(t) = Len(r.to) + Len(r.said)
  <2>1. r.to \o r.said \in Seq(Byte) /\ Len(r.to \o r.said) = Len(r.to) + Len(r.said)
    BY <1>1, JoinIs
  <2> QED  BY <2>1, Zenon
<1>7. PICK u \in Seq(Byte) :
        u = Wording \o r.to \o r.said /\ Len(u) = 1 + Len(r.to) + Len(r.said)
  <2>1. PICK w \in Seq(Byte), to \in Seq(Byte), said \in Seq(Byte) :
          w = Wording /\ to = r.to /\ said = r.said
    BY <1>1
  <2>2. w \o to \in Seq(Byte) /\ Len(w \o to) = Len(w) + Len(to)
    BY JoinIs
  <2>3. PICK v \in Seq(Byte) : v = w \o to /\ Len(v) = Len(w) + Len(to)
    BY <2>2, Zenon
  <2>4. v \o said \in Seq(Byte) /\ Len(v \o said) = Len(v) + Len(said)
    BY JoinIs
  <2> QED  BY <1>1, <2>1, <2>3, <2>4, Zenon
<1>8. /\ Formatted(Wording \o r.to \o r.said) \in S /\ Formatted(Wording) \in S
      /\ Formatted(username) \in S /\ Formatted(r.to \o r.said) \in S
      /\ \A name \in DOMAIN Others : Formatted(name) \in S
  <2> HIDE DEF S
  <2>1. Len(t) < Reserve /\ Len(u) < Reserve
    <3>1. \A a, b, m \in Nat : (a + b) + 1 < m => a + b < m /\ 1 + a + b < m
      OBVIOUS
    <3>2. Len(r.to) + Len(r.said) < Reserve /\ 1 + Len(r.to) + Len(r.said) < Reserve
      BY <1>5, <3>1, Zenon
    <3> QED  BY <1>6, <1>7, <3>2, Zenon
  <2>3. Len(Wording) < Reserve /\ Len(username) < Reserve
    BY <1>1, <1>2, <1>5
  <2>2. \A name \in DOMAIN Others : Len(name) < Reserve
    BY <1>1, <1>2, <1>5, LenProperties
  <2> QED  BY <1>1, <1>3, <1>6, <1>7, <2>1, <2>2, <2>3
<1>9. Pieces(r) \in Seq(S) /\ Interrupt(Wording) \in Seq(S)
  <2> HIDE DEF S
  <2> QED  BY <1>4, <1>8, PiecesIn
<1>10. \A pieces \in Seq(S) : \A i \in DOMAIN pieces : Fits(pieces[i])
  BY ElementOfSeq, LenProperties
<1> QED  BY <1>9, <1>10

(* The line that is taken fits.                                            *)
LEMMA TakenFits ==
  ASSUME SessionInv, LinesFit, NEW s \in UserStates, stream \in Streams[s], TakeLine
  PROVE  Len(LineOf(Elems(in))) + 1 < Reserve
<1>1. PICK e \in Seq(Byte), p \in Nat, g \in Nat :
        /\ e = Elems(in) /\ Len(e) = g - p /\ p <= g /\ g <= Len(stream) /\ e = SubSeq(stream, p + 1, g)
  <2>1. /\ Elems(in) \in Seq(Byte) /\ Len(Elems(in)) = in.len
        /\ in.len \in 0 .. got /\ got \in 0 .. Len(stream) /\ Len(stream) \in Nat
        /\ Elems(in) = SubSeq(stream, (got - in.len) + 1, got)
    BY InputIs
  <2>2. \A g, l \in Nat : l <= g => g - l \in Nat /\ g - l <= g /\ g - (g - l) = l
    OBVIOUS
  <2>3. got \in Nat /\ in.len \in Nat /\ in.len <= got /\ got <= Len(stream)
    BY <2>1
  <2>4. got - in.len \in Nat /\ got - in.len <= got /\ got - (got - in.len) = in.len
    BY <2>2, <2>3, Zenon
  <2> QED  BY <2>1, <2>3, <2>4, Zenon
<1>2. PICK l \in Nat :
        /\ l = LineEnd(e) /\ l <= g - p /\ Len(LineOf(e)) <= l
        /\ \A k \in 1 .. l : ~EndsLine(e[k])
  <2>1. HasCompleteLine(e)
    BY <1>1, TakeIs
  <2>2. /\ LineEnd(e) \in 0 .. Len(e) - 1
        /\ \A k \in 1 .. LineEnd(e) : ~EndsLine(e[k])
    BY <2>1, LineEndIs
  <2>3. Len(LineOf(e)) <= LineEnd(e)
    BY <2>1, LineOfIs
  <2>4. LineEnd(e) \in Nat /\ LineEnd(e) <= g - p
    BY <1>1, <2>2
  <2> QED  BY <2>2, <2>3, <2>4, Zenon
<1>3. stream \in Seq(Byte) /\ Len(stream) \in Nat
  BY LenProperties DEF SessionInv, TypeOK
<1>4. \A k \in 1 .. g - p : e[k] = stream[p + k]
  <2>1. PICK typed \in Seq(Byte) : typed = stream
    BY <1>3
  <2>2. \A k \in 1 .. g - p : SubSeq(typed, p + 1, g)[k] = typed[p + k]
    BY <1>1, <2>1, SubSeqIs
  <2> QED  BY <1>1, <2>1, <2>2
<1>5. \A k \in p + 1 .. p + l : ~EndsLine(stream[k])
  <2> TAKE k \in p + 1 .. p + l
  <2>1. k - p \in 1 .. l /\ p + (k - p) = k
    OBVIOUS
  <2>2. k - p \in 1 .. g - p
    BY <1>1, <1>2, <2>1
  <2>3. e[k - p] = stream[k]
    <3>1. e[k - p] = stream[p + (k - p)]
      BY <1>4, <2>2
    <3> QED  BY <2>1, <3>1
  <2>4. ~EndsLine(e[k - p])
    BY <1>2, <2>1
  <2> QED  BY <2>3, <2>4
<1>6. p \in 0 .. Len(stream) /\ p + l \in 0 .. Len(stream) /\ p <= p + l
  BY <1>1, <1>2, <1>3
<1>7. ((p + l) - p) + 1 < Reserve
  BY <1>5, <1>6 DEF LinesFit
<1>8. l + 1 < Reserve
  BY <1>7
<1>9. Len(LineOf(e)) \in Nat /\ Reserve \in Nat
  <2>1. LineOf(e) \in Seq(Byte)
    BY <1>1, TakeIs
  <2> QED  BY <2>1, LenProperties, SessionAssumption
<1> QED  BY <1>1, <1>2, <1>8, <1>9

(* On a little-endian machine, if what is typed and the names fit in what  *)
(* is reserved, what waits to be sent is what the user was told and has    *)
(* not been sent: whole, in order, once (io.h:42 and :61), whatever parts  *)
(* of it send() takes.                                                     *)
THEOREM MessagesWhole ==
  ASSUME ~BigEndian, LinesFit
  PROVE  Spec => []SentAsTold
<1> DEFINE Inv == /\ \E s \in UserStates : stream \in Streams[s]
                  /\ SentAsTold
<1>1. Init => Inv
  <2> SUFFICES ASSUME Init  PROVE Inv
    OBVIOUS
  <2>1. Elems(out) = <<>>
    <3>1. Garbage \in Cell /\ 0 \in Nat
      BY DEF Cell
    <3> QED  BY <3>1, NewIsEmpty DEF Init
  <2> QED  BY <2>1 DEF Init, SentAsTold
<1>2. SessionInv /\ Inv /\ [Next]_vars => Inv'
  <2> SUFFICES ASSUME SessionInv, Inv, [Next]_vars  PROVE Inv'
    OBVIOUS
  <2>1. PICK s \in UserStates : stream \in Streams[s]
    OBVIOUS
  <2>2. stream' = stream
    BY DEF Next, Recv, Flush, Notice, TakeLine, TakeNothing, vars
  <2>3. ProperArray(out, Cell) /\ owed \in Seq(Byte)
    BY DEF SessionInv, TypeOK, Cell
  <2>4. ASSUME NEW pieces \in Seq(Piece), \A i \in DOMAIN pieces : Fits(pieces[i]),
               Tell(pieces), phase # "segv"
        PROVE  Elems(out') = owed'
    <3>1. Elems(Sent(out, pieces)) = Elems(out) \o TextOf(pieces)
      BY <2>3, <2>4, SentIs
    <3> QED  BY <2>4, <3>1 DEF Tell, SentAsTold
  <2>5. CASE Flush
    <3>1. PICK n \in 0 .. out.len :
            /\ out' = IF out.len > 0 THEN RemoveN(out, 0, n) ELSE out
            /\ owed' = SubSeq(owed, n + 1, Len(owed))
      BY <2>5 DEF Flush
    <3>2. Elems(out) = owed /\ Len(owed) = out.len /\ out.len \in Nat /\ n \in Nat
      BY <2>3, <2>5, ElemsOf DEF Flush, SentAsTold, ProperArray
    <3>3. owed' = Rest(owed, n)
      BY <3>1 DEF Rest
    <3>4. Elems(out') = Rest(owed, n)
      <4>1. CASE out.len > 0
        <5>1. CanRemove(out, 0, n) /\ 0 \in Nat
          BY <3>2, <4>1 DEF CanRemove
        <5>2. Elems(RemoveN(out, 0, n))
                = SubSeq(Elems(out), 1, 0) \o SubSeq(Elems(out), 0 + n + 1, out.len)
          BY <2>3, <3>2, <5>1, RemoveRemoves
        <5>3. SubSeq(owed, 1, 0) = <<>> /\ 0 + n + 1 = n + 1
          BY SubSeqEmpty
        <5>4. Elems(RemoveN(out, 0, n)) = <<>> \o Rest(owed, n)
          BY <3>2, <5>2, <5>3 DEF Rest
        <5>5. Rest(owed, n) \in Seq(Byte)
          BY <2>3, <3>2, FrontCut DEF Rest
        <5>6. <<>> \o Rest(owed, n) = Rest(owed, n)
          BY <5>5, ConcatEmptySeq
        <5> QED  BY <3>1, <4>1, <5>4, <5>6
      <4>2. CASE ~(out.len > 0)
        <5>1. n = 0
          BY <3>2, <4>2
        <5> QED  BY <2>3, <3>1, <3>2, <4>2, <5>1, RestOfNone
      <4> QED  BY <4>1, <4>2
    <3> QED  BY <2>1, <2>2, <3>3, <3>4 DEF SentAsTold
  <2>6. CASE Notice
    <3> DEFINE r == R("prompt", <<>>, <<>>)
    <3>1. r \in Replies /\ (Len(r.to) + Len(r.said)) + 1 < Reserve
      BY CommandsAssumption, SessionAssumption DEF R, Replies, Kinds, LinesFit
    <3> HIDE DEF r
    <3>2. Interrupt(Wording) \in Seq(Piece)
      BY <3>1, PiecesAre DEF SessionInv
    <3>3. \A i \in DOMAIN Interrupt(Wording) : Fits(Interrupt(Wording)[i])
      BY <3>1, PiecesFit DEF LinesFit
    <3>4. Tell(Interrupt(Wording)) /\ phase # "segv"
      BY <2>6 DEF Notice
    <3>5. Elems(out') = owed'
      BY <2>4, <3>2, <3>3, <3>4
    <3> QED  BY <2>1, <2>2, <3>5 DEF SentAsTold
  <2>7. CASE TakeLine
    <3>1. PICK line \in Seq(Byte) :
            line = LineOf(Elems(in)) /\ Len(line) + 1 < Reserve /\ Len(line) \in Nat
      BY <2>1, <2>7, TakeIs, TakenFits, LenProperties
    <3>2. state \in UserStates /\ username \in Seq(NameChar)
      BY DEF SessionInv, TypeOK
    <3>3. PICK r \in Replies :
            /\ r = Reply(line)
            /\ \/ Len(r.to) + Len(r.said) <= Len(line)
               \/ r.to = username /\ r.said = <<>>
      BY <3>1, <3>2, ReplyIs
    <3>4. (Len(r.to) + Len(r.said)) + 1 < Reserve
      <4>1. /\ Len(r.to) \in Nat /\ Len(r.said) \in Nat /\ Reserve \in Nat
            /\ UsernameMax \in Nat
        BY CommandsAssumption, SessionAssumption, LenProperties DEF Replies
      <4>2. ASSUME r.to = username, r.said = <<>>
            PROVE  Len(r.to) + Len(r.said) <= UsernameMax
        <5>1. username = <<>> \/ ValidateUsername(username)
          BY DEF SessionInv, Named
        <5>2. Len(username) \in Nat /\ Len(username) <= UsernameMax /\ Len(<<>>) = 0
          BY <3>2, <4>1, <5>1, CommandsAssumption, LenProperties DEF ValidateUsername
        <5> QED  BY <4>2, <5>2
      <4>3. UsernameMax + 1 < Reserve
        BY DEF LinesFit
      <4>4. PICK m \in Nat : Len(r.to) + Len(r.said) <= m /\ m + 1 < Reserve
        <5>1. CASE Len(r.to) + Len(r.said) <= Len(line)
          BY <3>1, <5>1, Zenon
        <5>2. CASE r.to = username /\ r.said = <<>>
          BY <4>1, <4>2, <4>3, <5>2, Zenon
        <5> QED  BY <3>3, <5>1, <5>2, Zenon
      <4>5. \A a, b, k, n \in Nat : a + b <= k /\ k + 1 < n => (a + b) + 1 < n
        OBVIOUS
      <4> QED  BY <4>1, <4>4, <4>5, Zenon
    <3>5. Pieces(r) \in Seq(Piece) /\ \A i \in DOMAIN Pieces(r) : Fits(Pieces(r)[i])
      BY <3>4, PiecesAre, PiecesFit DEF SessionInv, LinesFit
    <3>6. Tell(Pieces(r)) /\ phase # "segv"
      BY <2>7, <3>1, <3>3 DEF TakeLine, GetLine
    <3>7. Elems(out') = owed'
      BY <2>4, <3>5, <3>6
    <3> QED  BY <2>1, <2>2, <3>7 DEF SentAsTold
  <2>8. CASE Recv \/ TakeNothing \/ UNCHANGED vars
    <3>1. /\ out' = out /\ owed' = owed
          /\ phase = "segv" => phase' = "segv"
      BY <2>8 DEF Recv, TakeNothing, vars
    <3>2. Elems(out') = Elems(out)
      BY <3>1
    <3> QED  BY <2>1, <2>2, <3>1, <3>2 DEF SentAsTold
  <2> QED  BY <2>5, <2>6, <2>7, <2>8 DEF Next
<1>3. Inv => SentAsTold
  OBVIOUS
<1> QED  BY <1>1, <1>2, <1>3, SessionInvHolds, PTL DEF Spec

=============================================================================
