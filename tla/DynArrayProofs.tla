--------------------------- MODULE DynArrayProofs ---------------------------
(***************************************************************************)
(* The operations of DynArray on arrays, as operations on the sequences of *)
(* elements the arrays hold.                                               *)
(***************************************************************************)
EXTENDS DynArray, SeqFacts

(* A proper array holds a sequence of elements, none of which is memory of *)
(* somebody else.                                                          *)
LEMMA ElemsOf ==
  ASSUME NEW S, NEW a, ProperArray(a, S)
  PROVE  /\ Elems(a) = [k \in 1 .. a.len |-> a.mem[k]]
         /\ Elems(a) \in Seq(S)
         /\ Len(Elems(a)) = a.len
<1>1. \A k \in 1 .. a.len : k <= Len(a.mem) /\ a.mem[k] \in S
  BY DEF ProperArray
<1>2. Elems(a) = [k \in 1 .. a.len |-> a.mem[k]]
  BY <1>1 DEF Elems, Cap
<1>3. a.len \in Nat
  BY DEF ProperArray
<1> QED  BY <1>1, <1>2, <1>3

(* A new array is proper and empty, whatever its memory held (meta.h:77).  *)
THEOREM NewIsEmpty ==
  ASSUME NEW n \in Nat, NEW S, Garbage \in S
  PROVE  ProperArray(NewReserve(n), S) /\ Elems(NewReserve(n)) = <<>>
<1> DEFINE a == NewReserve(n)
<1>1. a.len = 0 /\ a.mem \in Seq(S) /\ Len(a.mem) = n
  BY DEF NewReserve
<1>2. ProperArray(a, S)
  BY <1>1 DEF ProperArray, NewReserve
<1>3. Elems(a) \in Seq(S) /\ Len(Elems(a)) = 0
  BY <1>1, <1>2, ElemsOf
<1> QED  BY <1>2, <1>3

(* Making room keeps what is there, and makes enough.                      *)
LEMMA RoomEnough ==
  ASSUME NEW S, Garbage \in S, NEW a, ProperArray(a, S), NEW n \in Nat
  PROVE  /\ Room(a, n) \in Seq(S)
         /\ Len(Room(a, n)) >= a.len + n
         /\ \A k \in 1 .. a.len : Room(a, n)[k] = a.mem[k]
<1>1. a.len \in Nat /\ a.mem \in Seq(S) /\ a.len <= Len(a.mem)
  BY DEF ProperArray
<1>2. CASE a.len + n <= Len(a.mem)
  BY <1>1, <1>2 DEF Room, Cap
<1>3. CASE ~(a.len + n <= Len(a.mem))
  <2> DEFINE m == 2 * (a.len + n)
             r == [k \in 1 .. m |-> IF k <= Len(a.mem) THEN a.mem[k] ELSE Garbage]
  <2>1. Room(a, n) = r
    BY <1>3 DEF Room, Cap
  <2>2. m \in Nat /\ m >= a.len + n
    BY <1>1
  <2>3. \A k \in 1 .. m : r[k] \in S
    BY <1>1, <2>2
  <2>4. r \in Seq(S) /\ Len(r) = m
    <3>1. r \in [1 .. m -> S]
      BY <2>3
    <3> HIDE DEF r, m
    <3> QED  BY <2>2, <3>1, FunctionIsSeq
  <2>5. \A k \in 1 .. a.len : r[k] = a.mem[k]
    BY <1>1, <2>2
  <2> QED  BY <2>1, <2>2, <2>4, <2>5
<1> QED  BY <1>2, <1>3

(* ac_arr_insert_n makes the sequence longer by b, at position i, and the  *)
(* array is proper again: every byte that is read later was put there      *)
(* (meta.h:183).                                                            *)
THEOREM InsertInserts ==
  ASSUME NEW S, Garbage \in S, NEW a, ProperArray(a, S),
         NEW b \in Seq(S), NEW i \in 0 .. a.len
  PROVE  /\ ProperArray(InsertN(a, i, b), S)
         /\ Elems(InsertN(a, i, b))
              = SubSeq(Elems(a), 1, i) \o b \o SubSeq(Elems(a), i + 1, a.len)
<1> DEFINE n == Len(b)
           room == Room(a, n)
           c == InsertN(a, i, b)
           e == Elems(a)
           At(k) == IF k \in i + 1 .. i + n THEN b[k - i]
                    ELSE IF k \in i + n + 1 .. a.len + n THEN room[k - n]
                    ELSE room[k]
           s == SubSeq(e, 1, i) \o b \o SubSeq(e, i + 1, a.len)
<1>1. a.len \in Nat /\ n \in Nat /\ i \in Nat /\ i <= a.len
  BY DEF ProperArray
<1>2. room \in Seq(S) /\ Len(room) >= a.len + n
      /\ \A k \in 1 .. a.len : room[k] = a.mem[k]
  BY <1>1, RoomEnough
<1>3. e \in Seq(S) /\ Len(e) = a.len /\ \A k \in 1 .. a.len : e[k] = a.mem[k]
  BY ElemsOf, <1>1
<1>4. c = [len |-> a.len + n, mem |-> [k \in DOMAIN room |-> At(k)]]
  BY DEF InsertN
<1>5. DOMAIN room = 1 .. Len(room) /\ Len(room) \in Nat
  BY <1>2
<1>6. \A k \in 1 .. Len(room) : At(k) \in S
  BY <1>1, <1>2
<1>7. c.mem \in Seq(S) /\ Len(c.mem) = Len(room)
  <2> HIDE DEF At, room
  <2> QED  BY <1>4, <1>5, <1>6
<1>8. ProperArray(c, S)
  <2> HIDE DEF room
  <2> QED  BY <1>1, <1>2, <1>4, <1>7 DEF ProperArray
<1>9. /\ Elems(c) \in Seq(S) /\ Len(Elems(c)) = a.len + n
      /\ \A k \in 1 .. a.len + n : Elems(c)[k] = At(k)
  <2>1. c.len = a.len + n
    BY <1>4
  <2>2. Elems(c) = [k \in 1 .. a.len + n |-> c.mem[k]] /\ Elems(c) \in Seq(S)
        /\ Len(Elems(c)) = a.len + n
    <3> HIDE DEF c
    <3> QED  BY <1>8, <2>1, ElemsOf
  <2>3. \A k \in 1 .. a.len + n : c.mem[k] = At(k)
    <3> TAKE k \in 1 .. a.len + n
    <3>1. k \in DOMAIN room
      <4> HIDE DEF room, n
      <4> QED  BY <1>1, <1>2, <1>5
    <3>2. c.mem = [j \in DOMAIN room |-> At(j)]
      <4> HIDE DEF c
      <4> QED  BY <1>4
    <3> HIDE DEF c, room, n
    <3> QED  BY <3>1, <3>2
  <2> HIDE DEF c, At
  <2> QED  BY <2>2, <2>3
<1>10. /\ s \in Seq(S) /\ Len(s) = a.len + n
       /\ \A k \in 1 .. a.len + n :
            s[k] = IF k <= i THEN e[k] ELSE IF k <= i + n THEN b[k - i] ELSE e[k - n]
  <2> HIDE DEF e
  <2>1. SubSeq(e, 1, i) \in Seq(S) /\ Len(SubSeq(e, 1, i)) = i
        /\ \A k \in 1 .. i : SubSeq(e, 1, i)[k] = e[k]
    BY <1>1, <1>3, Parts
  <2>2. SubSeq(e, i + 1, a.len) \in Seq(S) /\ Len(SubSeq(e, i + 1, a.len)) = a.len - i
        /\ \A k \in 1 .. a.len - i : SubSeq(e, i + 1, a.len)[k] = e[i + k]
    BY <1>1, <1>3, Parts
  <2> DEFINE u == SubSeq(e, 1, i)
             v == SubSeq(e, i + 1, a.len)
  <2> HIDE DEF u, v
  <2>3. u \o b \in Seq(S) /\ Len(u \o b) = i + n
        /\ \A k \in 1 .. i + n : (u \o b)[k] = IF k <= i THEN e[k] ELSE b[k - i]
    <3>1. u \in Seq(S) /\ Len(u) = i /\ \A k \in 1 .. i : u[k] = e[k]
      BY <2>1 DEF u
    <3>2. /\ u \o b \in Seq(S) /\ Len(u \o b) = Len(u) + Len(b)
          /\ \A k \in 1 .. Len(u) + Len(b) :
               (u \o b)[k] = IF k <= Len(u) THEN u[k] ELSE b[k - Len(u)]
      BY <3>1, ConcatProperties
    <3> QED  BY <1>1, <3>1, <3>2
  <2> DEFINE w == u \o b
  <2> HIDE DEF w
  <2>4. w \o v \in Seq(S) /\ Len(w \o v) = a.len + n
        /\ \A k \in 1 .. a.len + n :
             (w \o v)[k] = IF k <= i + n THEN w[k] ELSE v[k - (i + n)]
    <3>1. v \in Seq(S) /\ Len(v) = a.len - i /\ w \in Seq(S) /\ Len(w) = i + n
      BY <2>2, <2>3 DEF v, w
    <3>2. /\ w \o v \in Seq(S) /\ Len(w \o v) = Len(w) + Len(v)
          /\ \A k \in 1 .. Len(w) + Len(v) :
               (w \o v)[k] = IF k <= Len(w) THEN w[k] ELSE v[k - Len(w)]
      BY <3>1, ConcatProperties
    <3>3. Len(w) + Len(v) = a.len + n
      BY <1>1, <3>1
    <3> HIDE DEF n
    <3> QED  BY <3>1, <3>2, <3>3
  <2>5. \A k \in 1 .. a.len + n :
          k > i + n => v[k - (i + n)] = e[k - n]
    <3> SUFFICES ASSUME NEW k \in 1 .. a.len + n, k > i + n
                 PROVE  v[k - (i + n)] = e[k - n]
      OBVIOUS
    <3>1. k - (i + n) \in 1 .. a.len - i /\ i + (k - (i + n)) = k - n
      BY <1>1
    <3> QED  BY <2>2, <3>1 DEF v
  <2>6. \A k \in 1 .. a.len + n :
          (w \o v)[k] = IF k <= i THEN e[k] ELSE IF k <= i + n THEN b[k - i] ELSE e[k - n]
    BY <1>1, <2>3, <2>4, <2>5 DEF w
  <2> QED  BY <2>4, <2>6 DEF u, v, w
<1>11. \A k \in 1 .. a.len + n : Elems(c)[k] = s[k]
  <2> TAKE k \in 1 .. a.len + n
  <2>1. At(k) = IF k <= i THEN e[k] ELSE IF k <= i + n THEN b[k - i] ELSE e[k - n]
    <3> HIDE DEF e, room, n
    <3>1. CASE k <= i
      <4>1. At(k) = room[k]
        BY <1>1, <3>1
      <4>2. k \in 1 .. a.len
        BY <1>1, <3>1
      <4> HIDE DEF At
      <4> QED  BY <1>2, <1>3, <3>1, <4>1, <4>2
    <3>2. CASE k > i /\ k <= i + n
      BY <1>1, <3>2
    <3>3. CASE k > i + n
      <4>1. At(k) = room[k - n]
        BY <1>1, <3>3
      <4>2. k - n \in 1 .. a.len
        BY <1>1, <3>3
      <4>3. ~(k <= i) /\ ~(k <= i + n)
        BY <1>1, <3>3
      <4> HIDE DEF At
      <4> QED  BY <1>2, <1>3, <4>1, <4>2, <4>3
    <3> QED  BY <1>1, <3>1, <3>2, <3>3
  <2> HIDE DEF At, s, c, e
  <2> QED  BY <2>1, <1>9, <1>10
<1>12. Elems(c) = s
  <2> HIDE DEF s, c, At, n
  <2> QED  BY <1>9, <1>10, <1>11, SeqEqual
<1> QED  BY <1>8, <1>12

(* ac_arr_append_n is concatenation: what recv() and ac_server_send add    *)
(* follows what is there (meta.h:193, net.c:235, net.c:270).               *)
THEOREM AppendAppends ==
  ASSUME NEW S, Garbage \in S, NEW a, ProperArray(a, S), NEW b \in Seq(S)
  PROVE  /\ ProperArray(AppendN(a, b), S)
         /\ Elems(AppendN(a, b)) = Elems(a) \o b
<1>1. a.len \in 0 .. a.len /\ a.len \in Nat
  BY DEF ProperArray
<1>2. Elems(a) \in Seq(S) /\ Len(Elems(a)) = a.len
  BY ElemsOf
<1>3. SubSeq(Elems(a), 1, a.len) = Elems(a)
  BY <1>2, SubSeqFull
<1>4. SubSeq(Elems(a), a.len + 1, a.len) = <<>>
  <2>1. a.len + 1 \in Int /\ a.len \in Int /\ a.len < a.len + 1
    BY <1>1
  <2> QED  BY <2>1, SubSeqEmpty
<1>5. SubSeq(Elems(a), 1, a.len) \o b \o SubSeq(Elems(a), a.len + 1, a.len)
        = Elems(a) \o b
  <2>1. Elems(a) \o b \in Seq(S)
    BY <1>2, ConcatProperties
  <2> QED  BY <1>3, <1>4, <2>1, ConcatEmptySeq
<1> QED  BY <1>1, <1>5, InsertInserts DEF AppendN

(* ac_arr_remove_n takes n elements out at position i and keeps the others *)
(* in order, where its assertion holds (meta.h:204).                        *)
THEOREM RemoveRemoves ==
  ASSUME NEW S, NEW a, ProperArray(a, S), NEW i \in Nat, NEW n \in Nat,
         CanRemove(a, i, n)
  PROVE  /\ ProperArray(RemoveN(a, i, n), S)
         /\ Elems(RemoveN(a, i, n))
              = SubSeq(Elems(a), 1, i) \o SubSeq(Elems(a), i + n + 1, a.len)
<1> DEFINE c == RemoveN(a, i, n)
           e == Elems(a)
           At(k) == IF k \in i + 1 .. a.len - n THEN a.mem[k + n] ELSE a.mem[k]
           u == SubSeq(e, 1, i)
           v == SubSeq(e, i + n + 1, a.len)
<1>1. a.len \in Nat /\ i + n <= a.len /\ a.mem \in Seq(S) /\ a.len <= Len(a.mem)
  BY DEF ProperArray, CanRemove
<1>2. e \in Seq(S) /\ Len(e) = a.len /\ \A k \in 1 .. a.len : e[k] = a.mem[k]
  <2>1. e = [k \in 1 .. a.len |-> a.mem[k]] /\ e \in Seq(S) /\ Len(e) = a.len
    BY ElemsOf
  <2> HIDE DEF e
  <2> QED  BY <2>1
<1>3. c = [len |-> a.len - n, mem |-> [k \in 1 .. Len(a.mem) |-> At(k)]]
  <2>1. c = [len |-> a.len - n, mem |-> [k \in DOMAIN a.mem |-> At(k)]]
    BY DEF RemoveN
  <2>2. DOMAIN a.mem = 1 .. Len(a.mem)
    BY <1>1, LenProperties
  <2> HIDE DEF c, At
  <2> QED  BY <2>1, <2>2
<1>4. \A k \in 1 .. Len(a.mem) : At(k) \in S
  BY <1>1
<1>5. c.mem \in Seq(S) /\ Len(c.mem) = Len(a.mem)
  <2> HIDE DEF At
  <2> QED  BY <1>1, <1>3, <1>4
<1>6. ProperArray(c, S)
  BY <1>1, <1>3, <1>5 DEF ProperArray
<1>7. /\ Elems(c) \in Seq(S) /\ Len(Elems(c)) = a.len - n
      /\ \A k \in 1 .. a.len - n : Elems(c)[k] = At(k)
  <2>1. c.len = a.len - n
    BY <1>3
  <2>2. Elems(c) = [k \in 1 .. a.len - n |-> c.mem[k]] /\ Elems(c) \in Seq(S)
        /\ Len(Elems(c)) = a.len - n
    <3> HIDE DEF c
    <3> QED  BY <1>6, <2>1, ElemsOf
  <2>3. \A k \in 1 .. a.len - n : c.mem[k] = At(k)
    <3> HIDE DEF At, c
    <3> QED  BY <1>1, <1>3
  <2> HIDE DEF c, At
  <2> QED  BY <2>2, <2>3
<1>8. u \in Seq(S) /\ Len(u) = i /\ \A k \in 1 .. i : u[k] = e[k]
  <2> HIDE DEF e
  <2> QED  BY <1>1, <1>2, Parts
<1>9. v \in Seq(S) /\ Len(v) = a.len - n - i
      /\ \A k \in 1 .. a.len - n - i : v[k] = e[i + n + k]
  <2> HIDE DEF e
  <2>1. i + n \in Nat /\ a.len - n - i = a.len - (i + n)
    BY <1>1
  <2> QED  BY <1>1, <1>2, <2>1, Parts
<1>10. /\ u \o v \in Seq(S) /\ Len(u \o v) = a.len - n
       /\ \A k \in 1 .. a.len - n :
            (u \o v)[k] = IF k <= i THEN u[k] ELSE v[k - i]
  <2> HIDE DEF u, v
  <2>1. /\ u \o v \in Seq(S) /\ Len(u \o v) = Len(u) + Len(v)
        /\ \A k \in 1 .. Len(u) + Len(v) :
             (u \o v)[k] = IF k <= Len(u) THEN u[k] ELSE v[k - Len(u)]
    BY <1>8, <1>9, ConcatProperties
  <2>2. Len(u) = i /\ Len(u) + Len(v) = a.len - n
    BY <1>1, <1>8, <1>9
  <2> QED  BY <2>1, <2>2
<1>11. \A k \in 1 .. a.len - n : Elems(c)[k] = (u \o v)[k]
  <2> TAKE k \in 1 .. a.len - n
  <2>1. CASE k <= i
    <3>1. At(k) = a.mem[k] /\ e[k] = a.mem[k]
      BY <1>1, <1>2, <2>1
    <3> HIDE DEF At, u, v, c, e
    <3> QED  BY <1>1, <1>7, <1>8, <1>10, <2>1, <3>1
  <2>2. CASE k > i
    <3>1. At(k) = a.mem[k + n]
      BY <1>1, <2>2
    <3>2. e[i + n + (k - i)] = a.mem[k + n]
      <4> HIDE DEF e
      <4>1. i + n + (k - i) = k + n /\ k + n \in 1 .. a.len
        BY <1>1, <2>2
      <4> QED  BY <1>2, <4>1
    <3> HIDE DEF At, u, v, c, e
    <3>3. v[k - i] = e[i + n + (k - i)]
      <4>1. k - i \in 1 .. a.len - n - i
        BY <1>1, <2>2
      <4> QED  BY <1>9, <4>1
    <3>4. (u \o v)[k] = v[k - i]
      <4>1. ~(k <= i)
        BY <1>1, <2>2
      <4> QED  BY <1>10, <4>1
    <3> QED  BY <1>7, <3>1, <3>2, <3>3, <3>4
  <2> QED  BY <1>1, <2>1, <2>2
<1>12. Elems(c) = u \o v
  <2> DEFINE w == u \o v
  <2> HIDE DEF u, v, c, At, w
  <2> QED  BY <1>7, <1>10, <1>11, SeqEqual DEF w
<1> QED  BY <1>6, <1>12


-----------------------------------------------------------------------------
(* Arrays made from literals.                                              *)

(* The byte that weighs most comes first here.                             *)
Place(k) == IF BigEndian THEN k ELSE WordBytes + 1 - k

LEMMA SizeTIs ==
  ASSUME NEW bytes, \A k \in 1 .. WordBytes : bytes[k] \in Nat
  PROVE  \E value \in [0 .. WordBytes -> Nat] :
           /\ SizeT(bytes) = value[WordBytes]
           /\ value[0] = 0
           /\ \A k \in 1 .. WordBytes :
                value[k] = 256 * value[k - 1] + bytes[Place(k)]
<1> DEFINE Follows(v) == v = [k \in 0 .. WordBytes |->
                               IF k = 0 THEN 0
                               ELSE 256 * v[k - 1]
                                      + bytes[IF BigEndian THEN k ELSE WordBytes + 1 - k]]
           step == [k \in 1 .. WordBytes |-> [x \in Nat |-> 256 * x + bytes[Place(k)]]]
           value == CHOOSE v : Follows(v)
<1>1. WordBytes \in Nat /\ \A k \in 1 .. WordBytes : bytes[Place(k)] \in Nat
  BY DynArrayAssumption DEF Place
<1>2. PICK v : Iterates(v, Nat, 0, WordBytes, step)
  <2>1. \A k \in 1 .. WordBytes : \A x \in Nat : step[k][x] \in Nat
    BY <1>1
  <2> HIDE DEF step
  <2> QED  BY <1>1, <2>1, Recursion
<1>3. /\ v \in [0 .. WordBytes -> Nat] /\ v[0] = 0
      /\ \A k \in 1 .. WordBytes : v[k] = 256 * v[k - 1] + bytes[Place(k)]
  <2>1. ASSUME NEW k \in 1 .. WordBytes
        PROVE  v[k] = 256 * v[k - 1] + bytes[Place(k)]
    <3>1. k - 1 \in 0 .. WordBytes
      BY <1>1
    <3>2. v[k - 1] \in Nat /\ v[k] = step[k][v[k - 1]]
      BY <1>2, <3>1 DEF Iterates
    <3> QED  BY <3>2
  <2> QED  BY <1>2, <2>1 DEF Iterates
<1>4. Follows(v)
  <2>1. \A k \in 0 .. WordBytes : k # 0 => k \in 1 .. WordBytes
    BY <1>1
  <2> HIDE DEF step
  <2> QED  BY <1>3, <2>1 DEF Place
<1>5. Follows(value)
  <2> HIDE DEF Follows
  <2> QED  BY <1>4
<1>6. SizeT(bytes) = value[WordBytes]
  BY DEF SizeT
<1> HIDE DEF value
<1>7. value[0] = 0
  BY <1>1, <1>5
<1>8. ASSUME NEW k \in 1 .. WordBytes
      PROVE  value[k] = 256 * value[k - 1] + bytes[Place(k)]
  BY <1>1, <1>5 DEF Place
<1>9. \A k \in 0 .. WordBytes : value[k] = v[k]
  <2> DEFINE T == {k \in 0 .. WordBytes : value[k] # v[k]}
  <2>1. ASSUME T # {}  PROVE FALSE
    <3>1. T \subseteq Nat
      BY <1>1
    <3>2. PICK k \in T : \A m \in T : k <= m
      <4> HIDE DEF T
      <4> QED  BY <2>1, <3>1, LeastNat
    <3>3. k \in 0 .. WordBytes /\ value[k] # v[k] /\ k # 0
      BY <1>3, <1>7, <3>2
    <3>4. k \in 1 .. WordBytes /\ k - 1 \in 0 .. WordBytes /\ k - 1 \notin T
      BY <1>1, <3>2, <3>3
    <3>5. value[k - 1] = v[k - 1]
      BY <3>4
    <3> HIDE DEF T
    <3> QED  BY <1>3, <1>8, <3>3, <3>4, <3>5
  <2> QED  BY <2>1
<1> QED  BY <1>1, <1>3, <1>6, <1>9

(* The word put in front of a literal: two bytes, then zeroes.              *)
WordOf(word, lo, hi) ==
  /\ \A k \in 1 .. WordBytes : word[k] \in Nat
  /\ ~BigEndian => word[1] = lo /\ word[2] = hi
  /\ \A k \in 3 .. WordBytes : word[k] = 0

LEMMA LiteralWordIs ==
  ASSUME NEW lo \in 0 .. 255, NEW hi \in 0 .. 255
  PROVE  WordOf(LiteralWord(lo, hi), lo, hi)
<1> DEFINE front == IF BigEndian THEN <<hi, lo>> ELSE <<lo, hi>>
           zeroes == [k \in 1 .. WordBytes - 2 |-> 0]
           word == front \o zeroes
<1>1. LiteralWord(lo, hi) = word
  <2>1. Hex[lo] = lo /\ Hex[hi] = hi
    BY DEF Hex
  <2> QED  BY <2>1 DEF LiteralWord
<1>2. WordBytes \in Nat /\ WordBytes >= 2 /\ WordBytes - 2 \in Nat
  BY DynArrayAssumption
<1>3. /\ front \in Seq(Nat) /\ Len(front) = 2
      /\ ~BigEndian => front[1] = lo /\ front[2] = hi
      /\ front[1] \in Nat /\ front[2] \in Nat
  <2>1. lo \in Nat /\ hi \in Nat
    OBVIOUS
  <2>2. \A x, y \in Nat : /\ <<x, y>> \in Seq(Nat) /\ Len(<<x, y>>) = 2
                          /\ <<x, y>>[1] = x /\ <<x, y>>[2] = y
    OBVIOUS
  <2>3. CASE BigEndian
    <3>1. front = <<hi, lo>>
      BY <2>3, Zenon
    <3> HIDE DEF front
    <3> QED  BY <2>1, <2>2, <2>3, <3>1, Zenon
  <2>4. CASE ~BigEndian
    <3>1. front = <<lo, hi>>
      BY <2>4, Zenon
    <3> HIDE DEF front
    <3> QED  BY <2>1, <2>2, <2>4, <3>1, Zenon
  <2> QED  BY <2>3, <2>4
<1>4. /\ zeroes \in Seq(Nat) /\ Len(zeroes) = WordBytes - 2
      /\ \A k \in 1 .. WordBytes - 2 : zeroes[k] = 0
  BY <1>2
<1> HIDE DEF front, zeroes
<1>5. \A k \in 1 .. WordBytes : word[k] = IF k <= 2 THEN front[k] ELSE zeroes[k - 2]
  <2>1. \A k \in 1 .. Len(front) + Len(zeroes) :
          (front \o zeroes)[k]
            = IF k <= Len(front) THEN front[k] ELSE zeroes[k - Len(front)]
    BY <1>3, <1>4, ConcatProperties
  <2>2. Len(front) = 2 /\ Len(front) + Len(zeroes) = WordBytes
    BY <1>2, <1>3, <1>4
  <2> QED  BY <2>1, <2>2
<1> HIDE DEF word
<1>6. word[1] = front[1] /\ word[2] = front[2]
  BY <1>2, <1>5
<1>7. \A k \in 3 .. WordBytes : word[k] = 0
  <2> TAKE k \in 3 .. WordBytes
  <2>1. k \in 1 .. WordBytes /\ ~(k <= 2) /\ k - 2 \in 1 .. WordBytes - 2
    BY <1>2
  <2> QED  BY <1>4, <1>5, <2>1
<1>8. \A k \in 1 .. WordBytes : word[k] \in Nat
  <2> TAKE k \in 1 .. WordBytes
  <2>1. k = 1 \/ k = 2 \/ k \in 3 .. WordBytes
    BY <1>2
  <2> QED  BY <1>3, <1>6, <1>7, <2>1
<1>9. ~BigEndian => word[1] = lo /\ word[2] = hi
  BY <1>3, <1>6
<1>10. WordOf(word, lo, hi)
  BY <1>7, <1>8, <1>9 DEF WordOf
<1> QED  BY <1>1, <1>10

(* On a little-endian machine the word in front of a literal is read as    *)
(* the two bytes that were looked up for it (meta.h:112).                   *)
LEMMA LittleEndianWord ==
  ASSUME ~BigEndian, NEW lo \in 0 .. 255, NEW hi \in 0 .. 255
  PROVE  SizeT(LiteralWord(lo, hi)) = lo + 256 * hi
<1> DEFINE word == LiteralWord(lo, hi)
<1>1. /\ \A k \in 1 .. WordBytes : word[k] \in Nat
      /\ word[1] = lo /\ word[2] = hi
      /\ \A k \in 3 .. WordBytes : word[k] = 0
  <2>1. WordOf(word, lo, hi)
    BY LiteralWordIs
  <2> HIDE DEF word
  <2> QED  BY <2>1 DEF WordOf
<1> HIDE DEF word
<1>2. PICK value \in [0 .. WordBytes -> Nat] :
           /\ SizeT(word) = value[WordBytes]
           /\ value[0] = 0
           /\ \A k \in 1 .. WordBytes :
                value[k] = 256 * value[k - 1] + word[Place(k)]
  BY <1>1, SizeTIs
<1>3. WordBytes \in Nat /\ WordBytes >= 2
  BY DynArrayAssumption
<1>4. \A k \in 0 .. WordBytes - 2 : value[k] = 0
  <2> DEFINE T == {k \in 0 .. WordBytes - 2 : value[k] # 0}
  <2>1. ASSUME T # {}  PROVE FALSE
    <3>1. T \subseteq Nat
      BY <1>3
    <3>2. PICK k \in T : \A m \in T : k <= m
      <4> HIDE DEF T
      <4> QED  BY <2>1, <3>1, LeastNat
    <3>3. k \in 1 .. WordBytes - 2 /\ value[k] # 0 /\ k - 1 \notin T
      BY <1>2, <1>3, <3>2
    <3>4. value[k - 1] = 0
      BY <1>3, <3>3
    <3>5. Place(k) = WordBytes + 1 - k /\ WordBytes + 1 - k \in 3 .. WordBytes
          /\ k \in 1 .. WordBytes
      BY <1>3, <3>3 DEF Place
    <3> HIDE DEF T
    <3>6. word[Place(k)] = 0
      BY <1>1, <3>5
    <3> QED  BY <1>2, <3>3, <3>4, <3>5, <3>6
  <2> QED  BY <2>1
<1> DEFINE w == WordBytes
<1>5. Place(w - 1) = 2 /\ Place(w) = 1 /\ w - 1 \in 1 .. WordBytes /\ w \in 1 .. WordBytes
      /\ w - 2 \in 0 .. WordBytes - 2 /\ (w - 1) - 1 = w - 2
  BY <1>3 DEF Place
<1>6. value[w - 1] = 256 * value[w - 2] + hi
  BY <1>1, <1>2, <1>5
<1>7. value[w - 1] = hi
  BY <1>4, <1>5, <1>6
<1>8. value[w] = 256 * hi + lo
  <2>1. value[w] = 256 * value[w - 1] + word[1]
    BY <1>2, <1>5
  <2> QED  BY <1>1, <1>7, <2>1
<1>9. SizeT(word) = 256 * hi + lo /\ 256 * hi + lo = lo + 256 * hi
  BY <1>2, <1>8
<1>10. SizeT(word) = lo + 256 * hi
  BY <1>9, Zenon
<1> QED  BY <1>10, Zenon DEF word

(* A literal whose length is in the table is an array of its characters    *)
(* on a little-endian machine.  On any machine it is an array: its memory  *)
(* is the literal's, and its length some number (meta.h:103).               *)
THEOREM LiteralIsItself ==
  ASSUME NEW S, NEW chars \in Seq(S), Len(chars) \div 256 \in 0 .. 255
  PROVE  LET a == FromLiteral(chars, Len(chars) % 256, Len(chars) \div 256)
         IN  /\ a.len \in Nat /\ a.mem = chars
             /\ ~BigEndian => a.len = Len(chars) /\ Elems(a) = chars
<1>1. PICK n \in Nat : n = Len(chars)
  BY LenProperties
<1>2. PICK lo \in 0 .. 255, hi \in 0 .. 255 :
        n % 256 = lo /\ n \div 256 = hi /\ n = lo + 256 * hi
  <2>1. \A m \in Nat : m % 256 \in 0 .. 255 /\ m = (m % 256) + 256 * (m \div 256)
    OBVIOUS
  <2>2. n % 256 \in 0 .. 255 /\ n = (n % 256) + 256 * (n \div 256)
    BY <2>1
  <2>3. n \div 256 \in 0 .. 255
    BY <1>1
  <2> DEFINE lo == n % 256
             hi == n \div 256
  <2>4. lo \in 0 .. 255 /\ hi \in 0 .. 255 /\ n = lo + 256 * hi
    BY <2>2, <2>3
  <2>5. n % 256 = lo /\ n \div 256 = hi
    OBVIOUS
  <2> HIDE DEF lo, hi
  <2> QED  BY <2>4, <2>5
<1> DEFINE a == FromLiteral(chars, lo, hi)
<1>3. a.mem = chars /\ a.len = SizeT(LiteralWord(lo, hi))
  BY DEF FromLiteral
<1>4. a.len \in Nat
  <2> DEFINE word == LiteralWord(lo, hi)
  <2>1. \A k \in 1 .. WordBytes : word[k] \in Nat
    <3>1. WordOf(word, lo, hi)
      BY LiteralWordIs
    <3> HIDE DEF word
    <3> QED  BY <3>1 DEF WordOf
  <2> HIDE DEF word
  <2>2. SizeT(word) \in Nat
    BY <2>1, SizeTIs, DynArrayAssumption
  <2> QED  BY <1>3, <2>2 DEF word
<1>5. ASSUME ~BigEndian  PROVE a.len = n /\ Elems(a) = chars
  <2>1. a.len = n
    <3>1. SizeT(LiteralWord(lo, hi)) = lo + 256 * hi
      BY <1>5, LittleEndianWord, Zenon
    <3>2. a.len = lo + 256 * hi
      <4>1. a.len = SizeT(LiteralWord(lo, hi))
        BY <1>3
      <4> HIDE DEF a
      <4> QED  BY <3>1, <4>1, Zenon
    <3> HIDE DEF a
    <3> QED  BY <1>2, <3>2, Zenon
  <2> HIDE DEF a
  <2>2. Elems(a) = [k \in 1 .. n |-> chars[k]]
    BY <1>1, <1>3, <2>1 DEF Elems, Cap
  <2>3. Elems(a) = chars
    BY <1>1, <2>2
  <2> QED  BY <2>1, <2>3
<1> QED  BY <1>1, <1>2, <1>3, <1>4, <1>5

=============================================================================
