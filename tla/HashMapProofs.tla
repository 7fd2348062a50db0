--------------------------- MODULE HashMapProofs ---------------------------
(***************************************************************************)
(* What the hash map promises, for every hash function, set of keys and    *)
(* initial capacity.                                                       *)
(***************************************************************************)
EXTENDS HashMap, SeqFacts

(***************************************************************************)
(* Buckets and what they hold                                              *)
(***************************************************************************)

HeldBy(bucket) == {bucket[i] : i \in DOMAIN bucket}

Held(bs) == UNION {HeldBy(bs[b]) : b \in DOMAIN bs}

KeysOf(es) == {e.key : e \in es}

OneEach(bucket) ==
  \A i, j \in DOMAIN bucket : bucket[i].key = bucket[j].key => i = j

Buckets(bs, n) ==
  /\ bs \in [0 .. n - 1 -> Seq(Entry)]
  /\ \A b \in 0 .. n - 1 :
       OneEach(bs[b]) /\ \A e \in HeldBy(bs[b]) : Home(e.key, n) = b

LEMMA CapOf ==
  ASSUME NEW n \in Nat  PROVE Cardinality(0 .. n - 1) = n
BY FS_Interval

LEMMA HomeInRange ==
  ASSUME NEW k \in Keys, NEW n \in Nat \ {0}
  PROVE  Home(k, n) \in 0 .. n - 1
<1>1. Hash[k] \in Nat
  BY HashMapAssumption
<1> QED  BY <1>1 DEF Home

LEMMA InBucket ==
  ASSUME NEW bucket \in Seq(Entry)
  PROVE  /\ DOMAIN bucket = 1 .. Len(bucket) /\ Len(bucket) \in Nat
         /\ \A i \in DOMAIN bucket : bucket[i] \in Entry
BY LenProperties, ElementOfSeq

LEMMA EntryIs ==
  ASSUME NEW e \in Entry
  PROVE  e.key \in Keys /\ e.val \in Values /\ e = [key |-> e.key, val |-> e.val]
BY DEF Entry

(* Find says where a key is, and whether it is there.                      *)
LEMMA FindIs ==
  ASSUME NEW bucket \in Seq(Entry), NEW k
  PROVE  LET i == Find(bucket, k)
         IN  IF i = 0 THEN \A e \in HeldBy(bucket) : e.key # k
             ELSE i \in DOMAIN bucket /\ bucket[i].key = k
<1> DEFINE I == {i \in 1 .. Len(bucket) : bucket[i].key = k}
<1>1. Find(bucket, k) = IF I # {} THEN CHOOSE x \in I : \A y \in I : x <= y ELSE 0
  BY DEF Find, SelectInSeq, Min
<1>2. I \subseteq Nat /\ DOMAIN bucket = 1 .. Len(bucket) /\ 0 \notin I
  BY InBucket
<1>3. CASE I = {}
  <2>1. Find(bucket, k) = 0
    BY <1>1, <1>3
  <2> QED  BY <2>1, <1>2, <1>3 DEF HeldBy
<1>4. CASE I # {}
  <2>1. \E x \in I : \A y \in I : x <= y
    <3> HIDE DEF I
    <3> QED  BY <1>2, <1>4, LeastNat
  <2>2. Find(bucket, k) \in I
    <3> HIDE DEF I
    <3> QED  BY <1>1, <1>4, <2>1
  <2>3. Find(bucket, k) # 0
    <3> HIDE DEF I
    <3> QED  BY <1>2, <2>2
  <2> QED  BY <1>2, <2>2, <2>3
<1> QED  BY <1>3, <1>4

-----------------------------------------------------------------------------
(* What one bucket becomes.                                                *)

LEMMA AppendHolds ==
  ASSUME NEW bucket \in Seq(Entry), NEW e \in Entry
  PROVE  /\ Append(bucket, e) \in Seq(Entry)
         /\ HeldBy(Append(bucket, e)) = HeldBy(bucket) \cup {e}
         /\ OneEach(bucket) /\ e.key \notin KeysOf(HeldBy(bucket))
              => OneEach(Append(bucket, e))
<1> DEFINE app == Append(bucket, e)
<1>1. /\ DOMAIN bucket = 1 .. Len(bucket) /\ Len(bucket) \in Nat
      /\ app \in Seq(Entry)
      /\ DOMAIN app = 1 .. Len(bucket) + 1
      /\ \A i \in 1 .. Len(bucket) : app[i] = bucket[i]
      /\ app[Len(bucket) + 1] = e
  OBVIOUS
<1> HIDE DEF app
<1>2. HeldBy(app) = HeldBy(bucket) \cup {e}
  BY <1>1 DEF HeldBy
<1>3. ASSUME OneEach(bucket), e.key \notin KeysOf(HeldBy(bucket))
      PROVE  OneEach(app)
  <2>1. \A i \in 1 .. Len(bucket) : bucket[i].key # e.key
    BY <1>1, <1>3 DEF KeysOf, HeldBy
  <2>2. \A i \in DOMAIN app : i \in 1 .. Len(bucket) \/ i = Len(bucket) + 1
    BY <1>1
  <2> QED  BY <1>1, <1>3, <2>1, <2>2 DEF OneEach
<1> QED  BY <1>1, <1>2, <1>3 DEF app

LEMMA ReplaceHolds ==
  ASSUME NEW bucket \in Seq(Entry), OneEach(bucket), NEW i \in DOMAIN bucket,
         NEW v \in Values
  PROVE  LET new == [bucket EXCEPT ![i].val = v]
             k == bucket[i].key
         IN  /\ new \in Seq(Entry) /\ OneEach(new) /\ new # <<>>
             /\ HeldBy(new) = {e \in HeldBy(bucket) : e.key # k}
                                \cup {[key |-> k, val |-> v]}
<1> DEFINE new == [bucket EXCEPT ![i].val = v]
           k == bucket[i].key
<1>1. /\ DOMAIN bucket = 1 .. Len(bucket) /\ Len(bucket) \in Nat
      /\ \A j \in DOMAIN bucket : bucket[j] \in Entry
  BY InBucket
<1>2. new[i] = [key |-> k, val |-> v] /\ new[i] \in Entry
  BY <1>1, EntryIs DEF Entry
<1>3. \A j \in DOMAIN bucket : j # i => new[j] = bucket[j]
  OBVIOUS
<1>4. new \in [1 .. Len(bucket) -> Entry]
  BY <1>1, <1>2, <1>3
<1> HIDE DEF new
<1>5. new \in Seq(Entry) /\ Len(new) = Len(bucket) /\ DOMAIN new = DOMAIN bucket
  <2>1. Len(bucket) \in Nat
    BY <1>1
  <2>2. new \in Seq(Entry) /\ Len(new) = Len(bucket)
    BY <1>4, <2>1, FunctionIsSeq
  <2> QED  BY <1>1, <1>4, <2>2
<1>6. \A j \in DOMAIN bucket : new[j].key = bucket[j].key
  BY <1>2, <1>3
<1>7. OneEach(new)
  BY <1>5, <1>6 DEF OneEach
<1>8. new # <<>>
  BY <1>1, <1>5
<1>9. HeldBy(new) = {e \in HeldBy(bucket) : e.key # k}
                      \cup {[key |-> k, val |-> v]}
  <2>1. \A j \in DOMAIN bucket : j # i => bucket[j].key # k
    BY DEF OneEach
  <2>2. new[i].key = k
    BY <1>2
  <2> QED  BY <1>2, <1>3, <1>5, <2>1, <2>2 DEF HeldBy
<1> QED  BY <1>5, <1>7, <1>8, <1>9 DEF new

LEMMA RemoveHolds ==
  ASSUME NEW bucket \in Seq(Entry), OneEach(bucket), NEW i \in DOMAIN bucket
  PROVE  LET new == RemoveAt(bucket, i)
         IN  /\ new \in Seq(Entry) /\ OneEach(new)
             /\ HeldBy(new) = {e \in HeldBy(bucket) : e.key # bucket[i].key}
             /\ new = <<>> <=> Len(bucket) = 1
<1> DEFINE new == RemoveAt(bucket, i)
<1>1. new = Without(bucket, i)
  BY DEF RemoveAt, Without
<1>2. /\ new \in Seq(Entry)
      /\ DOMAIN new = 1 .. Len(bucket) - 1
      /\ \A k \in 1 .. Len(bucket) - 1 :
           new[k] = IF k < i THEN bucket[k] ELSE bucket[k + 1]
  <2>1. SubSeq(bucket, 1, i - 1) \o SubSeq(bucket, i + 1, Len(bucket)) = new
    BY <1>1 DEF Without
  <2>2. /\ SubSeq(bucket, 1, i - 1) \o SubSeq(bucket, i + 1, Len(bucket)) \in Seq(Entry)
        /\ DOMAIN Without(bucket, i) = 1 .. Len(bucket) - 1
        /\ \A k \in 1 .. Len(bucket) - 1 :
             Without(bucket, i)[k] = IF k < i THEN bucket[k] ELSE bucket[k + 1]
    BY WithoutOne
  <2> HIDE DEF new
  <2> QED  BY <1>1, <2>1, <2>2
<1> HIDE DEF new
<1>3. /\ DOMAIN bucket = 1 .. Len(bucket) /\ Len(bucket) \in Nat
      /\ i \in 1 .. Len(bucket)
  BY InBucket
<1> DEFINE from(k) == IF k < i THEN k ELSE k + 1
<1>4. \A k \in DOMAIN new : from(k) \in DOMAIN bucket \ {i} /\ new[k] = bucket[from(k)]
  BY <1>2, <1>3
<1>5. \A j, k \in DOMAIN new : from(j) = from(k) => j = k
  BY <1>2, <1>3
<1>6. \A j \in DOMAIN bucket \ {i} : \E k \in DOMAIN new : new[k] = bucket[j]
  <2> TAKE j \in DOMAIN bucket \ {i}
  <2>1. CASE j < i
    <3>1. j \in DOMAIN new /\ new[j] = bucket[j]
      BY <1>2, <1>3, <2>1
    <3> QED  BY <3>1
  <2>2. CASE j > i
    <3>1. j - 1 \in DOMAIN new /\ new[j - 1] = bucket[j]
      BY <1>2, <1>3, <2>2
    <3> QED  BY <3>1
  <2> QED  BY <1>3, <2>1, <2>2
<1> HIDE DEF from
<1>7. OneEach(new)
  BY <1>4, <1>5 DEF OneEach
<1>8. \A j \in DOMAIN bucket \ {i} : bucket[j].key # bucket[i].key
  BY DEF OneEach
<1>9. HeldBy(new) = {e \in HeldBy(bucket) : e.key # bucket[i].key}
  BY <1>4, <1>6, <1>8 DEF HeldBy
<1>10. new = <<>> <=> Len(bucket) = 1
  <2>1. Len(new) = Len(bucket) - 1
    <3>1. Len(bucket) - 1 \in Nat
      BY <1>3
    <3> QED  BY <1>2, <3>1, LenFromDomain
  <2>2. new = <<>> <=> Len(new) = 0
    BY <1>2, EmptySeq
  <2> QED  BY <1>3, <2>1, <2>2
<1> QED  BY <1>2, <1>7, <1>9, <1>10 DEF new

-----------------------------------------------------------------------------
(* What all of them become.                                                *)

LEMMA HeldAtHome ==
  ASSUME NEW n, NEW bs, Buckets(bs, n), NEW e
  PROVE  e \in Held(bs)
           <=> Home(e.key, n) \in 0 .. n - 1 /\ e \in HeldBy(bs[Home(e.key, n)])
<1>1. DOMAIN bs = 0 .. n - 1
  BY DEF Buckets
<1>2. \A b \in 0 .. n - 1 : e \in HeldBy(bs[b]) => Home(e.key, n) = b
  BY DEF Buckets
<1>3. e \in Held(bs) <=> \E b \in 0 .. n - 1 : e \in HeldBy(bs[b])
  BY <1>1 DEF Held
<1> QED  BY <1>2, <1>3

LEMMA HeldAreEntries ==
  ASSUME NEW n, NEW bs, Buckets(bs, n)
  PROVE  Held(bs) \subseteq Entry
<1>1. \A b \in DOMAIN bs : bs[b] \in Seq(Entry)
  BY DEF Buckets
<1>2. \A b \in DOMAIN bs : HeldBy(bs[b]) \subseteq Entry
  BY <1>1, InBucket DEF HeldBy
<1> QED  BY <1>2 DEF Held

LEMMA OneOfEachKey ==
  ASSUME NEW n, NEW bs, Buckets(bs, n), NEW d \in Held(bs), NEW e \in Held(bs),
         d.key = e.key
  PROVE  d = e
<1>1. /\ Home(e.key, n) \in 0 .. n - 1
      /\ d \in HeldBy(bs[Home(e.key, n)]) /\ e \in HeldBy(bs[Home(e.key, n)])
  BY HeldAtHome
<1> QED  BY <1>1 DEF Buckets, OneEach, HeldBy

LEMMA PopulatedIsFinite ==
  ASSUME NEW n \in Nat, NEW bs, Buckets(bs, n)
  PROVE  IsFiniteSet({b \in DOMAIN bs : bs[b] # <<>>})
<1>1. DOMAIN bs = 0 .. n - 1 /\ IsFiniteSet(0 .. n - 1)
  BY FS_Interval DEF Buckets
<1> QED  BY <1>1, FS_Subset

(* Of buckets bs, only h has changed.                                      *)
ChangedAt(bs, n, h, new) ==
  /\ Buckets(new, n)
  /\ \A e : e \in Held(new)
             <=> (e \in Held(bs) /\ Home(e.key, n) # h) \/ e \in HeldBy(new[h])
  /\ Populated(new) = IF new[h] = <<>>
                      THEN IF bs[h] = <<>> THEN Populated(bs)
                           ELSE Populated(bs) - 1
                      ELSE IF bs[h] = <<>> THEN Populated(bs) + 1
                           ELSE Populated(bs)
  /\ Populated(new) \in Nat /\ Populated(bs) \in Nat

LEMMA ChangeOne ==
  ASSUME NEW n \in Nat, NEW bs, Buckets(bs, n), NEW h \in 0 .. n - 1,
         NEW bucket \in Seq(Entry), OneEach(bucket),
         \A e \in HeldBy(bucket) : Home(e.key, n) = h,
         NEW new, new = [bs EXCEPT ![h] = bucket]
  PROVE  ChangedAt(bs, n, h, new)
<1> DEFINE P == {b \in DOMAIN bs : bs[b] # <<>>}
           Q == {b \in DOMAIN new : new[b] # <<>>}
<1>1. /\ DOMAIN bs = 0 .. n - 1 /\ DOMAIN new = 0 .. n - 1 /\ new[h] = bucket
      /\ \A b \in 0 .. n - 1 : b # h => new[b] = bs[b]
      /\ new \in [0 .. n - 1 -> Seq(Entry)]
  BY DEF Buckets
<1>2. Buckets(new, n)
  BY <1>1 DEF Buckets
<1>3. ASSUME NEW e
      PROVE  e \in Held(new)
               <=> (e \in Held(bs) /\ Home(e.key, n) # h) \/ e \in HeldBy(bucket)
  <2>1. e \in Held(new)
          <=> Home(e.key, n) \in 0 .. n - 1 /\ e \in HeldBy(new[Home(e.key, n)])
    BY <1>2, HeldAtHome
  <2>2. e \in Held(bs)
          <=> Home(e.key, n) \in 0 .. n - 1 /\ e \in HeldBy(bs[Home(e.key, n)])
    BY HeldAtHome
  <2> QED  BY <1>1, <2>1, <2>2
<1>4. Q = IF bucket = <<>> THEN P \ {h} ELSE P \cup {h}
  BY <1>1
<1>5. IsFiniteSet(P) /\ IsFiniteSet(Q)
  BY <1>2, PopulatedIsFinite
<1>6. Populated(new) = Cardinality(Q) /\ Populated(bs) = Cardinality(P)
  BY DEF Populated
<1>7. h \in P <=> bs[h] # <<>>
  BY <1>1
<1> HIDE DEF P, Q
<1>8. Cardinality(Q) = IF bucket = <<>>
                       THEN IF h \in P THEN Cardinality(P) - 1 ELSE Cardinality(P)
                       ELSE IF h \in P THEN Cardinality(P) ELSE Cardinality(P) + 1
  BY <1>4, <1>5, FS_AddElement, FS_RemoveElement
<1>9. Cardinality(P) \in Nat /\ Cardinality(Q) \in Nat
  BY <1>5, FS_CardinalityType
<1> QED  BY <1>1, <1>2, <1>3, <1>6, <1>7, <1>8, <1>9 DEF ChangedAt

(* The buckets after ac_map_set_no_rehash.                                 *)
LEMMA PutHolds ==
  ASSUME NEW n \in Nat \ {0}, NEW bs, Buckets(bs, n),
         NEW k \in Keys, NEW v \in Values
  PROVE  LET h == Home(k, n)
             i == Find(bs[h], k)
             new == IF i = 0 THEN [bs EXCEPT ![h] = Append(@, [key |-> k, val |-> v])]
                    ELSE [bs EXCEPT ![h][i].val = v]
         IN  /\ Buckets(new, n)
             /\ Held(new) = {e \in Held(bs) : e.key # k} \cup {[key |-> k, val |-> v]}
             /\ i = 0 <=> k \notin KeysOf(Held(bs))
             /\ Populated(new) = IF bs[h] = <<>> THEN Populated(bs) + 1 ELSE Populated(bs)
             /\ Populated(bs) \in Nat
<1> DEFINE h == Home(k, n)
           i == Find(bs[h], k)
           e == [key |-> k, val |-> v]
           bucket == IF i = 0 THEN Append(bs[h], e) ELSE [bs[h] EXCEPT ![i].val = v]
           new == [bs EXCEPT ![h] = bucket]
<1>1. h \in 0 .. n - 1 /\ n \in Nat /\ e \in Entry
  BY HomeInRange DEF Entry
<1>2. /\ bs[h] \in Seq(Entry) /\ OneEach(bs[h]) /\ DOMAIN bs = 0 .. n - 1
      /\ \A d \in HeldBy(bs[h]) : Home(d.key, n) = h
  BY <1>1 DEF Buckets
<1>3. IF i = 0 THEN \A d \in HeldBy(bs[h]) : d.key # k
      ELSE i \in DOMAIN bs[h] /\ bs[h][i].key = k
  BY <1>2, FindIs
<1> HIDE DEF i, e
<1>4. i = 0 <=> k \notin KeysOf(HeldBy(bs[h]))
  BY <1>3 DEF KeysOf, HeldBy
<1>5. /\ bucket \in Seq(Entry) /\ OneEach(bucket) /\ bucket # <<>>
      /\ HeldBy(bucket) = {d \in HeldBy(bs[h]) : d.key # k} \cup {e}
  <2>1. CASE i = 0
    <3>1. /\ Append(bs[h], e) \in Seq(Entry) /\ OneEach(Append(bs[h], e))
          /\ HeldBy(Append(bs[h], e)) = HeldBy(bs[h]) \cup {e}
      BY <1>1, <1>2, <1>4, <2>1, AppendHolds DEF e
    <3>2. e \in HeldBy(Append(bs[h], e))
      BY <3>1
    <3>3. Append(bs[h], e) # <<>>
      BY <3>2 DEF HeldBy
    <3> HIDE DEF h
    <3> QED  BY <1>3, <2>1, <3>1, <3>3
  <2>2. CASE i # 0
    <3> HIDE DEF h
    <3> QED  BY <1>2, <1>3, <2>2, ReplaceHolds DEF e
  <2> QED  BY <2>1, <2>2
<1>6. \A d \in HeldBy(bucket) : Home(d.key, n) = h
  BY <1>2, <1>5 DEF e
<1>7. (IF i = 0 THEN [bs EXCEPT ![h] = Append(@, e)]
       ELSE [bs EXCEPT ![h][i].val = v]) = new
  BY <1>1, <1>2
<1> HIDE DEF bucket
<1>8. /\ Buckets(new, n)
      /\ \A d : d \in Held(new)
                 <=> (d \in Held(bs) /\ Home(d.key, n) # h) \/ d \in HeldBy(bucket)
      /\ Populated(new) = IF bs[h] = <<>> THEN Populated(bs) + 1 ELSE Populated(bs)
      /\ Populated(bs) \in Nat
  <2>1. new = [bs EXCEPT ![h] = bucket]
    OBVIOUS
  <2> HIDE DEF h, new
  <2>2. new[h] = bucket
    BY <1>1, <2>1 DEF Buckets
  <2>3. ChangedAt(bs, n, h, new)
    BY <1>1, <1>5, <1>6, <2>1, ChangeOne, Zenon
  <2> QED  BY <1>5, <2>2, <2>3 DEF ChangedAt
<1> HIDE DEF new
<1>9. \A d : d \in HeldBy(bs[h]) <=> d \in Held(bs) /\ Home(d.key, n) = h
  <2>1. \A d \in HeldBy(bs[h]) : Home(d.key, n) = h
    BY <1>2
  <2> HIDE DEF h
  <2> QED  BY <1>1, <2>1, HeldAtHome
<1>10. \A d : d.key = k => Home(d.key, n) = h
  OBVIOUS
<1> HIDE DEF h
<1>11. Held(new) = {d \in Held(bs) : d.key # k} \cup {e}
  BY <1>5, <1>8, <1>9, <1>10
<1>12. i = 0 <=> k \notin KeysOf(Held(bs))
  BY <1>4, <1>9, <1>10 DEF KeysOf
<1> QED  BY <1>7, <1>8, <1>11, <1>12 DEF h, i, e

(* The buckets after ac_map_remove.                                        *)
LEMMA RemoveHoldsOthers ==
  ASSUME NEW n \in Nat \ {0}, NEW bs, Buckets(bs, n), NEW k \in Keys
  PROVE  LET h == Home(k, n)
             i == Find(bs[h], k)
             new == [bs EXCEPT ![h] = RemoveAt(@, i)]
         IN  /\ i = 0 <=> k \notin KeysOf(Held(bs))
             /\ i # 0 =>
                  /\ Buckets(new, n)
                  /\ Held(new) = {e \in Held(bs) : e.key # k}
                  /\ Populated(new) = IF Len(bs[h]) = 1 THEN Populated(bs) - 1
                                      ELSE Populated(bs)
                  /\ Populated(new) \in Nat
<1> DEFINE h == Home(k, n)
           i == Find(bs[h], k)
           bucket == RemoveAt(bs[h], i)
           new == [bs EXCEPT ![h] = bucket]
<1>1. h \in 0 .. n - 1 /\ n \in Nat
  BY HomeInRange
<1>2. /\ bs[h] \in Seq(Entry) /\ OneEach(bs[h]) /\ DOMAIN bs = 0 .. n - 1
      /\ \A d \in HeldBy(bs[h]) : Home(d.key, n) = h
  BY <1>1 DEF Buckets
<1>3. IF i = 0 THEN \A d \in HeldBy(bs[h]) : d.key # k
      ELSE i \in DOMAIN bs[h] /\ bs[h][i].key = k
  BY <1>2, FindIs
<1>4. \A d : d \in HeldBy(bs[h]) <=> d \in Held(bs) /\ Home(d.key, n) = h
  <2>1. \A d \in HeldBy(bs[h]) : Home(d.key, n) = h
    BY <1>2
  <2> HIDE DEF h
  <2> QED  BY <1>1, <2>1, HeldAtHome
<1>5. \A d : d.key = k => Home(d.key, n) = h
  OBVIOUS
<1> HIDE DEF i, h
<1>6. i = 0 <=> k \notin KeysOf(HeldBy(bs[h]))
  BY <1>3 DEF KeysOf, HeldBy
<1>7. i = 0 <=> k \notin KeysOf(Held(bs))
  BY <1>4, <1>5, <1>6 DEF KeysOf
<1>8. ASSUME i # 0
      PROVE  /\ Buckets(new, n)
             /\ Held(new) = {e \in Held(bs) : e.key # k}
             /\ Populated(new) = IF Len(bs[h]) = 1 THEN Populated(bs) - 1
                                 ELSE Populated(bs)
             /\ Populated(new) \in Nat
  <2>1. /\ bucket \in Seq(Entry) /\ OneEach(bucket)
        /\ HeldBy(bucket) = {d \in HeldBy(bs[h]) : d.key # k}
        /\ bucket = <<>> <=> Len(bs[h]) = 1
    BY <1>2, <1>3, <1>8, RemoveHolds
  <2>2. \A d \in HeldBy(bucket) : Home(d.key, n) = h
    BY <1>2, <2>1
  <2>3. bs[h] # <<>>
    BY <1>3, <1>8
  <2> HIDE DEF bucket
  <2>4. /\ Buckets(new, n)
        /\ \A d : d \in Held(new)
                 <=> (d \in Held(bs) /\ Home(d.key, n) # h) \/ d \in HeldBy(bucket)
        /\ Populated(new) = IF bucket = <<>> THEN Populated(bs) - 1 ELSE Populated(bs)
        /\ Populated(new) \in Nat
    <3>1. /\ h \in 0 .. n - 1 /\ n \in Nat
          /\ bucket \in Seq(Entry) /\ OneEach(bucket)
          /\ new = [bs EXCEPT ![h] = bucket]
      BY <1>1, <2>1
    <3> HIDE DEF new
    <3>2. new[h] = bucket
      BY <3>1 DEF Buckets
    <3>3. ChangedAt(bs, n, h, new)
      BY <3>1, <2>2, ChangeOne, Zenon
    <3> QED  BY <2>3, <3>2, <3>3 DEF ChangedAt
  <2> HIDE DEF new
  <2>5. Held(new) = {d \in Held(bs) : d.key # k}
    BY <1>4, <1>5, <2>1, <2>4
  <2> QED  BY <2>1, <2>4, <2>5
<1> QED  BY <1>7, <1>8 DEF h, i

-----------------------------------------------------------------------------
(* The re-hash.                                                            *)

LEMMA MovedIs ==
  ASSUME NEW bucket \in Seq(Entry), OneEach(bucket), NEW b, NEW cap
  PROVE  LET new == Moved(bucket, b, cap)
         IN  /\ new \in Seq(Entry) /\ OneEach(new)
             /\ HeldBy(new) = {e \in HeldBy(bucket) : Home(e.key, cap) = b}
<1> DEFINE n == Len(bucket)
           Goes(i) == Home(bucket[i].key, cap) = b
           IsUpTo(f) == f = [i \in 0 .. n |->
                               IF i = 0 THEN <<>>
                               ELSE IF Goes(i) THEN Append(f[i - 1], bucket[i])
                               ELSE f[i - 1]]
           step == [i \in 1 .. n |-> [s \in Seq(Entry) |->
                      IF Goes(i) THEN Append(s, bucket[i]) ELSE s]]
           upTo == CHOOSE f : IsUpTo(f)
<1>1. /\ n \in Nat /\ DOMAIN bucket = 1 .. n
      /\ \A i \in 1 .. n : bucket[i] \in Entry
  BY InBucket
<1>2. IsUpTo(upTo)
  <2> HIDE DEF n, Goes
  <2>1. /\ \A i \in 1 .. n : \A x \in Seq(Entry) : step[i][x] \in Seq(Entry)
        /\ <<>> \in Seq(Entry)
    BY <1>1
  <2>2. PICK f : Iterates(f, Seq(Entry), <<>>, n, step)
    <3>1. n \in Nat
      BY <1>1
    <3> HIDE DEF step
    <3> QED  BY <2>1, <3>1, Recursion, Zenon
  <2>3. ASSUME NEW i \in 1 .. n
        PROVE  f[i] = IF Goes(i) THEN Append(f[i - 1], bucket[i]) ELSE f[i - 1]
    <3>1. i - 1 \in 0 .. n
      BY <1>1
    <3>2. f[i - 1] \in Seq(Entry)
      BY <2>2, <3>1 DEF Iterates
    <3> QED  BY <2>2, <3>2 DEF Iterates
  <2>4. IsUpTo(f)
    <3>1. \A i \in 0 .. n : i # 0 => i \in 1 .. n
      BY <1>1
    <3> HIDE DEF step
    <3> QED  BY <2>2, <2>3, <3>1 DEF Iterates
  <2> HIDE DEF IsUpTo
  <2> QED  BY <2>4
<1>3. Moved(bucket, b, cap) = upTo[n]
  BY DEF Moved
<1> HIDE DEF upTo, step
<1>4. /\ upTo[0] = <<>>
      /\ \A i \in 1 .. n :
           upTo[i] = IF Goes(i) THEN Append(upTo[i - 1], bucket[i]) ELSE upTo[i - 1]
  <2> HIDE DEF n, Goes
  <2>1. \A i \in 0 .. n :
          upTo[i] = IF i = 0 THEN <<>>
                    ELSE IF Goes(i) THEN Append(upTo[i - 1], bucket[i])
                    ELSE upTo[i - 1]
    BY <1>2
  <2>2. 0 \in 0 .. n /\ \A i \in 1 .. n : i \in 0 .. n /\ i # 0
    BY <1>1
  <2> HIDE DEF IsUpTo
  <2> QED  BY <2>1, <2>2
<1> HIDE DEF n, IsUpTo, Goes
<1> DEFINE Picked(i) == {bucket[j] : j \in {l \in 1 .. i : Goes(l)}}
           P(i) == /\ upTo[i] \in Seq(Entry) /\ OneEach(upTo[i])
                   /\ HeldBy(upTo[i]) = Picked(i)
           T == {i \in 0 .. n : ~P(i)}
<1>5. P(0)
  BY <1>4 DEF OneEach, HeldBy
<1>6. ASSUME NEW i \in 1 .. n, P(i - 1)  PROVE P(i)
  <2>1. CASE Goes(i)
    <3>1. Picked(i) = Picked(i - 1) \cup {bucket[i]}
      BY <1>1, <2>1
    <3>2. bucket[i].key \notin KeysOf(HeldBy(upTo[i - 1]))
      <4>1. ASSUME NEW j \in 1 .. i - 1  PROVE bucket[j].key # bucket[i].key
        <5>1. j \in 1 .. n /\ j # i
          BY <1>1
        <5> QED  BY <1>1, <5>1 DEF OneEach
      <4> QED  BY <1>6, <4>1 DEF KeysOf
    <3>3. bucket[i] \in Entry /\ upTo[i] = Append(upTo[i - 1], bucket[i])
      BY <1>1, <1>4, <2>1
    <3> HIDE DEF Picked
    <3> QED  BY <1>6, <3>1, <3>2, <3>3, AppendHolds
  <2>2. CASE ~Goes(i)
    <3>1. Picked(i) = Picked(i - 1)
      BY <1>1, <2>2
    <3>2. upTo[i] = upTo[i - 1]
      BY <1>4, <2>2
    <3> QED  BY <1>6, <3>1, <3>2
  <2> QED  BY <2>1, <2>2
<1>7. P(n)
  <2>1. ASSUME T # {}  PROVE FALSE
    <3>1. T \subseteq Nat
      OBVIOUS
    <3>2. PICK i \in T : \A j \in T : i <= j
      <4> HIDE DEF T
      <4> QED  BY <2>1, <3>1, LeastNat
    <3> HIDE DEF P
    <3>3. i \in 1 .. n /\ i - 1 \in 0 .. n /\ i - 1 \notin T
      BY <1>1, <1>5, <3>2
    <3> QED  BY <1>6, <3>2, <3>3
  <2>2. n \notin T
    <3> HIDE DEF T
    <3> QED  BY <2>1
  <2> HIDE DEF P
  <2> QED  BY <1>1, <2>2
<1>8. Picked(n) = {e \in HeldBy(bucket) : Home(e.key, cap) = b}
  BY <1>1 DEF HeldBy, Goes
<1> QED  BY <1>3, <1>7, <1>8

(* The buckets after the re-hash hold what they held before.               *)
LEMMA SplitHolds ==
  ASSUME NEW n \in Nat \ {0}, Buckets(bkts, n)
  PROVE  Buckets(Split(n), 2 * n) /\ Held(Split(n)) = Held(bkts)
<1> DEFINE new == Split(n)
<1>1. 2 * n \in Nat \ {0}
  OBVIOUS
<1>2. \A b \in 0 .. 2 * n - 1 : b % n \in 0 .. n - 1
  OBVIOUS
<1>3. /\ DOMAIN new = 0 .. 2 * n - 1
      /\ \A b \in 0 .. 2 * n - 1 : new[b] = Moved(bkts[b % n], b, 2 * n)
      /\ new = [b \in 0 .. 2 * n - 1 |-> new[b]]
  BY DEF Split
<1> HIDE DEF new
<1>4. ASSUME NEW b \in 0 .. 2 * n - 1
      PROVE  /\ new[b] \in Seq(Entry) /\ OneEach(new[b])
             /\ HeldBy(new[b]) = {e \in HeldBy(bkts[b % n]) : Home(e.key, 2 * n) = b}
  <2>1. bkts[b % n] \in Seq(Entry) /\ OneEach(bkts[b % n])
    BY <1>2 DEF Buckets
  <2> QED  BY <1>3, <2>1, MovedIs
<1>5. Buckets(new, 2 * n)
  <2>1. new \in [0 .. 2 * n - 1 -> Seq(Entry)]
    BY <1>3, <1>4
  <2> QED  BY <1>4, <2>1 DEF Buckets
<1>6. ASSUME NEW e \in Entry  PROVE e \in Held(new) <=> e \in Held(bkts)
  <2> DEFINE b == Home(e.key, 2 * n)
  <2>1. e.key \in Keys
    BY EntryIs
  <2>2. b \in 0 .. 2 * n - 1
    BY <1>1, <2>1, HomeInRange
  <2>3. b % n = Home(e.key, n)
    <3>1. Hash[e.key] \in Nat
      BY <2>1, HashMapAssumption
    <3> QED  BY <3>1, ModuloDouble DEF Home
  <2>4. e \in Held(new) <=> e \in HeldBy(new[b])
    BY <1>5, <2>2, HeldAtHome
  <2>5. e \in Held(bkts) <=> e \in HeldBy(bkts[b % n])
    BY <1>2, <2>2, <2>3, HeldAtHome
  <2>6. e \in HeldBy(new[b]) <=> e \in HeldBy(bkts[b % n])
    BY <1>4, <2>2
  <2> QED  BY <2>4, <2>5, <2>6
<1>7. Held(new) \subseteq Entry /\ Held(bkts) \subseteq Entry
  BY <1>5, HeldAreEntries
<1> QED  BY <1>5, <1>6, <1>7 DEF new

(* What ac_map_get finds in buckets bs.                                    *)
LookupIn(bs, k) ==
  LET b == bs[Home(k, Cardinality(DOMAIN bs))]
      i == Find(b, k)
  IN  IF i = 0 THEN Absent ELSE b[i].val

LEMMA LookupIs ==
  ASSUME NEW n \in Nat \ {0}, NEW bs, Buckets(bs, n), NEW k \in Keys
  PROVE  /\ \A e \in Held(bs) : e.key = k => LookupIn(bs, k) = e.val
         /\ k \notin KeysOf(Held(bs)) => LookupIn(bs, k) = Absent
<1> DEFINE h == Home(k, n)
           bucket == bs[h]
           i == Find(bucket, k)
<1>1. Cardinality(DOMAIN bs) = n
  BY CapOf DEF Buckets
<1>2. h \in 0 .. n - 1
  BY HomeInRange
<1>3. bucket \in Seq(Entry) /\ OneEach(bucket)
  BY <1>2 DEF Buckets
<1>4. LookupIn(bs, k) = IF i = 0 THEN Absent ELSE bucket[i].val
  BY <1>1 DEF LookupIn
<1>5. IF i = 0 THEN \A e \in HeldBy(bucket) : e.key # k
      ELSE i \in DOMAIN bucket /\ bucket[i].key = k
  BY <1>3, FindIs
<1>6. \A e \in Held(bs) : e.key = k => e \in HeldBy(bucket)
  BY HeldAtHome
<1>7. \A e \in HeldBy(bucket) : e \in Held(bs)
  BY <1>2 DEF Held, Buckets
<1> HIDE DEF i, bucket
<1>8. ASSUME NEW e \in Held(bs), e.key = k  PROVE LookupIn(bs, k) = e.val
  <2>1. PICK j \in DOMAIN bucket : bucket[j] = e
    BY <1>6, <1>8 DEF HeldBy
  <2>2. i # 0
    BY <1>5, <1>6, <1>8
  <2>3. i = j
    BY <1>3, <1>5, <1>8, <2>1, <2>2 DEF OneEach
  <2> QED  BY <1>4, <2>1, <2>2, <2>3
<1>9. ASSUME k \notin KeysOf(Held(bs))  PROVE LookupIn(bs, k) = Absent
  <2>1. i = 0
    BY <1>5, <1>7, <1>9 DEF KeysOf, HeldBy
  <2> QED  BY <1>4, <2>1
<1> QED  BY <1>8, <1>9

-----------------------------------------------------------------------------
(* How many entries there are.                                             *)

LEMMA PutCounts ==
  ASSUME NEW n, NEW bs, Buckets(bs, n), IsFiniteSet(Held(bs)), NEW k, NEW v, NEW es,
         es = {e \in Held(bs) : e.key # k} \cup {[key |-> k, val |-> v]}
  PROVE  /\ IsFiniteSet(es)
         /\ Cardinality(es) = IF k \in KeysOf(Held(bs)) THEN Cardinality(Held(bs))
                              ELSE Cardinality(Held(bs)) + 1
<1> DEFINE new == [key |-> k, val |-> v]
           rest == {e \in Held(bs) : e.key # k}
<1>1. IsFiniteSet(rest) /\ new \notin rest /\ es = rest \cup {new}
  BY FS_Subset
<1>2. CASE k \in KeysOf(Held(bs))
  <2>1. PICK d \in Held(bs) : d.key = k
    BY <1>2 DEF KeysOf
  <2>2. rest = Held(bs) \ {d}
    BY <2>1, OneOfEachKey
  <2>3. Cardinality(rest) = Cardinality(Held(bs)) - 1
    BY <2>1, <2>2, FS_RemoveElement
  <2>4. Cardinality(Held(bs)) \in Nat
    BY FS_CardinalityType
  <2> HIDE DEF rest, new
  <2>5. Cardinality(es) = Cardinality(rest) + 1
    BY <1>1, FS_AddElement
  <2> QED  BY <1>1, <1>2, <2>3, <2>4, <2>5, FS_AddElement
<1>3. CASE k \notin KeysOf(Held(bs))
  <2>1. rest = Held(bs)
    BY <1>3 DEF KeysOf
  <2> HIDE DEF rest, new
  <2>2. new \notin Held(bs) /\ es = Held(bs) \cup {new}
    BY <1>1, <2>1
  <2> QED  BY <1>3, <2>2, FS_AddElement
<1> QED  BY <1>2, <1>3

LEMMA RemoveCounts ==
  ASSUME NEW n, NEW bs, Buckets(bs, n), IsFiniteSet(Held(bs)),
         NEW k \in KeysOf(Held(bs)), NEW es, es = {e \in Held(bs) : e.key # k}
  PROVE  /\ IsFiniteSet(es)
         /\ Cardinality(es) = Cardinality(Held(bs)) - 1 /\ Cardinality(es) \in Nat
<1>1. PICK d \in Held(bs) : d.key = k
  BY DEF KeysOf
<1>2. es = Held(bs) \ {d}
  BY <1>1, OneOfEachKey
<1> QED  BY <1>1, <1>2, FS_RemoveElement, FS_CardinalityType

(***************************************************************************)
(* The inductive invariant                                                 *)
(***************************************************************************)

Counts ==
  /\ IsFiniteSet(Held(bkts))
  /\ len = Cardinality(Held(bkts))
  /\ pop = Populated(bkts)

(* The keys the loop has still to come to.                                 *)
Pending ==
  {k \in Keys : \E b \in DOMAIN bkts : \E i \in DOMAIN bkts[b] :
     bkts[b][i].key = k /\ (at[1] < b \/ (at[1] = b /\ at[2] <= i))}

(* A loop has visited, once each, the keys it no longer has to come to.    *)
Loop ==
  /\ loop = "out" => at = <<0, 1>> /\ due = {} /\ seen = <<>>
  /\ loop = "in" => /\ at[1] \in 0 .. Cap /\ at[2] # 0
                    /\ Distinct(seen)
                    /\ \A k \in Keys : k \in due <=> k \in ToSet(seen) \/ k \in Pending
                    /\ \A k \in Pending : k \notin ToSet(seen)

IInv ==
  /\ TypeOK
  /\ Cap \in Nat \ {0}
  /\ Buckets(bkts, Cap)
  /\ Counts
  /\ Loop

LEMMA InitHolds ==
  Init => IInv
<1> SUFFICES ASSUME Init  PROVE IInv
  OBVIOUS
<1>1. InitCap \in Nat \ {0} /\ bkts = [b \in 0 .. InitCap - 1 |-> <<>>]
  BY HashMapAssumption DEF Init
<1>2. DOMAIN bkts = 0 .. InitCap - 1 /\ \A b \in 0 .. InitCap - 1 : bkts[b] = <<>>
  BY <1>1
<1>3. Cap = InitCap
  BY <1>1, <1>2, CapOf DEF Cap
<1>4. bkts \in [0 .. Cap - 1 -> Seq(Entry)]
  BY <1>1, <1>3
<1>5. Held(bkts) = {}
  BY <1>2 DEF Held, HeldBy
<1>6. Buckets(bkts, Cap)
  BY <1>2, <1>3, <1>4 DEF Buckets, OneEach, HeldBy
<1>7. Populated(bkts) = 0
  <2>1. {b \in DOMAIN bkts : bkts[b] # <<>>} = {}
    BY <1>2
  <2> QED  BY <2>1, FS_EmptySet DEF Populated
<1>8. Counts
  BY <1>5, <1>7, FS_EmptySet DEF Counts, Init
<1>9. Loop
  BY DEF Loop, Init
<1>10. TypeOK
  BY <1>1, <1>4 DEF TypeOK, Init
<1> QED  BY <1>1, <1>3, <1>6, <1>8, <1>9, <1>10 DEF IInv

(* What the buckets are after an entry has been put or removed.            *)
PutDone(bs, n, k, v) ==
  /\ Cap' = n
  /\ Buckets(bkts', n)
  /\ Counts'
  /\ len' \in Nat /\ pop' \in Nat
  /\ \A e : e \in Held(bkts')
             <=> (e \in Held(bs) /\ e.key # k) \/ e = [key |-> k, val |-> v]

LEMMA PutInDone ==
  ASSUME NEW n \in Nat \ {0}, NEW STATE bs, Buckets(bs, n), IsFiniteSet(Held(bs)),
         NEW k \in Keys, NEW v \in Values,
         PutIn(bs, Cardinality(Held(bs)), Populated(bs), k, v)
  PROVE  PutDone(bs, n, k, v)
<1> DEFINE h == Home(k, n)
           i == Find(bs[h], k)
           e == [key |-> k, val |-> v]
           new == IF i = 0 THEN [bs EXCEPT ![h] = Append(@, e)]
                  ELSE [bs EXCEPT ![h][i].val = v]
<1>1. Cardinality(DOMAIN bs) = n
  BY CapOf DEF Buckets
<1>2. /\ bkts' = new
      /\ len' = IF i = 0 THEN Cardinality(Held(bs)) + 1 ELSE Cardinality(Held(bs))
      /\ pop' = IF bs[h] = <<>> THEN Populated(bs) + 1 ELSE Populated(bs)
  BY <1>1 DEF PutIn
<1>3. /\ Buckets(new, n)
      /\ Held(new) = {d \in Held(bs) : d.key # k} \cup {e}
      /\ i = 0 <=> k \notin KeysOf(Held(bs))
      /\ Populated(new) = IF bs[h] = <<>> THEN Populated(bs) + 1 ELSE Populated(bs)
      /\ Populated(bs) \in Nat
  BY PutHolds
<1> HIDE DEF new, i, h
<1>4. /\ IsFiniteSet(Held(new))
      /\ Cardinality(Held(new)) = IF k \in KeysOf(Held(bs)) THEN Cardinality(Held(bs))
                                  ELSE Cardinality(Held(bs)) + 1
  BY <1>3, PutCounts
<1>5. Cardinality(Held(bs)) \in Nat
  BY FS_CardinalityType
<1>6. Cap' = n
  BY <1>2, <1>3, CapOf DEF Buckets, Cap
<1>7. Counts' /\ len' \in Nat /\ pop' \in Nat
  BY <1>2, <1>3, <1>4, <1>5 DEF Counts
<1> QED  BY <1>2, <1>3, <1>6, <1>7 DEF PutDone

RemoveDone(k) ==
  /\ Cap' = Cap
  /\ Buckets(bkts', Cap)
  /\ Counts'
  /\ len' \in Nat /\ pop' \in Nat
  /\ \A e : e \in Held(bkts') <=> e \in Held(bkts) /\ e.key # k

LEMMA RemoveEntryDone ==
  ASSUME IInv, NEW k \in Keys, RemoveEntry(k)
  PROVE  RemoveDone(k)
<1> DEFINE n == Cap
           h == Home(k, n)
           i == Find(bkts[h], k)
           new == [bkts EXCEPT ![h] = RemoveAt(@, i)]
<1>1. n \in Nat \ {0} /\ Buckets(bkts, n) /\ Counts /\ {len, pop} \subseteq Nat
  BY DEF IInv, TypeOK
<1>2. IF i = 0 THEN UNCHANGED <<bkts, len, pop>>
      ELSE /\ bkts' = new
           /\ len' = len - 1
           /\ pop' = IF Len(bkts[h]) = 1 THEN pop - 1 ELSE pop
  BY DEF RemoveEntry, Emptied
<1> HIDE DEF n
<1>3. /\ i = 0 <=> k \notin KeysOf(Held(bkts))
      /\ i # 0 =>
           /\ Buckets(new, n)
           /\ Held(new) = {e \in Held(bkts) : e.key # k}
           /\ Populated(new) = IF Len(bkts[h]) = 1 THEN Populated(bkts) - 1
                               ELSE Populated(bkts)
           /\ Populated(new) \in Nat
  BY <1>1, RemoveHoldsOthers
<1> HIDE DEF new, i, h
<1>4. CASE i = 0
  <2>1. bkts' = bkts /\ len' = len /\ pop' = pop
    BY <1>2, <1>4
  <2>2. Cap' = n
    BY <2>1 DEF Cap, n
  <2>3. \A e \in Held(bkts) : e.key # k
    BY <1>3, <1>4 DEF KeysOf
  <2>4. Counts'
    BY <1>1, <2>1 DEF Counts
  <2> QED  BY <1>1, <2>1, <2>2, <2>3, <2>4 DEF RemoveDone, n
<1>5. CASE i # 0
  <2>1. /\ IsFiniteSet(Held(new))
        /\ Cardinality(Held(new)) = Cardinality(Held(bkts)) - 1
        /\ Cardinality(Held(new)) \in Nat
    BY <1>1, <1>3, <1>5, RemoveCounts DEF Counts
  <2>2. bkts' = new
    BY <1>2, <1>5
  <2>3. Cap' = n
    BY <1>1, <1>3, <1>5, <2>2, CapOf DEF Buckets, Cap
  <2>4. Counts' /\ len' \in Nat /\ pop' \in Nat
    BY <1>1, <1>2, <1>3, <1>5, <2>1, <2>2 DEF Counts
  <2> QED  BY <1>3, <1>5, <2>2, <2>3, <2>4 DEF RemoveDone, n
<1> QED  BY <1>4, <1>5

LEMMA SetDone ==
  ASSUME IInv, NEW k \in Keys, NEW v \in Values, Set(k, v)
  PROVE  IInv' /\ PutDone(bkts, Cap', k, v)
<1>1. /\ Cap \in Nat \ {0} /\ Buckets(bkts, Cap) /\ Counts /\ Loop /\ loop = "out"
      /\ UNCHANGED loopVars
  BY DEF IInv, Set
<1>2. PICK n \in Nat \ {0} : PutDone(bkts, n, k, v) /\ alen' \in Nat
  <2>1. CASE NeedsGrowth
    <3> DEFINE new == Split(Cap)
    <3>1. PutIn(new, len, Populated(new), k, v) /\ alen' = 3 * Cap
      BY <2>1 DEF Set
    <3>2. /\ 2 * Cap \in Nat \ {0}
          /\ Buckets(new, 2 * Cap) /\ Held(new) = Held(bkts)
      BY <1>1, SplitHolds
    <3> HIDE DEF new
    <3>3. IsFiniteSet(Held(new)) /\ len = Cardinality(Held(new))
      BY <1>1, <3>2 DEF Counts
    <3>4. PutIn(new, Cardinality(Held(new)), Populated(new), k, v)
      BY <3>1, <3>3
    <3>5. PutDone(new, 2 * Cap, k, v)
      BY <3>2, <3>3, <3>4, PutInDone
    <3>6. PutDone(bkts, 2 * Cap, k, v)
      BY <3>2, <3>5 DEF PutDone
    <3> QED  BY <1>1, <3>1, <3>2, <3>6
  <2>2. CASE ~NeedsGrowth
    <3>1. PutIn(bkts, len, pop, k, v) /\ alen' = alen
      BY <2>2 DEF Set
    <3>2. PutIn(bkts, Cardinality(Held(bkts)), Populated(bkts), k, v)
      BY <1>1, <3>1 DEF Counts
    <3>3. PutDone(bkts, Cap, k, v)
      BY <1>1, <3>2, PutInDone DEF Counts
    <3>4. alen \in Nat
      BY DEF IInv, TypeOK
    <3> QED  BY <1>1, <3>1, <3>3, <3>4
  <2> QED  BY <2>1, <2>2
<1>3. Cap' = n /\ PutDone(bkts, Cap', k, v)
  BY <1>2 DEF PutDone
<1>4. TypeOK'
  <2>1. bkts' \in [0 .. Cap' - 1 -> Seq(Entry)]
    BY <1>2, <1>3 DEF PutDone, Buckets
  <2>2. {alen', len', pop'} \subseteq Nat
    BY <1>2 DEF PutDone
  <2> QED  BY <1>1, <2>1, <2>2 DEF TypeOK, IInv, loopVars
<1>5. Loop'
  BY <1>1 DEF Loop, loopVars
<1>6. Buckets(bkts', Cap') /\ Counts'
  BY <1>2, <1>3 DEF PutDone
<1> QED  BY <1>2, <1>3, <1>4, <1>5, <1>6 DEF IInv

LEMMA DeleteDone ==
  ASSUME IInv, NEW k \in Keys, Delete(k)
  PROVE  IInv' /\ RemoveDone(k)
<1>1. RemoveEntry(k) /\ loop = "out" /\ UNCHANGED <<alen, loopVars>>
  BY DEF Delete
<1>2. RemoveDone(k)
  BY <1>1, RemoveEntryDone
<1>3. TypeOK'
  <2>1. bkts' \in [0 .. Cap' - 1 -> Seq(Entry)]
    BY <1>2 DEF RemoveDone, Buckets
  <2>2. {alen', len', pop'} \subseteq Nat
    BY <1>1, <1>2 DEF RemoveDone, IInv, TypeOK
  <2> QED  BY <1>1, <2>1, <2>2 DEF TypeOK, IInv, loopVars
<1>4. Loop'
  BY <1>1 DEF Loop, loopVars, IInv
<1> QED  BY <1>2, <1>3, <1>4 DEF IInv, RemoveDone

-----------------------------------------------------------------------------
(* ac_map_foreach.                                                         *)

LEMMA KeyAt ==
  ASSUME IInv, NEW b \in DOMAIN bkts, NEW i \in DOMAIN bkts[b]
  PROVE  /\ bkts[b][i].key \in Keys
         /\ Home(bkts[b][i].key, Cap) = b
         /\ Find(bkts[b], bkts[b][i].key) = i
         /\ \A c \in DOMAIN bkts : \A j \in DOMAIN bkts[c] :
              bkts[c][j].key = bkts[b][i].key => c = b /\ j = i
<1>1. Buckets(bkts, Cap) /\ DOMAIN bkts = 0 .. Cap - 1
  BY DEF IInv, Buckets
<1>2. \A c \in DOMAIN bkts : /\ bkts[c] \in Seq(Entry) /\ OneEach(bkts[c])
                             /\ \A j \in DOMAIN bkts[c] :
                                  Home(bkts[c][j].key, Cap) = c
  BY <1>1 DEF Buckets, HeldBy
<1>3. bkts[b][i].key \in Keys
  BY <1>2, InBucket, EntryIs
<1>4. Find(bkts[b], bkts[b][i].key) = i
  <2> DEFINE k == bkts[b][i].key
             f == Find(bkts[b], k)
  <2>1. IF f = 0 THEN \A e \in HeldBy(bkts[b]) : e.key # k
        ELSE f \in DOMAIN bkts[b] /\ bkts[b][f].key = k
    BY <1>2, FindIs
  <2> HIDE DEF f
  <2>2. f # 0
    BY <2>1 DEF HeldBy
  <2> QED  BY <1>2, <2>1, <2>2 DEF OneEach, f
<1> QED  BY <1>2, <1>3, <1>4 DEF OneEach

LEMMA BeginStep ==
  ASSUME IInv, Begin
  PROVE  IInv'
<1>1. /\ loop = "out" /\ loop' = "in" /\ due' = Stored
      /\ UNCHANGED <<bkts, alen, len, pop, at, seen>>
  BY DEF Begin
<1>2. at = <<0, 1>> /\ seen = <<>> /\ Cap \in Nat \ {0}
  BY <1>1 DEF IInv, Loop
<1>3. \A k : k \in Stored <=> \E b \in DOMAIN bkts : \E i \in DOMAIN bkts[b] :
                                 bkts[b][i].key = k
  BY DEF Stored
<1>4. Stored \subseteq Keys
  BY <1>3, KeyAt
<1>5. Cap' = Cap
  BY <1>1 DEF Cap
<1>6. TypeOK'
  BY <1>1, <1>4, <1>5 DEF IInv, TypeOK
<1>7. ASSUME NEW k \in Keys  PROVE k \in Pending' <=> k \in Stored
  <2>1. ASSUME NEW b \in DOMAIN bkts, NEW i \in DOMAIN bkts[b]
        PROVE  0 < b \/ (0 = b /\ 1 <= i)
    <3>1. b \in 0 .. Cap - 1 /\ bkts[b] \in Seq(Entry)
      BY DEF IInv, Buckets
    <3>2. i \in 1 .. Len(bkts[b]) /\ Len(bkts[b]) \in Nat
      BY <3>1, InBucket
    <3> QED  BY <1>2, <3>1, <3>2
  <2>2. at' = <<0, 1>> /\ bkts' = bkts
    BY <1>1, <1>2
  <2>3. k \in Pending' <=> \E b \in DOMAIN bkts : \E i \in DOMAIN bkts[b] :
                             bkts[b][i].key = k /\ (0 < b \/ (0 = b /\ 1 <= i))
    BY <2>2 DEF Pending
  <2> QED  BY <1>3, <2>1, <2>3
<1>8. ToSet(seen') = {} /\ Distinct(seen')
  BY <1>1, <1>2 DEF ToSet, Distinct
<1>9. at'[1] \in 0 .. Cap' /\ at'[2] # 0
  BY <1>1, <1>2, <1>5
<1>10. Loop'
  BY <1>1, <1>7, <1>8, <1>9 DEF Loop
<1>11. Buckets(bkts', Cap') /\ Counts'
  BY <1>1, <1>5 DEF IInv, Counts
<1> QED  BY <1>2, <1>5, <1>6, <1>10, <1>11 DEF IInv

LEMMA AppendSeen ==
  ASSUME NEW s \in Seq(Keys), NEW k \in Keys, Distinct(s), k \notin ToSet(s)
  PROVE  /\ Append(s, k) \in Seq(Keys) /\ Distinct(Append(s, k))
         /\ ToSet(Append(s, k)) = ToSet(s) \cup {k}
<1> DEFINE app == Append(s, k)
<1>1. /\ DOMAIN s = 1 .. Len(s) /\ Len(s) \in Nat
      /\ app \in Seq(Keys)
      /\ DOMAIN app = 1 .. Len(s) + 1
      /\ \A i \in 1 .. Len(s) : app[i] = s[i]
      /\ app[Len(s) + 1] = k
  OBVIOUS
<1> HIDE DEF app
<1>2. \A i \in DOMAIN app : i \in 1 .. Len(s) \/ i = Len(s) + 1
  BY <1>1
<1>3. \A i \in 1 .. Len(s) : s[i] # k
  BY <1>1 DEF ToSet
<1>4. Distinct(app)
  BY <1>1, <1>2, <1>3 DEF Distinct
<1>5. ToSet(app) = ToSet(s) \cup {k}
  BY <1>1, <1>2 DEF ToSet
<1> QED  BY <1>1, <1>4, <1>5 DEF app

LEMMA VisitStep ==
  ASSUME IInv, Visit
  PROVE  /\ IInv' /\ Here \in Keys
         /\ bkts' = bkts \/ RemoveDone(Here)
<1> DEFINE a == at[1]
           i == at[2]
           k == Here
<1>1. /\ loop = "in" /\ a \in DOMAIN bkts /\ i \in DOMAIN bkts[a]
      /\ UNCHANGED <<bkts, len, pop>> \/ (MayRemove(bkts[a]) /\ RemoveEntry(k))
      /\ at' = <<a, i + 1>> /\ seen' = Append(seen, k)
      /\ UNCHANGED <<alen, loop, due>>
  BY DEF Visit
<1>2. /\ Distinct(seen) /\ seen \in Seq(Keys)
      /\ \A x \in Keys : x \in due <=> x \in ToSet(seen) \/ x \in Pending
      /\ \A x \in Pending : x \notin ToSet(seen)
  BY <1>1 DEF IInv, Loop, TypeOK
<1>3. DOMAIN bkts = 0 .. Cap - 1 /\ a \in Nat /\ i \in Nat /\ Cap \in Nat \ {0}
  BY DEF IInv, Buckets, TypeOK
<1>4. k = bkts[a][i].key
  BY DEF Here
<1> HIDE DEF k
<1>5. /\ k \in Keys /\ Home(k, Cap) = a /\ Find(bkts[a], k) = i
      /\ \A c \in DOMAIN bkts : \A j \in DOMAIN bkts[c] :
           bkts[c][j].key = k => c = a /\ j = i
  BY <1>1, <1>4, KeyAt
<1>6. k \in Pending
  <2>1. a = a /\ i <= i
    BY <1>3
  <2> HIDE DEF a, i
  <2>2. \E c \in DOMAIN bkts : \E j \in DOMAIN bkts[c] :
          bkts[c][j].key = k /\ (a < c \/ (a = c /\ i <= j))
    BY <1>1, <1>4, <2>1
  <2> QED  BY <1>5, <2>2 DEF Pending, a, i
<1>7. /\ seen' \in Seq(Keys) /\ Distinct(seen') /\ ToSet(seen') = ToSet(seen) \cup {k}
  BY <1>1, <1>2, <1>5, <1>6, AppendSeen
<1>8. \A c \in DOMAIN bkts : \A j \in DOMAIN bkts[c] : c \in Int /\ j \in Int
  BY <1>3, InBucket DEF IInv, Buckets
<1>9. CASE UNCHANGED <<bkts, len, pop>>
  <2>1. bkts' = bkts /\ Cap' = Cap
    BY <1>9 DEF Cap
  <2>2. ASSUME NEW x \in Keys  PROVE x \in Pending' <=> x \in Pending /\ x # k
    <3>1. ASSUME NEW c \in DOMAIN bkts, NEW j \in DOMAIN bkts[c]
          PROVE  a < c \/ (a = c /\ i + 1 <= j)
                   <=> (a < c \/ (a = c /\ i <= j)) /\ ~(c = a /\ j = i)
      BY <1>3, <1>8
    <3>2. x \in Pending' <=> \E c \in DOMAIN bkts : \E j \in DOMAIN bkts[c] :
             bkts[c][j].key = x /\ (a < c \/ (a = c /\ i + 1 <= j))
      BY <1>1, <2>1 DEF Pending
    <3>3. x \in Pending <=> \E c \in DOMAIN bkts : \E j \in DOMAIN bkts[c] :
             bkts[c][j].key = x /\ (a < c \/ (a = c /\ i <= j))
      BY DEF Pending
    <3>4. \A c \in DOMAIN bkts : \A j \in DOMAIN bkts[c] :
             bkts[c][j].key = x => (c = a /\ j = i <=> x = k)
      BY <1>4, <1>5
    <3> HIDE DEF a, i
    <3> QED  BY <3>1, <3>2, <3>3, <3>4
  <2>3. Loop'
    <3>1. at'[1] \in 0 .. Cap' /\ at'[2] # 0
      BY <1>1, <1>3, <2>1
    <3>2. \A x \in Keys : x \in due' <=> x \in ToSet(seen') \/ x \in Pending'
      BY <1>1, <1>2, <1>6, <1>7, <2>2
    <3>3. \A x \in Pending' : x \in Keys /\ x \notin ToSet(seen')
      BY <1>2, <1>7, <2>2 DEF Pending
    <3> QED  BY <1>1, <1>7, <3>1, <3>2, <3>3 DEF Loop
  <2>4. TypeOK'
    <3>1. at' \in Nat \X Nat
      BY <1>1, <1>3
    <3> QED  BY <1>1, <1>7, <1>9, <2>1, <3>1 DEF IInv, TypeOK
  <2>5. Buckets(bkts', Cap') /\ Counts' /\ Cap' \in Nat \ {0}
    BY <1>9, <2>1 DEF IInv, Counts
  <2> QED  BY <1>5, <2>1, <2>3, <2>4, <2>5 DEF IInv, k
<1>10. CASE MayRemove(bkts[a]) /\ RemoveEntry(k)
  <2>1. RemoveDone(k)
    BY <1>5, <1>10, RemoveEntryDone
  <2>2. /\ Len(bkts[a]) = 1 /\ bkts[a] \in Seq(Entry) /\ OneEach(bkts[a])
    BY <1>1, <1>3, <1>10 DEF MayRemove, IInv, Buckets
  <2>3. i # 0 /\ bkts' = [bkts EXCEPT ![a] = RemoveAt(@, i)]
    <3>1. i # 0
      BY <1>1, <2>2, InBucket
    <3> QED  BY <1>5, <1>10, <3>1 DEF RemoveEntry
  <2>4. RemoveAt(bkts[a], i) = <<>>
    BY <1>1, <2>2, RemoveHolds
  <2>5. /\ DOMAIN bkts' = DOMAIN bkts /\ DOMAIN bkts'[a] = {}
        /\ \A c \in DOMAIN bkts : c # a => bkts'[c] = bkts[c]
    BY <1>1, <2>3, <2>4
  <2>6. ASSUME NEW x \in Keys  PROVE x \in Pending' <=> x \in Pending /\ x # k
    <3>1. ASSUME NEW c \in DOMAIN bkts, NEW j \in DOMAIN bkts[c]
          PROVE  a < c <=> (a < c \/ (a = c /\ i <= j)) /\ ~(c = a)
      BY <1>3, <1>8
    <3>2. \A c \in DOMAIN bkts : c = a => \A j \in DOMAIN bkts[c] : j = i
      <4>1. DOMAIN bkts[a] = 1 .. 1
        BY <2>2, InBucket
      <4> QED  BY <1>1, <4>1
    <3>3. x \in Pending' <=> \E c \in DOMAIN bkts' : \E j \in DOMAIN bkts'[c] :
             bkts'[c][j].key = x /\ (a < c \/ (a = c /\ i + 1 <= j))
      BY <1>1 DEF Pending
    <3>4. x \in Pending' <=> \E c \in DOMAIN bkts : \E j \in DOMAIN bkts[c] :
             bkts[c][j].key = x /\ a < c
      <4>1. \A c \in DOMAIN bkts : a < c => c # a
        BY <1>3
      <4> HIDE DEF a, i
      <4> QED  BY <2>5, <3>3, <4>1
    <3>5. x \in Pending <=> \E c \in DOMAIN bkts : \E j \in DOMAIN bkts[c] :
             bkts[c][j].key = x /\ (a < c \/ (a = c /\ i <= j))
      BY DEF Pending
    <3>6. \A c \in DOMAIN bkts : \A j \in DOMAIN bkts[c] :
             bkts[c][j].key = x => (c = a <=> x = k)
      BY <1>4, <1>5, <3>2
    <3> HIDE DEF a, i
    <3> QED  BY <3>1, <3>4, <3>5, <3>6
  <2>7. Loop'
    <3>1. at'[1] \in 0 .. Cap' /\ at'[2] # 0
      BY <1>1, <1>3, <2>1 DEF RemoveDone
    <3>2. \A x \in Keys : x \in due' <=> x \in ToSet(seen') \/ x \in Pending'
      BY <1>1, <1>2, <1>6, <1>7, <2>6
    <3>3. \A x \in Pending' : x \in Keys /\ x \notin ToSet(seen')
      BY <1>2, <1>7, <2>6 DEF Pending
    <3> QED  BY <1>1, <1>7, <3>1, <3>2, <3>3 DEF Loop
  <2>8. TypeOK'
    <3>1. at' \in Nat \X Nat
      BY <1>1, <1>3
    <3>2. bkts' \in [0 .. Cap' - 1 -> Seq(Entry)]
      BY <2>1 DEF RemoveDone, Buckets
    <3>3. {alen', len', pop'} \subseteq Nat
      BY <1>1, <2>1 DEF RemoveDone, IInv, TypeOK
    <3> QED  BY <1>1, <1>7, <3>1, <3>2, <3>3 DEF IInv, TypeOK
  <2>9. Buckets(bkts', Cap') /\ Counts' /\ Cap' \in Nat \ {0}
    BY <1>3, <2>1 DEF RemoveDone
  <2> QED  BY <1>5, <2>1, <2>7, <2>8, <2>9 DEF IInv, k
<1> QED  BY <1>1, <1>9, <1>10

LEMMA NextBucketStep ==
  ASSUME IInv, NextBucket
  PROVE  IInv'
<1> DEFINE a == at[1]
           i == at[2]
<1>1. /\ loop = "in" /\ a \in DOMAIN bkts /\ i \notin DOMAIN bkts[a]
      /\ at' = <<a + 1, 1>>
      /\ UNCHANGED <<bkts, alen, len, pop, loop, due, seen>>
  BY DEF NextBucket
<1>2. /\ DOMAIN bkts = 0 .. Cap - 1 /\ a \in 0 .. Cap - 1 /\ i \in Nat \ {0}
      /\ Cap \in Nat \ {0} /\ Cap' = Cap
  BY <1>1 DEF IInv, Buckets, TypeOK, Loop, Cap
<1>3. ASSUME NEW c \in DOMAIN bkts, NEW j \in DOMAIN bkts[c]
      PROVE  a + 1 < c \/ (a + 1 = c /\ 1 <= j) <=> a < c \/ (a = c /\ i <= j)
  <2>1. c \in 0 .. Cap - 1 /\ bkts[c] \in Seq(Entry)
    BY <1>2 DEF IInv, Buckets
  <2>2. j \in 1 .. Len(bkts[c]) /\ Len(bkts[c]) \in Nat
    BY <2>1, InBucket
  <2>3. a = c => ~(i <= j)
    BY <1>1, <1>2, <2>1, <2>2, InBucket
  <2> HIDE DEF a, i
  <2> QED  BY <1>2, <2>1, <2>2, <2>3
<1>4. Pending' = Pending
  <2>1. \A k \in Keys : k \in Pending' <=> \E c \in DOMAIN bkts : \E j \in DOMAIN bkts[c] :
          bkts[c][j].key = k /\ (a + 1 < c \/ (a + 1 = c /\ 1 <= j))
    BY <1>1 DEF Pending
  <2>2. \A k \in Keys : k \in Pending <=> \E c \in DOMAIN bkts : \E j \in DOMAIN bkts[c] :
          bkts[c][j].key = k /\ (a < c \/ (a = c /\ i <= j))
    BY DEF Pending
  <2>3. Pending \subseteq Keys /\ Pending' \subseteq Keys
    BY DEF Pending
  <2> HIDE DEF a, i
  <2> QED  BY <1>3, <2>1, <2>2, <2>3
<1>5. at'[1] \in 0 .. Cap' /\ at'[2] # 0 /\ at' \in Nat \X Nat
  BY <1>1, <1>2
<1>6. Loop'
  BY <1>1, <1>4, <1>5 DEF Loop, IInv
<1>7. TypeOK'
  BY <1>1, <1>2, <1>5 DEF TypeOK, IInv
<1> QED  BY <1>1, <1>2, <1>6, <1>7 DEF IInv, Counts

LEMMA EndStep ==
  ASSUME IInv, End
  PROVE  IInv'
<1>1. Cap' = Cap
  BY DEF End, Cap
<1>2. TypeOK'
  <2>1. at' \in Nat \X Nat /\ seen' \in Seq(Keys) /\ due' \subseteq Keys
    BY DEF End
  <2> QED  BY <1>1, <2>1 DEF End, IInv, TypeOK
<1>3. Loop'
  BY DEF End, Loop
<1> QED  BY <1>1, <1>2, <1>3 DEF End, IInv, Counts

LEMMA ReadFreedStep ==
  ASSUME IInv, ReadFreed
  PROVE  IInv'
<1>1. Cap' = Cap
  BY DEF ReadFreed, Cap
<1> QED  BY <1>1 DEF ReadFreed, IInv, TypeOK, Loop, Counts

LEMMA StutterStep ==
  ASSUME IInv, UNCHANGED vars
  PROVE  IInv'
<1>1. Cap' = Cap /\ Pending' = Pending
  BY DEF vars, Cap, Pending
<1> QED  BY <1>1 DEF vars, IInv, TypeOK, Loop, Counts

THEOREM Inductive == Spec => []IInv
<1>1. IInv /\ [Next]_vars => IInv'
  <2> SUFFICES ASSUME IInv, [Next]_vars  PROVE IInv'
    OBVIOUS
  <2>1. ASSUME NEW k \in Keys, Delete(k)  PROVE IInv'
    BY <2>1, DeleteDone
  <2>2. ASSUME NEW k \in Keys, NEW v \in Values, Set(k, v)  PROVE IInv'
    BY <2>2, SetDone
  <2> QED  BY <2>1, <2>2, BeginStep, VisitStep, NextBucketStep, EndStep,
              ReadFreedStep, StutterStep DEF Next
<1> QED  BY InitHolds, <1>1, PTL DEF Spec

(***************************************************************************)
(* The theorems                                                            *)
(***************************************************************************)

(* Types: for every hash, no index leaves its array.                       *)
THEOREM TypeCorrect == Spec => []TypeOK
<1>1. IInv => TypeOK
  BY DEF IInv
<1> QED  BY Inductive, <1>1, PTL

(* Entries and the places they are at are as many.                         *)
LEMMA OnePlaceEach ==
  ASSUME IInv
  PROVE  Cardinality(Entries) = Cardinality(Held(bkts))
<1> DEFINE entry == [p \in Entries |-> bkts[p[1]][p[2]]]
<1>1. \A p \in Entries : /\ p[1] \in DOMAIN bkts /\ p[2] \in DOMAIN bkts[p[1]]
                         /\ p = <<p[1], p[2]>>
  BY DEF Entries
<1>2. \A b \in DOMAIN bkts : \A i \in DOMAIN bkts[b] :
        /\ <<b, i>> \in Entries /\ bkts[b][i] \in Held(bkts)
  BY DEF Entries, Held, HeldBy
<1>3. entry \in [Entries -> Held(bkts)]
  BY <1>1, <1>2
<1>4. ASSUME NEW p \in Entries, NEW q \in Entries, entry[p] = entry[q]
      PROVE  p = q
  <2>1. bkts[p[1]][p[2]].key = bkts[q[1]][q[2]].key
    BY <1>4
  <2>2. p[1] = q[1] /\ p[2] = q[2]
    BY <1>1, <2>1, KeyAt
  <2> QED  BY <1>1, <2>2
<1>5. ASSUME NEW e \in Held(bkts)  PROVE \E p \in Entries : entry[p] = e
  <2>1. PICK b \in DOMAIN bkts : \E i \in DOMAIN bkts[b] : bkts[b][i] = e
    BY DEF Held, HeldBy
  <2>2. PICK i \in DOMAIN bkts[b] : bkts[b][i] = e
    BY <2>1
  <2>3. <<b, i>> \in Entries /\ entry[<<b, i>>] = e
    BY <1>2, <2>2
  <2> QED  BY <2>3
<1> HIDE DEF entry
<1>6. entry \in Injection(Entries, Held(bkts))
  BY <1>3, <1>4 DEF Injection, IsInjective
<1>7. entry \in Surjection(Entries, Held(bkts))
  BY <1>3, <1>5 DEF Surjection
<1>8. IsFiniteSet(Held(bkts))
  BY DEF IInv, Counts
<1> QED  BY <1>6, <1>7, <1>8, FS_Injection

(* len is the number of entries and pop_bkts the number of populated       *)
(* buckets, after whatever was put, replaced, re-hashed and removed.       *)
THEOREM CountersExact == Spec => []CountsExact
<1>1. IInv => CountsExact
  BY OnePlaceEach DEF IInv, Counts, CountsExact
<1> QED  BY Inductive, <1>1, PTL

(* Every entry is where ac_map_get looks for it, and alone with its key.   *)
THEOREM EntriesHoused == Spec => []Housed
<1>1. IInv => Housed
  BY KeyAt DEF Housed
<1> QED  BY Inductive, <1>1, PTL

(* A loop visits, once each, the entries there were when it began.         *)
THEOREM LoopVisitsAllOnce == Spec => []VisitsAllOnce
<1>1. IInv => VisitsAllOnce
  <2> SUFFICES ASSUME IInv, loop = "in", at[1] = Cap
               PROVE  ToSet(seen) = due /\ Len(seen) = Cardinality(due)
    BY DEF VisitsAllOnce
  <2>1. /\ seen \in Seq(Keys) /\ due \subseteq Keys /\ Distinct(seen)
        /\ \A k \in Keys : k \in due <=> k \in ToSet(seen) \/ k \in Pending
    BY DEF IInv, TypeOK, Loop
  <2>2. DOMAIN bkts = 0 .. Cap - 1 /\ Cap \in Nat
    BY DEF IInv, Buckets
  <2>3. Pending = {}
    BY <2>2 DEF Pending
  <2>4. DOMAIN seen = 1 .. Len(seen) /\ Len(seen) \in Nat /\ ToSet(seen) \subseteq Keys
    BY <2>1, LenProperties, ElementOfSeq DEF ToSet
  <2>5. ToSet(seen) = due
    BY <2>1, <2>3, <2>4
  <2>6. seen \in [1 .. Len(seen) -> due]
    BY <2>1, <2>4, <2>5 DEF ToSet
  <2>7. seen \in Injection(1 .. Len(seen), due)
    BY <2>1, <2>4, <2>6 DEF Distinct, Injection, IsInjective
  <2>8. seen \in Surjection(1 .. Len(seen), due)
    BY <2>4, <2>5, <2>6 DEF ToSet, Surjection
  <2>9. Cardinality(1 .. Len(seen)) = Len(seen) /\ IsFiniteSet(1 .. Len(seen))
    <3> DEFINE n == Len(seen)
    <3>1. n \in Nat
      BY <2>4
    <3> HIDE DEF n
    <3>2. Cardinality(1 .. n) = n /\ IsFiniteSet(1 .. n)
      BY <3>1, FS_Interval
    <3> QED  BY <3>2 DEF n
  <2>10. Cardinality(due) = Cardinality(1 .. Len(seen))
    BY <2>7, <2>8, <2>9, FS_Surjection
  <2> QED  BY <2>5, <2>9, <2>10
<1> QED  BY Inductive, <1>1, PTL

-----------------------------------------------------------------------------
(* The dictionary.                                                         *)

dict == [k \in Keys |-> Lookup(k)]

LEMMA DictIs ==
  /\ \A k \in Keys : dict[k] = LookupIn(bkts, k) /\ dict'[k] = LookupIn(bkts', k)
  /\ DOMAIN dict = Keys /\ DOMAIN dict' = Keys
  /\ dict = [k \in Keys |-> dict[k]] /\ dict' = [k \in Keys |-> dict'[k]]
BY DEF dict, Lookup, LookupIn, Cap

LEMMA Puts ==
  ASSUME IInv, NEW k \in Keys, NEW v \in Values,
         IInv', PutDone(bkts, Cap', k, v)
  PROVE  dict' = [dict EXCEPT ![k] = v]
<1>1. /\ Cap \in Nat \ {0} /\ Buckets(bkts, Cap)
      /\ Cap' \in Nat \ {0} /\ Buckets(bkts', Cap')
      /\ \A e : e \in Held(bkts')
                 <=> (e \in Held(bkts) /\ e.key # k) \/ e = [key |-> k, val |-> v]
  BY DEF IInv, PutDone
<1>2. LookupIn(bkts', k) = v
  <2>1. [key |-> k, val |-> v] \in Held(bkts')
    BY <1>1
  <2> QED  BY <1>1, <2>1, LookupIs
<1>3. ASSUME NEW j \in Keys, j # k
      PROVE  LookupIn(bkts', j) = LookupIn(bkts, j)
  <2>1. CASE j \in KeysOf(Held(bkts))
    <3>1. PICK e \in Held(bkts) : e.key = j
      BY <2>1 DEF KeysOf
    <3>2. e \in Held(bkts')
      BY <1>1, <1>3, <3>1
    <3>3. LookupIn(bkts, j) = e.val
      BY <1>1, <3>1, LookupIs
    <3>4. LookupIn(bkts', j) = e.val
      BY <1>1, <3>1, <3>2, LookupIs
    <3> QED  BY <3>3, <3>4
  <2>2. CASE j \notin KeysOf(Held(bkts))
    <3>1. j \notin KeysOf(Held(bkts'))
      BY <1>1, <1>3, <2>2 DEF KeysOf
    <3>2. LookupIn(bkts, j) = Absent
      BY <1>1, <2>2, LookupIs
    <3>3. LookupIn(bkts', j) = Absent
      BY <1>1, <3>1, LookupIs
    <3> QED  BY <3>2, <3>3
  <2> QED  BY <2>1, <2>2
<1> QED  BY <1>2, <1>3, DictIs

LEMMA Deletes ==
  ASSUME IInv, NEW k \in Keys, IInv', RemoveDone(k)
  PROVE  dict' = [dict EXCEPT ![k] = Absent]
<1>1. /\ Cap \in Nat \ {0} /\ Buckets(bkts, Cap)
      /\ Cap' \in Nat \ {0} /\ Buckets(bkts', Cap')
      /\ \A e : e \in Held(bkts') <=> e \in Held(bkts) /\ e.key # k
  BY DEF IInv, RemoveDone
<1>2. LookupIn(bkts', k) = Absent
  <2>1. k \notin KeysOf(Held(bkts'))
    BY <1>1 DEF KeysOf
  <2> QED  BY <1>1, <2>1, LookupIs
<1>3. ASSUME NEW j \in Keys, j # k
      PROVE  LookupIn(bkts', j) = LookupIn(bkts, j)
  <2>1. CASE j \in KeysOf(Held(bkts))
    <3>1. PICK e \in Held(bkts) : e.key = j
      BY <2>1 DEF KeysOf
    <3>2. e \in Held(bkts')
      BY <1>1, <1>3, <3>1
    <3>3. LookupIn(bkts, j) = e.val
      BY <1>1, <3>1, LookupIs
    <3>4. LookupIn(bkts', j) = e.val
      BY <1>1, <3>1, <3>2, LookupIs
    <3> QED  BY <3>3, <3>4
  <2>2. CASE j \notin KeysOf(Held(bkts))
    <3>1. j \notin KeysOf(Held(bkts'))
      BY <1>1, <1>3, <2>2 DEF KeysOf
    <3>2. LookupIn(bkts, j) = Absent
      BY <1>1, <2>2, LookupIs
    <3>3. LookupIn(bkts', j) = Absent
      BY <1>1, <3>1, LookupIs
    <3> QED  BY <3>2, <3>3
  <2> QED  BY <2>1, <2>2
<1> QED  BY <1>2, <1>3, DictIs

LEMMA Keeps ==
  ASSUME bkts' = bkts  PROVE dict' = dict
BY DictIs DEF dict, Lookup, Cap

(* What is put is found until it is removed or replaced, whatever the hash *)
(* function, through collisions and growth: every step of the map is one   *)
(* of a dictionary, or changes nothing.                                    *)
THEOREM ImplementsDictionary == Spec => IsDictionary
<1>1. Init => Dictionary!Init
  <2> SUFFICES ASSUME Init  PROVE dict = [k \in Keys |-> Absent]
    BY DEF Dictionary!Init, dict
  <2>1. IInv /\ Held(bkts) = {}
    <3>1. \A b \in DOMAIN bkts : bkts[b] = <<>>
      BY DEF Init
    <3> QED  BY <3>1, InitHolds DEF Held, HeldBy
  <2>2. ASSUME NEW k \in Keys  PROVE LookupIn(bkts, k) = Absent
    BY <2>1, LookupIs DEF IInv, KeysOf
  <2> QED  BY <2>2, DictIs
<1>2. IInv /\ IInv' /\ [Next]_vars => [Dictionary!Next]_dict
  <2> SUFFICES ASSUME IInv, IInv', [Next]_vars
               PROVE  \/ \E k \in Keys : \/ dict' = [dict EXCEPT ![k] = Absent]
                                        \/ \E v \in Values : dict' = [dict EXCEPT ![k] = v]
                      \/ dict' = dict
    BY DEF Dictionary!Next, Dictionary!Delete, Dictionary!Put, dict
  <2>1. ASSUME NEW k \in Keys, Delete(k)  PROVE dict' = [dict EXCEPT ![k] = Absent]
    BY <2>1, DeleteDone, Deletes
  <2>2. ASSUME NEW k \in Keys, NEW v \in Values, Set(k, v)
        PROVE  dict' = [dict EXCEPT ![k] = v]
    BY <2>2, SetDone, Puts
  <2>3. CASE Visit
    <3>1. Here \in Keys /\ (bkts' = bkts \/ RemoveDone(Here))
      BY <2>3, VisitStep
    <3> QED  BY <3>1, Keeps, Deletes
  <2>4. CASE Begin \/ NextBucket \/ End \/ ReadFreed \/ UNCHANGED vars
    <3>1. bkts' = bkts
      BY <2>4 DEF Begin, NextBucket, End, ReadFreed, vars
    <3> QED  BY <3>1, Keeps
  <2> QED  BY <2>1, <2>2, <2>3, <2>4 DEF Next
<1>3. dict = [k \in Keys |-> Lookup(k)]
  BY DEF dict
<1> QED  BY Inductive, <1>1, <1>2, <1>3, PTL DEF Spec, IsDictionary, Dictionary!Spec, dict

=============================================================================
