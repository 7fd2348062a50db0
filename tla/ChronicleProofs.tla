-------------------------- MODULE ChronicleProofs --------------------------
(***************************************************************************)
(* Proof that everyone sees the conversation in one order, with nothing    *)
(* missing: of each step, what it does to what a user reads, and to the    *)
(* record.                                                                 *)
(***************************************************************************)
EXTENDS StreamProofs, Chronicle

(* Positions, and how many of them come before one.                        *)
LEMMA OnePositionMore ==
  ASSUME NEW n \in Nat, NEW S \in SUBSET (1 .. n)
  PROVE  /\ IsFiniteSet(S) /\ Cardinality(S) \in Nat
         /\ Cardinality(S \cup {n + 1}) = Cardinality(S) + 1
         /\ Nth(S \cup {n + 1}, n + 1) = Cardinality(S) + 1
         /\ \A x \in 1 .. n : Nth(S \cup {n + 1}, x) = Nth(S, x)
<1>0. \A j \in S : j \in 1 .. n
  OBVIOUS
<1>1. IsFiniteSet(S) /\ n + 1 \notin S
  <2>1. IsFiniteSet(1 .. n)
    BY FS_Interval
  <2>2. IsFiniteSet(S)
    BY <2>1, FS_Subset
  <2> QED  BY <1>0, <2>2
<1>2. Cardinality(S) \in Nat /\ Cardinality(S \cup {n + 1}) = Cardinality(S) + 1
  BY <1>1, FS_CardinalityType, FS_AddElement
<1>3. {j \in S \cup {n + 1} : j <= n + 1} = S \cup {n + 1}
  <2>1. \A j \in S \cup {n + 1} : j <= n + 1
    BY <1>0
  <2> QED  BY <2>1
<1>4. ASSUME NEW x \in 1 .. n  PROVE Nth(S \cup {n + 1}, x) = Nth(S, x)
  <2>1. {j \in S \cup {n + 1} : j <= x} = {j \in S : j <= x}
    OBVIOUS
  <2> QED  BY <2>1 DEF Nth
<1> QED  BY <1>1, <1>2, <1>3, <1>4 DEF Nth

-----------------------------------------------------------------------------
(* What is read of the conversation does not change: t has of it what s    *)
(* has, at the same places of its order.                                   *)
Talk(m) == m.kind \in {"you", "said"}

ReadAlike(s, t) ==
  \A i \in Read(t) :
    \E k \in Read(s) : t[i] = s[k] /\ Nth(Read(t), i) = Nth(Read(s), k)

Mute(s, t) == ReadAlike(s, t) /\ Cardinality(Read(t)) = Cardinality(Read(s))

LEMMA ReadMore ==
  ASSUME NEW s \in Seq(Msg), NEW m \in Msg
  PROVE  /\ Read(s) \in SUBSET (1 .. Len(s))
         /\ Talk(m) => Read(s \o <<m>>) = Read(s) \cup {Len(s) + 1}
         /\ ~Talk(m) => Read(s \o <<m>>) = Read(s)
<1>1. PICK t : t = s \o <<m>>
  OBVIOUS
<1>2. /\ DOMAIN s = 1 .. Len(s) /\ DOMAIN t = 1 .. Len(s) + 1 /\ Len(s) \in Nat
      /\ t[Len(s) + 1] = m /\ \A k \in 1 .. Len(s) : t[k] = s[k]
  BY <1>1, OneMore
<1>3. Read(s) \in SUBSET (1 .. Len(s))
  BY <1>2 DEF Read
<1>4. Talk(m) => Read(t) = Read(s) \cup {Len(s) + 1}
  BY <1>2 DEF Read, Talk
<1>5. ~Talk(m) => Read(t) = Read(s)
  BY <1>2 DEF Read, Talk
<1> QED  BY <1>1, <1>3, <1>4, <1>5

LEMMA MuteSame ==
  ASSUME NEW s
  PROVE  Mute(s, s)
BY DEF Mute, ReadAlike

LEMMA MuteMore ==
  ASSUME NEW s \in Seq(Msg), NEW p, NEW people, NEW m \in Msg, ~Talk(m)
  PROVE  Mute(s, s \o For(p, people, m)) /\ s \o For(p, people, m) \in Seq(Msg)
<1>1. CASE p \in people
  <2>1. PICK t : t = s \o <<m>>
    OBVIOUS
  <2>2. t \in Seq(Msg) /\ \A k \in 1 .. Len(s) : t[k] = s[k]
    BY <2>1, OneMore
  <2>3. Read(t) = Read(s) /\ Read(s) \in SUBSET (1 .. Len(s))
    BY <2>1, ReadMore
  <2>4. Mute(s, t)
    BY <2>2, <2>3 DEF Mute, ReadAlike
  <2> QED  BY <1>1, <2>1, <2>2, <2>4 DEF For
<1>2. CASE p \notin people
  <2>1. s \o For(p, people, m) = s
    BY <1>2, ConcatEmptySeq DEF For
  <2> QED  BY <2>1, MuteSame
<1> QED  BY <1>1, <1>2

LEMMA MuteTwice ==
  ASSUME NEW s, NEW t, NEW w, Mute(s, t), Mute(t, w)
  PROVE  Mute(s, w)
<1>1. Cardinality(Read(w)) = Cardinality(Read(s))
  BY DEF Mute
<1>2. ASSUME NEW i \in Read(w)
      PROVE  \E k \in Read(s) : w[i] = s[k] /\ Nth(Read(w), i) = Nth(Read(s), k)
  <2>1. PICK j \in Read(t) : w[i] = t[j] /\ Nth(Read(w), i) = Nth(Read(t), j)
    BY DEF Mute, ReadAlike
  <2>2. PICK k \in Read(s) : t[j] = s[k] /\ Nth(Read(t), j) = Nth(Read(s), k)
    BY DEF Mute, ReadAlike
  <2> QED  BY <2>1, <2>2
<1> QED  BY <1>1, <1>2 DEF Mute, ReadAlike

(* A stream cut short says less, but nothing else.                         *)
LEMMA BeginsAlike ==
  ASSUME NEW s, NEW t, Begins(t, s)
  PROVE  ReadAlike(s, t)
<1>1. /\ DOMAIN s = 1 .. Len(s) /\ DOMAIN t = 1 .. Len(t) /\ Len(s) \in Nat
      /\ Len(t) \in Nat /\ Len(t) <= Len(s) /\ \A k \in 1 .. Len(t) : t[k] = s[k]
  BY LenProperties DEF Begins
<1>2. ASSUME NEW i \in Read(t)
      PROVE  i \in Read(s) /\ t[i] = s[i] /\ Nth(Read(t), i) = Nth(Read(s), i)
  <2>1. i \in 1 .. Len(t) /\ i \in Read(s) /\ t[i] = s[i]
    BY <1>1 DEF Read
  <2>2. {j \in Read(t) : j <= i} = {j \in Read(s) : j <= i}
    BY <1>1, <2>1 DEF Read
  <2> QED  BY <2>1, <2>2 DEF Nth
<1> QED  BY <1>2 DEF ReadAlike

(* A goodbye in between changes the positions, but not their order.        *)
LEMMA SameNumber ==
  ASSUME NEW s, NEW t, NEW a, Inserted(s, t, a),
         NEW S \in SUBSET DOMAIN s, NEW T \in SUBSET DOMAIN t,
         \A j \in S : Up(a, j) \in T,
         \A j \in T : j # a + 1 /\ Down(a, j) \in S
  PROVE  Cardinality(T) = Cardinality(S)
<1>1. /\ DOMAIN s = 1 .. Len(s) /\ DOMAIN t = 1 .. Len(s) + 1 /\ Len(s) \in Nat
      /\ a \in 0 .. Len(s)
  BY InsertedAt DEF Inserted
<1> DEFINE f == [j \in S |-> Up(a, j)]
<1>2. f \in [S -> T]
  OBVIOUS
<1>3. \A i, j \in S : f[i] = f[j] => i = j
  BY <1>1 DEF Up
<1>4. \A j \in T : Down(a, j) \in S /\ f[Down(a, j)] = j
  BY <1>1 DEF Up, Down
<1>5. f \in Bijection(S, T)
  <2>1. f \in Injection(S, T)
    BY <1>2, <1>3 DEF Injection, IsInjective
  <2>2. f \in Surjection(S, T)
    BY <1>2, <1>4 DEF Surjection
  <2> QED  BY <2>1, <2>2 DEF Bijection
<1>6. IsFiniteSet(S)
  <2>1. IsFiniteSet(DOMAIN s)
    BY <1>1, FS_Interval
  <2> QED  BY <2>1, FS_Subset
<1>7. ExistsBijection(S, T)
  BY <1>5 DEF ExistsBijection
<1> QED  BY <1>6, <1>7, FS_Bijection

LEMMA InsertedMute ==
  ASSUME NEW s, NEW t, NEW a, Inserted(s, t, a)
  PROVE  Mute(s, t)
<1>1. /\ DOMAIN s = 1 .. Len(s) /\ DOMAIN t = 1 .. Len(s) + 1 /\ Len(s) \in Nat
      /\ a \in 0 .. Len(s) /\ t[a + 1].kind = "goodbye"
      /\ \A k \in DOMAIN s : Up(a, k) \in DOMAIN t /\ t[Up(a, k)] = s[k]
      /\ \A k \in DOMAIN t : k # a + 1 =>
           Down(a, k) \in DOMAIN s /\ s[Down(a, k)] = t[k]
  BY InsertedAt DEF Inserted
<1>2. Read(s) \in SUBSET DOMAIN s /\ Read(t) \in SUBSET DOMAIN t
  BY DEF Read
<1>3. \A j \in Read(s) : Up(a, j) \in Read(t)
  BY <1>1 DEF Read
<1>4. \A j \in Read(t) : /\ j # a + 1 /\ Down(a, j) \in Read(s)
                         /\ s[Down(a, j)] = t[j]
  BY <1>1 DEF Read
<1>5. Cardinality(Read(t)) = Cardinality(Read(s))
  BY <1>2, <1>3, <1>4, SameNumber
<1>6. ASSUME NEW i \in Read(t)
      PROVE  Nth(Read(t), i) = Nth(Read(s), Down(a, i))
  <2> DEFINE S == {j \in Read(s) : j <= Down(a, i)}
             T == {j \in Read(t) : j <= i}
  <2>1. S \in SUBSET DOMAIN s /\ T \in SUBSET DOMAIN t
    BY <1>2
  <2>2. i \in DOMAIN t /\ i # a + 1
    BY <1>2, <1>4
  <2>3. \A j \in S : Up(a, j) \in T
    <3> SUFFICES ASSUME NEW j \in S  PROVE Up(a, j) <= i
      BY <1>3
    <3>1. j \in 1 .. Len(s) /\ j <= Down(a, i)
      BY <1>1, <2>1
    <3> QED  BY <1>1, <2>2, <3>1 DEF Up, Down
  <2>4. \A j \in T : j # a + 1 /\ Down(a, j) \in S
    <3> SUFFICES ASSUME NEW j \in T  PROVE Down(a, j) <= Down(a, i)
      BY <1>4
    <3>1. j \in 1 .. Len(s) + 1 /\ j <= i /\ j # a + 1
      BY <1>1, <1>4, <2>1
    <3> QED  BY <1>1, <2>2, <3>1 DEF Down
  <2>5. Cardinality(T) = Cardinality(S)
    <3> HIDE DEF S, T
    <3> QED  BY <2>1, <2>3, <2>4, SameNumber
  <2> QED  BY <2>5 DEF Nth
<1> QED  BY <1>4, <1>5, <1>6 DEF Mute, ReadAlike


-----------------------------------------------------------------------------
(* A user and the record.                                                  *)
Record == [speaker : Peers, name : Names, body : Words, audience : SUBSET Peers]

Attends(p, l) == {x \in DOMAIN l : p \in l[x].audience}

InStep(s, l, p) ==
  \A i \in Read(s) :
    \E x \in Attends(p, l) :
      s[i] = Reads(p, l[x]) /\ Nth(Read(s), i) = Nth(Attends(p, l), x)

LEMMA AlikeInStep ==
  ASSUME NEW s, NEW t, NEW l, NEW p, InStep(s, l, p), ReadAlike(s, t)
  PROVE  InStep(t, l, p)
<1> SUFFICES ASSUME NEW i \in Read(t)
             PROVE  \E x \in Attends(p, l) :
                      t[i] = Reads(p, l[x]) /\ Nth(Read(t), i) = Nth(Attends(p, l), x)
  BY DEF InStep
<1>1. PICK k \in Read(s) : t[i] = s[k] /\ Nth(Read(t), i) = Nth(Read(s), k)
  BY DEF ReadAlike
<1>2. PICK x \in Attends(p, l) :
        s[k] = Reads(p, l[x]) /\ Nth(Read(s), k) = Nth(Attends(p, l), x)
  BY DEF InStep
<1> QED  BY <1>1, <1>2

LEMMA OneEntryMore ==
  ASSUME NEW l \in Seq(Record), NEW e \in Record, NEW p
  PROVE  /\ Append(l, e) \in Seq(Record) /\ Len(l) \in Nat
         /\ Attends(p, l) \in SUBSET (1 .. Len(l))
         /\ Append(l, e)[Len(l) + 1] = e /\ \A x \in 1 .. Len(l) : Append(l, e)[x] = l[x]
         /\ p \in e.audience => Attends(p, Append(l, e)) = Attends(p, l) \cup {Len(l) + 1}
         /\ p \notin e.audience => Attends(p, Append(l, e)) = Attends(p, l)
<1>1. PICK k : k = Append(l, e)
  OBVIOUS
<1>2. /\ k \in Seq(Record) /\ Len(k) = Len(l) + 1 /\ Len(l) \in Nat
      /\ k[Len(l) + 1] = e /\ \A x \in 1 .. Len(l) : k[x] = l[x]
  BY <1>1, AppendProperties, LenProperties
<1>3. DOMAIN l = 1 .. Len(l) /\ DOMAIN k = 1 .. Len(l) + 1
  BY <1>2, LenProperties
<1>4. Attends(p, l) \in SUBSET (1 .. Len(l))
  BY <1>3 DEF Attends
<1>5. p \in e.audience => Attends(p, k) = Attends(p, l) \cup {Len(l) + 1}
  BY <1>2, <1>3 DEF Attends
<1>6. p \notin e.audience => Attends(p, k) = Attends(p, l)
  BY <1>2, <1>3 DEF Attends
<1> QED  BY <1>1, <1>2, <1>4, <1>5, <1>6

(* Who is not there reads nothing of it; who is, reads it in its turn.     *)
LEMMA AbsentInStep ==
  ASSUME NEW s, NEW l \in Seq(Record), NEW e \in Record, NEW p, p \notin e.audience,
         InStep(s, l, p)
  PROVE  InStep(s, Append(l, e), p)
<1>1. PICK k : k = Append(l, e)
  OBVIOUS
<1>2. /\ Attends(p, k) = Attends(p, l)
      /\ \A x \in Attends(p, l) : k[x] = l[x]
  BY <1>1, OneEntryMore
<1>3. InStep(s, k, p)
  BY <1>2 DEF InStep
<1> QED  BY <1>1, <1>3

LEMMA PresentInStep ==
  ASSUME NEW s \in Seq(Msg), NEW l \in Seq(Record), NEW e \in Record, NEW p,
         p \in e.audience, InStep(s, l, p),
         Cardinality(Read(s)) = Cardinality(Attends(p, l)),
         NEW m \in Msg, m = Reads(p, e), Talk(m)
  PROVE  /\ InStep(s \o <<m>>, Append(l, e), p)
         /\ Cardinality(Read(s \o <<m>>)) = Cardinality(Attends(p, Append(l, e)))
<1>1. PICK t, k, n, o : t = s \o <<m>> /\ k = Append(l, e) /\ n = Len(s) /\ o = Len(l)
  OBVIOUS
<1>2. /\ n \in Nat /\ t[n + 1] = m /\ \A i \in 1 .. n : t[i] = s[i]
      /\ Read(s) \in SUBSET (1 .. n) /\ Read(t) = Read(s) \cup {n + 1}
  BY <1>1, OneMore, ReadMore
<1>3. /\ o \in Nat /\ k[o + 1] = e /\ \A x \in 1 .. o : k[x] = l[x]
      /\ Attends(p, l) \in SUBSET (1 .. o)
      /\ Attends(p, k) = Attends(p, l) \cup {o + 1}
  BY <1>1, OneEntryMore
<1>4. /\ Cardinality(Read(t)) = Cardinality(Read(s)) + 1
      /\ Nth(Read(t), n + 1) = Cardinality(Read(s)) + 1
      /\ \A i \in 1 .. n : Nth(Read(t), i) = Nth(Read(s), i)
  <2>1. PICK S : S = Read(s)
    OBVIOUS
  <2>2. n \in Nat /\ S \in SUBSET (1 .. n)
    BY <1>2, <2>1
  <2>3. /\ Cardinality(S \cup {n + 1}) = Cardinality(S) + 1
        /\ Nth(S \cup {n + 1}, n + 1) = Cardinality(S) + 1
        /\ \A i \in 1 .. n : Nth(S \cup {n + 1}, i) = Nth(S, i)
    BY <2>2, OnePositionMore
  <2>4. Read(t) = S \cup {n + 1}
    BY <1>2, <2>1
  <2> QED  BY <2>1, <2>3, <2>4
<1>5. /\ Cardinality(Attends(p, k)) = Cardinality(Attends(p, l)) + 1
      /\ Nth(Attends(p, k), o + 1) = Cardinality(Attends(p, l)) + 1
      /\ \A x \in 1 .. o : Nth(Attends(p, k), x) = Nth(Attends(p, l), x)
  <2>1. PICK H : H = Attends(p, l)
    OBVIOUS
  <2>2. o \in Nat /\ H \in SUBSET (1 .. o)
    BY <1>3, <2>1
  <2>3. /\ Cardinality(H \cup {o + 1}) = Cardinality(H) + 1
        /\ Nth(H \cup {o + 1}, o + 1) = Cardinality(H) + 1
        /\ \A x \in 1 .. o : Nth(H \cup {o + 1}, x) = Nth(H, x)
    BY <2>2, OnePositionMore
  <2>4. Attends(p, k) = H \cup {o + 1}
    BY <1>3, <2>1
  <2> QED  BY <2>1, <2>3, <2>4
<1>6. ASSUME NEW i \in Read(t)
      PROVE  \E x \in Attends(p, k) :
               t[i] = Reads(p, k[x]) /\ Nth(Read(t), i) = Nth(Attends(p, k), x)
  <2>1. CASE i = n + 1
    <3>1. o + 1 \in Attends(p, k) /\ t[i] = Reads(p, k[o + 1])
      BY <1>2, <1>3, <2>1
    <3>2. Nth(Read(t), i) = Nth(Attends(p, k), o + 1)
      BY <1>4, <1>5, <2>1
    <3> QED  BY <3>1, <3>2
  <2>2. CASE i # n + 1
    <3>1. i \in Read(s) /\ i \in 1 .. n
      BY <1>2, <2>2
    <3>2. PICK x \in Attends(p, l) :
            s[i] = Reads(p, l[x]) /\ Nth(Read(s), i) = Nth(Attends(p, l), x)
      BY <3>1 DEF InStep
    <3>3. x \in Attends(p, k) /\ x \in 1 .. o
      BY <1>3
    <3>4. t[i] = Reads(p, k[x])
      BY <1>2, <1>3, <3>1, <3>2, <3>3
    <3>5. Nth(Read(t), i) = Nth(Attends(p, k), x)
      BY <1>4, <1>5, <3>1, <3>2, <3>3
    <3> QED  BY <3>3, <3>4, <3>5
  <2> QED  BY <2>1, <2>2
<1>7. InStep(t, k, p)
  BY <1>6 DEF InStep
<1> QED  BY <1>1, <1>4, <1>5, <1>7


-----------------------------------------------------------------------------
(* What steps in which nothing is said in the chat do to what p reads.     *)
Hushed(p) ==
  /\ ReadAlike(Stream(p), Stream(p)')
  /\ p \in Users' => /\ p \in Users \/ NotYet(p)
                     /\ Mute(Stream(p), Stream(p)')

LEMMA FirstMute ==
  ASSUME NEW m, ~Talk(m)
  PROVE  Mute(<<>>, <<m>>)
<1>1. PICK s, t : s = <<>> /\ t = <<m>>
  OBVIOUS
<1>2. Read(s) = {} /\ Read(t) = {}
  BY <1>1 DEF Read, Talk
<1>3. Mute(s, t)
  BY <1>2 DEF Mute, ReadAlike
<1> QED  BY <1>1, <1>3

LEMMA SpokenHushed ==
  ASSUME Inv, NEW people, NEW m \in Msg, ~Talk(m), Spoken(people, m),
         Users' \subseteq Users, NEW p \in Peers
  PROVE  Hushed(p)
<1>1. Stream(p) \in Seq(Msg) /\ Stream(p)' = Stream(p) \o For(p, people, m)
  BY StreamType DEF Spoken
<1>2. Mute(Stream(p), Stream(p) \o For(p, people, m))
  BY <1>1, MuteMore
<1> QED  BY <1>1, <1>2 DEF Hushed, Mute

LEMMA AnnouncedHushed ==
  ASSUME Inv, NEW others, NEW notice \in Msg, NEW u, NEW m \in Msg,
         ~Talk(notice), ~Talk(m), Announced(others, notice, u, m),
         Users' \subseteq Users, NEW p \in Peers
  PROVE  Hushed(p)
<1>1. PICK s, x, y : /\ s = Stream(p) /\ x = s \o For(p, others, notice)
                     /\ y = x \o For(p, {u}, m)
  OBVIOUS
<1>2. s \in Seq(Msg) /\ Stream(p)' = y
  BY <1>1, StreamType DEF Announced
<1>3. x \in Seq(Msg) /\ Mute(s, x)
  BY <1>1, <1>2, MuteMore
<1>4. Mute(x, y)
  BY <1>1, <1>3, MuteMore
<1>5. Mute(s, y)
  BY <1>3, <1>4, MuteTwice
<1> QED  BY <1>1, <1>2, <1>5 DEF Hushed, Mute

LEMMA SameHushed ==
  ASSUME NEW p \in Peers, Stream(p)' = Stream(p), Users' \subseteq Users
  PROVE  Hushed(p)
<1>1. Mute(Stream(p), Stream(p))
  BY MuteSame
<1> QED  BY <1>1 DEF Hushed, Mute

LEMMA CutHushed ==
  ASSUME Inv, Cut, NEW p \in Peers
  PROVE  Hushed(p)
<1>1. Users' = Users /\ \/ Stream(p)' = Stream(p)
                        \/ p \notin Users /\ Stream(p)' = sent[p]
  BY DEF Cut, SamePeople
<1>2. ReadAlike(Stream(p), sent[p])
  BY SentBegins, BeginsAlike
<1> QED  BY <1>1, <1>2, SameHushed DEF Hushed

LEMMA PartedHushed ==
  ASSUME Inv, NEW u, Parted(u), NEW p \in Peers
  PROVE  Hushed(p)
<1>1. \/ Stream(p)' = Stream(p)
      \/ Stream(p)' = Append(sent[p], Plain("goodbye")) \o Queued(p)
  BY DEF Parted
<1>2. CASE Stream(p)' = Append(sent[p], Plain("goodbye")) \o Queued(p)
  <2>1. PICK x, y, s, t : /\ x = sent[p] /\ y = Queued(p) /\ s = x \o y
                          /\ t = Append(x, Plain("goodbye")) \o y
    OBVIOUS
  <2>2. x \in Seq(Msg) /\ y \in Seq(Msg)
    BY <2>1, StreamType
  <2>3. Inserted(s, t, Len(x))
    BY <2>1, <2>2, GoodbyeInserted
  <2>4. Mute(s, t)
    BY <2>3, InsertedMute
  <2>5. Stream(p) = s /\ Stream(p)' = t
    BY <1>2, <2>1 DEF Stream
  <2>6. Users' = Users
    BY DEF Parted, SamePeople
  <2> QED  BY <2>4, <2>5, <2>6 DEF Hushed, Mute
<1>3. CASE Stream(p)' = Stream(p)
  <2>1. Users' \subseteq Users
    BY DEF Parted, SamePeople
  <2> QED  BY <1>3, <2>1, SameHushed
<1> QED  BY <1>1, <1>2, <1>3

LEMMA ServedHushed ==
  ASSUME Inv, NEW u, Served(u), NEW p \in Peers
  PROVE  Hushed(p)
<1>1. CASE Asked(u)
  <2>1. /\ Plain("confirm") \in Msg /\ ~Talk(Plain("confirm"))
        /\ Spoken({u}, Plain("confirm")) /\ Users' \subseteq Users
    BY <1>1 DEF Asked, Plain, M, Msg, ReplyKinds, Talk
  <2> QED  BY <2>1, SpokenHushed
<1>2. ASSUME NEW x, Replied(u, x)  PROVE Hushed(p)
  <2>1. x \in Msg /\ ~Talk(x) /\ Spoken({u}, x) /\ Users' \subseteq Users
    BY <1>2 DEF Replied, SamePeople, PlainKinds, Talk
  <2> QED  BY <2>1, SpokenHushed
<1>3. ASSUME NEW x, Returned(u, x)  PROVE Hushed(p)
  <2>1. /\ M("welcome", x, NoName) \in Msg /\ ~Talk(M("welcome", x, NoName))
        /\ Spoken({u}, M("welcome", x, NoName)) /\ Users' \subseteq Users
    BY <1>3 DEF Returned, M, Msg, ReplyKinds, Talk
  <2> QED  BY <2>1, SpokenHushed
<1>4. ASSUME NEW x, Entered(u, x)  PROVE Hushed(p)
  <2>1. PICK notice, m : notice = M("joined", x, NoName) /\ m = M("welcome", x, NoName)
    OBVIOUS
  <2>2. /\ notice \in Msg /\ m \in Msg /\ ~Talk(notice) /\ ~Talk(m)
        /\ Announced(InChat, notice, u, m) /\ Users' \subseteq Users
    BY <1>4, <2>1 DEF Entered, M, Msg, NoticeKinds, ReplyKinds, Talk
  <2> QED  BY <2>2, AnnouncedHushed
<1>5. ASSUME NEW x, Whispered(u, x)  PROVE Hushed(p)
  <2>1. PICK notice, m : /\ notice = M("whispered", user[u].username, NoName)
                         /\ m = M("ack", user[x].username, NoName)
    OBVIOUS
  <2>2. /\ notice \in Msg /\ m \in Msg /\ ~Talk(notice) /\ ~Talk(m)
        /\ Announced({x}, notice, u, m) /\ Users' \subseteq Users
    BY <1>5, <2>1 DEF Whispered, SamePeople, M, Msg, NoticeKinds, ReplyKinds, Talk
  <2> QED  BY <2>2, AnnouncedHushed
<1> QED  BY <1>1, <1>2, <1>3, <1>4, <1>5 DEF Served

LEMMA HushedSteps ==
  ASSUME RoomInv, RoomInv', Next, \A h \in Handles : ~Say(h), NEW p \in Peers
  PROVE  Hushed(p)
<1>0. Inv
  BY DEF RoomInv
<1>1. CASE Silent
  BY <1>1, SameHushed DEF Silent, Calm, SamePeople
<1>2. CASE Cut
  BY <1>0, <1>2, CutHushed
<1>3. CASE Refused
  <2>1. /\ Users' = Users
        /\ \/ Stream(p)' = Stream(p)
           \/ p \notin Users /\ Stream(p) = <<>> /\ Stream(p)' = <<Plain("refused")>>
    BY <1>3 DEF Refused, SamePeople
  <2>2. Mute(<<>>, <<Plain("refused")>>)
    <3>1. ~Talk(Plain("refused"))
      BY DEF Talk, Plain, M
    <3> QED  BY <3>1, FirstMute
  <2> QED  BY <2>1, <2>2, SameHushed DEF Hushed, Mute
<1>4. ASSUME NEW u \in Peers, Greeted(u)  PROVE Hushed(p)
  <2>1. CASE p = u
    <3>1. Mute(<<>>, <<Plain("greeting")>>)
      <4>1. ~Talk(Plain("greeting"))
        BY DEF Talk, Plain, M
      <4> QED  BY <4>1, FirstMute
    <3> QED  BY <1>4, <2>1, <3>1 DEF Greeted, Hushed, Mute
  <2>2. CASE p # u
    <3>1. Stream(p)' = Stream(p) /\ (p \in Users' => p \in Users)
      BY <1>4, <2>2 DEF Greeted
    <3>2. Mute(Stream(p), Stream(p))
      BY MuteSame
    <3> QED  BY <1>4, <2>2, <3>1, <3>2 DEF Greeted, Hushed, Mute
  <2> QED  BY <2>1, <2>2
<1>5. ASSUME NEW u, NEW n, Departed(u, n)  PROVE Hushed(p)
  <2>1. /\ M("left", n, NoName) \in Msg /\ ~Talk(M("left", n, NoName))
        /\ Spoken(InChat \ {u}, M("left", n, NoName)) /\ Users' \subseteq Users
    BY <1>5 DEF Departed, M, Msg, NoticeKinds, Talk
  <2> QED  BY <1>0, <2>1, SpokenHushed
<1>6. ASSUME NEW u, Served(u) \/ Parted(u)  PROVE Hushed(p)
  BY <1>0, <1>6, ServedHushed, PartedHushed
<1> QED  BY <1>1, <1>2, <1>3, <1>4, <1>5, <1>6, StreamSteps


-----------------------------------------------------------------------------
(* A line said in the chat is read by all who are there, and recorded so.  *)
Recorded(e) ==
  /\ log' = Append(log, e) /\ e.audience = InChat /\ Users' = Users
  /\ \A p \in Peers :
       \/ p \notin InChat /\ Stream(p)' = Stream(p)
       \/ /\ p \in InChat /\ Reads(p, e) \in Msg /\ Talk(Reads(p, e))
          /\ Stream(p)' = Stream(p) \o <<Reads(p, e)>>

LEMMA UtterRecords ==
  ASSUME Inv, Inv', NEW h \in Handles, Utter(h)
  PROVE  \E e \in Record : Recorded(e)
<1>1. PICK u, w, n, e : /\ u = from_handle[h] /\ w = Input(u).word
                        /\ n = user[u].username /\ e = Entry(u)
  OBVIOUS
<1>2. Say(h) /\ log' = Append(log, e)
  BY <1>1 DEF Utter
<1>3. Said(u, w) /\ w \in Words
  BY <1>1, <1>2, SaySays
<1>4. /\ Users' = Users /\ u \in InChat /\ n \in Names
      /\ Announced(InChat \ {u}, M("said", n, w), u, M("you", NoName, w))
  BY <1>1, <1>3 DEF Said, SamePeople
<1>5. InChat \subseteq Peers
  BY InChatAreUsers, UserFacts
<1>6. e = [speaker |-> u, name |-> n, body |-> w, audience |-> InChat]
  BY <1>1 DEF Entry
<1>7. e \in Record
  BY <1>3, <1>4, <1>5, <1>6 DEF Record
<1>8. ASSUME NEW p \in Peers
      PROVE  \/ p \notin InChat /\ Stream(p)' = Stream(p)
             \/ /\ p \in InChat /\ Reads(p, e) \in Msg /\ Talk(Reads(p, e))
                /\ Stream(p)' = Stream(p) \o <<Reads(p, e)>>
  <2>1. PICK s, x, y : /\ s = Stream(p) /\ x = For(p, InChat \ {u}, M("said", n, w))
                       /\ y = For(p, {u}, M("you", NoName, w))
    OBVIOUS
  <2>2. Stream(p)' = (s \o x) \o y /\ s \in Seq(Msg)
    BY <1>4, <2>1, StreamType DEF Announced
  <2>3. CASE p \notin InChat
    <3>1. x = <<>> /\ y = <<>>
      BY <1>4, <2>1, <2>3 DEF For
    <3> QED  BY <2>1, <2>2, <2>3, <3>1, ConcatEmptySeq
  <2>4. CASE p = u
    <3>1. x = <<>> /\ y = <<M("you", NoName, w)>>
      BY <2>1, <2>4 DEF For
    <3>2. /\ Reads(p, e) = M("you", NoName, w) /\ Reads(p, e) \in Msg
          /\ Talk(Reads(p, e))
      BY <1>3, <1>6, <2>4 DEF Reads, M, Msg, ReplyKinds, Talk
    <3>3. Stream(p)' = s \o y
      BY <2>2, <3>1, ConcatEmptySeq
    <3> QED  BY <1>4, <2>1, <2>4, <3>1, <3>2, <3>3
  <2>5. CASE p \in InChat /\ p # u
    <3>1. x = <<M("said", n, w)>> /\ y = <<>>
      BY <2>1, <2>5 DEF For
    <3>2. /\ Reads(p, e) = M("said", n, w) /\ Reads(p, e) \in Msg
          /\ Talk(Reads(p, e))
      BY <1>3, <1>4, <1>6, <2>5 DEF Reads, M, Msg, NoticeKinds, Talk
    <3>3. s \o x \in Seq(Msg)
      BY <2>2, <3>1, <3>2, OneMore
    <3>4. Stream(p)' = s \o x
      BY <2>2, <3>1, <3>3, ConcatEmptySeq
    <3> QED  BY <2>1, <2>5, <3>1, <3>2, <3>4
  <2> QED  BY <2>3, <2>4, <2>5
<1> QED  BY <1>2, <1>4, <1>6, <1>7, <1>8 DEF Recorded

-----------------------------------------------------------------------------
(* The invariant, in the words of the lemmas.                              *)
LEMMA SameOrderIs == SameOrder <=> \A p \in Peers : InStep(Stream(p), log, p)
BY DEF SameOrder, InStep, Attended, Attends

LEMMA PastIs == Past <=> \A p \in Peers : NotYet(p) => Attends(p, log) = {}
BY DEF Past, Attended, Attends

Complete(s, l, p) == Cardinality(Read(s)) = Cardinality(Attends(p, l))

LEMMA NothingMissedIs == NothingMissed <=> \A u \in Users : Complete(Stream(u), log, u)
BY DEF NothingMissed, Complete, Attended, Attends

(* Nor has who has no user yet.                                            *)
LEMMA UnmetComplete ==
  ASSUME RoomInv, Past, NEW p \in Peers, NotYet(p)
  PROVE  Complete(Stream(p), log, p)
<1>1. Stream(p) = <<>>
  BY UnmetStream
<1>2. Read(<<>>) = {}
  BY DEF Read
<1>3. Attends(p, log) = {}
  BY PastIs
<1> QED  BY <1>1, <1>2, <1>3 DEF Complete

LEMMA HushedStep ==
  ASSUME RoomInv, RoomInv', ChronicleInv, Next, \A h \in Handles : ~Say(h),
         UNCHANGED log
  PROVE  Past' /\ SameOrder' /\ NothingMissed'
<1>1. Past /\ SameOrder /\ NothingMissed /\ Inv
  BY DEF ChronicleInv, RoomInv
<1>2. Past'
  <2> SUFFICES ASSUME NEW p \in Peers, NotYet(p)'
               PROVE  Attended(p)' = {}
    BY DEF Past
  <2>1. NotYet(p)
    BY <1>1, NotYetStep
  <2> QED  BY <1>1, <2>1 DEF Past, Attended
<1>3. ASSUME NEW p \in Peers  PROVE InStep(Stream(p)', log', p)
  <2>1. PICK s, t, l : s = Stream(p) /\ t = Stream(p)' /\ l = log
    OBVIOUS
  <2>2. InStep(s, l, p)
    BY <1>1, <2>1, SameOrderIs
  <2>3. ReadAlike(s, t)
    BY <2>1, HushedSteps DEF Hushed
  <2>4. InStep(t, l, p)
    BY <2>2, <2>3, AlikeInStep
  <2> QED  BY <2>1, <2>4
<1>4. ASSUME NEW u \in Users'  PROVE Complete(Stream(u)', log', u)
  <2>1. u \in Peers
    BY NextUsers DEF RoomInv
  <2>2. (u \in Users \/ NotYet(u)) /\ Mute(Stream(u), Stream(u)')
    BY <2>1, HushedSteps DEF Hushed
  <2>3. Complete(Stream(u), log, u)
    BY <1>1, <2>1, <2>2, UnmetComplete, NothingMissedIs
  <2> QED  BY <2>2, <2>3 DEF Complete, Mute
<1>5. SameOrder'
  BY <1>3 DEF SameOrder, InStep, Attended, Attends
<1>6. NothingMissed'
  BY <1>4 DEF NothingMissed, Complete, Attended, Attends
<1> QED  BY <1>2, <1>5, <1>6

LEMMA UtterStep ==
  ASSUME RoomInv, RoomInv', ChronicleInv, Next, NEW h \in Handles, Utter(h)
  PROVE  ChronicleTypeOK' /\ Past' /\ SameOrder' /\ NothingMissed'
<1>1. Past /\ SameOrder /\ NothingMissed /\ Inv /\ log \in Seq(Record)
  BY DEF ChronicleInv, RoomInv, ChronicleTypeOK, Record
<1>2. Inv'
  BY DEF RoomInv
<1>3. PICK e \in Record : Recorded(e)
  BY <1>1, <1>2, UtterRecords
<1>4. PICK l, k : l = log /\ k = Append(l, e)
  OBVIOUS
<1>5. l \in Seq(Record) /\ log' = k /\ k \in Seq(Record)
  <2>1. l \in Seq(Record) /\ log' = k
    BY <1>1, <1>3, <1>4 DEF Recorded
  <2> QED  BY <1>4, <2>1, OneEntryMore
<1>6. ASSUME NEW p \in Peers  PROVE NotYet(p)' => Attends(p, k) = {}
  <2> SUFFICES ASSUME NotYet(p)'  PROVE Attends(p, k) = {}
    OBVIOUS
  <2>1. NotYet(p)
    BY <1>1, NotYetStep
  <2>2. p \notin e.audience
    BY <1>1, <1>3, <2>1, UsersAreMet, InChatAreUsers DEF Recorded
  <2>3. Attends(p, l) = {}
    BY <1>1, <1>4, <2>1, PastIs
  <2> QED  BY <1>4, <1>5, <2>2, <2>3, OneEntryMore
<1>7. ASSUME NEW p \in Peers
      PROVE  /\ InStep(Stream(p)', k, p)
             /\ p \in Users => Complete(Stream(p)', k, p)
  <2>1. PICK s, t : s = Stream(p) /\ t = Stream(p)'
    OBVIOUS
  <2>2. InStep(s, l, p) /\ (p \in Users => Complete(s, l, p))
    BY <1>1, <1>4, <2>1, SameOrderIs, NothingMissedIs
  <2>3. CASE p \notin InChat
    <3>1. p \notin e.audience /\ t = s
      BY <1>3, <2>1, <2>3 DEF Recorded
    <3>2. InStep(s, k, p)
      BY <1>4, <1>5, <2>2, <3>1, AbsentInStep
    <3>3. Attends(p, k) = Attends(p, l)
      BY <1>4, <1>5, <3>1, OneEntryMore
    <3> QED  BY <2>1, <2>2, <3>1, <3>2, <3>3 DEF Complete
  <2>4. CASE p \in InChat
    <3>1. PICK m : m = Reads(p, e)
      OBVIOUS
    <3>2. /\ p \in e.audience /\ m \in Msg /\ Talk(m) /\ t = s \o <<m>>
          /\ s \in Seq(Msg) /\ p \in Users
      BY <1>1, <1>3, <2>1, <2>4, <3>1, StreamType, InChatAreUsers DEF Recorded
    <3>3. Cardinality(Read(s)) = Cardinality(Attends(p, l))
      BY <2>2, <3>2 DEF Complete
    <3>4. /\ InStep(s \o <<m>>, Append(l, e), p)
          /\ Cardinality(Read(s \o <<m>>)) = Cardinality(Attends(p, Append(l, e)))
      BY <1>5, <2>2, <3>1, <3>2, <3>3, PresentInStep
    <3> QED  BY <1>4, <2>1, <3>2, <3>4 DEF Complete
  <2> QED  BY <2>3, <2>4
<1>8. Users' = Users /\ Users \subseteq Peers
  BY <1>1, <1>3, UserFacts DEF Recorded
<1>9. ChronicleTypeOK'
  BY <1>5 DEF ChronicleTypeOK, Record
<1>10. Past'
  BY <1>5, <1>6 DEF Past, Attended, Attends
<1>11. SameOrder'
  <2>1. \A p \in Peers : InStep(Stream(p)', log', p)
    BY <1>5, <1>7
  <2> QED  BY <2>1 DEF SameOrder, InStep, Attended, Attends
<1>12. NothingMissed'
  <2> SUFFICES ASSUME NEW u \in Users'
               PROVE  Complete(Stream(u)', log', u)
    BY DEF NothingMissed, Complete, Attended, Attends
  <2> QED  BY <1>5, <1>7, <1>8
<1> QED  BY <1>9, <1>10, <1>11, <1>12


-----------------------------------------------------------------------------
(* The record hinders no step of the server.                               *)
LEMMA ChronicleStep == [ChronicleNext]_<<vars, log>> => [Next]_vars
<1>1. \A h \in Handles : Say(h) => Next
  BY DEF Next, ServerStep, UpdateStep
<1> QED  BY <1>1 DEF ChronicleNext, Utter

LEMMA InitChronicleInv == ChronicleInit => ChronicleInv
<1> SUFFICES ASSUME Init, log = <<>>  PROVE ChronicleInv
  BY DEF ChronicleInit
<1>1. RoomInv /\ Inv
  BY InitRoomInv DEF RoomInv
<1>2. \A p : Attended(p) = {}
  BY DEF Attended
<1>3. ChronicleTypeOK
  BY DEF ChronicleTypeOK
<1>4. \A p \in Peers : Stream(p) = <<>>
  BY <1>1, UnmetStream DEF Init, SocketInit, NotYet
<1>5. Users = {}
  BY DEF Init, AppInit, Users
<1>6. Read(<<>>) = {}
  BY DEF Read
<1> QED  BY <1>1, <1>2, <1>3, <1>4, <1>5, <1>6
         DEF ChronicleInv, Past, SameOrder, NothingMissed

LEMMA StepChronicleInv ==
  ChronicleInv /\ [ChronicleNext]_<<vars, log>> => ChronicleInv'
<1> SUFFICES ASSUME ChronicleInv, [ChronicleNext]_<<vars, log>>  PROVE ChronicleInv'
  OBVIOUS
<1>1. RoomInv /\ RoomInv'
  BY ChronicleStep, StepRoomInv DEF ChronicleInv
<1>2. ASSUME NEW h \in Handles, Utter(h)  PROVE ChronicleInv'
  <2>1. Next
    BY <1>2 DEF Utter, Next, ServerStep, UpdateStep
  <2> QED  BY <1>1, <1>2, <2>1, UtterStep DEF ChronicleInv
<1>3. CASE Next /\ ~ (\E h \in Handles : Say(h)) /\ UNCHANGED log
  <2>1. ChronicleTypeOK'
    BY <1>3 DEF ChronicleInv, ChronicleTypeOK
  <2> QED  BY <1>1, <1>3, <2>1, HushedStep DEF ChronicleInv
<1>4. CASE UNCHANGED <<vars, log>>
  <2>1. \A p : Stream(p)' = Stream(p) /\ (NotYet(p)' <=> NotYet(p))
    BY <1>4 DEF vars, socketVars, netVars, appVars, Stream, Queued, Clients,
                NotYet, Waiting, Unmet
  <2>2. Users' = Users
    BY <1>4 DEF vars, appVars, Users
  <2>3. log' = log /\ \A p : Attended(p)' = Attended(p)
    BY <1>4 DEF Attended
  <2>4. ChronicleTypeOK'
    BY <2>3 DEF ChronicleInv, ChronicleTypeOK
  <2>5. Past'
    BY <2>1, <2>3 DEF ChronicleInv, Past
  <2>6. SameOrder'
    BY <2>1, <2>3 DEF ChronicleInv, SameOrder
  <2>7. NothingMissed'
    BY <2>1, <2>2, <2>3 DEF ChronicleInv, NothingMissed
  <2> QED  BY <1>1, <2>4, <2>5, <2>6, <2>7 DEF ChronicleInv
<1> QED  BY <1>2, <1>3, <1>4 DEF ChronicleNext

(* The record and the streams agree in every state the server can be in.   *)
THEOREM ChronicleInvHolds == ChronicleSpec => []ChronicleInv
BY InitChronicleInv, StepChronicleInv, PTL DEF ChronicleSpec

(* Everyone sees the conversation in one order: the n-th thing a user      *)
(* reads is the n-th thing said while it was in the chat, whoever said it. *)
THEOREM OneOrderForAll == ChronicleSpec => []SameOrder
<1>1. ChronicleInv => SameOrder
  BY DEF ChronicleInv
<1> QED  BY <1>1, ChronicleInvHolds, PTL

(* And who is in the room lacks nothing of it.                             *)
THEOREM NothingIsMissed == ChronicleSpec => []NothingMissed
<1>1. ChronicleInv => NothingMissed
  BY DEF ChronicleInv
<1> QED  BY <1>1, ChronicleInvHolds, PTL

-----------------------------------------------------------------------------
(* The record by itself: empty at first, and after each step what the step *)
(* and the record before it make of it.  It asks nothing of the server.    *)
LogAfter ==
  IF \E h \in Handles : Say(h)
  THEN Append(log, Entry(from_handle[CHOOSE h \in Handles : Say(h)]))
  ELSE log

RecordKept == log = <<>> /\ [][log' = LogAfter]_<<vars, log>>

(* In one step at most one user says something, and the loop moves on.     *)
LEMMA OneSpeaks ==
  ASSUME NEW h \in Handles, Say(h)
  PROVE  ~(UNCHANGED vars) /\ \A g \in Handles : Say(g) => g = h
<1>1. h \in todo /\ todo' = todo \ {h}
  BY DEF Say, GetLine, Visit
<1>2. \A g \in Handles : Say(g) => g \in todo /\ todo' = todo \ {g}
  BY DEF Say, GetLine, Visit
<1>3. UNCHANGED vars => todo' = todo
  BY DEF vars, netVars
<1> QED  BY <1>1, <1>2, <1>3

LEMMA LogOfUtterance ==
  ASSUME NEW h \in Handles, Say(h)
  PROVE  LogAfter = Append(log, Entry(from_handle[h]))
<1>1. (CHOOSE g \in Handles : Say(g)) = h
  BY OneSpeaks
<1> QED  BY <1>1 DEF LogAfter

LEMMA StepIsRecorded ==
  [ChronicleNext]_<<vars, log>> <=> [Next]_vars /\ [log' = LogAfter]_<<vars, log>>
<1>1. ASSUME [ChronicleNext]_<<vars, log>>
      PROVE  [Next]_vars /\ [log' = LogAfter]_<<vars, log>>
  <2>1. CASE \E h \in Handles : Utter(h)
    BY <1>1, <2>1, ChronicleStep, LogOfUtterance DEF Utter
  <2>2. CASE Next /\ ~ (\E h \in Handles : Say(h)) /\ UNCHANGED log
    BY <2>2 DEF LogAfter
  <2> QED  BY <1>1, <2>1, <2>2 DEF ChronicleNext
<1>2. ASSUME [Next]_vars, log' = LogAfter
      PROVE  [ChronicleNext]_<<vars, log>>
  <2>1. ASSUME NEW h \in Handles, Say(h)  PROVE ChronicleNext
    BY <1>2, <2>1, LogOfUtterance DEF ChronicleNext, Utter
  <2>2. CASE ~ (\E h \in Handles : Say(h))
    BY <1>2, <2>2 DEF LogAfter, ChronicleNext
  <2> QED  BY <2>1, <2>2
<1> QED  BY <1>1, <1>2

(* The server with a record is the server, and its record: whatever the    *)
(* server does, without regard to any record, has one to go with it, and   *)
(* what is true of the streams with the record is true without.            *)
THEOREM RecordOnlyWatches == ChronicleSpec <=> Spec /\ RecordKept
<1>1. ChronicleInit <=> Init /\ log = <<>>
  BY DEF ChronicleInit
<1> QED  BY <1>1, StepIsRecorded, PTL DEF ChronicleSpec, Spec, RecordKept

=============================================================================
