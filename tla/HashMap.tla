------------------------------ MODULE HashMap ------------------------------
(***************************************************************************)
(* The hash map of inc/ac/meta.h: an array of buckets, each a small array  *)
(* of entries, that doubles when half of its buckets are populated.  The   *)
(* macros run in one thread, so each is one step, except ac_map_foreach,   *)
(* whose body runs between its steps.                                      *)
(***************************************************************************)
EXTENDS Integers, SequencesExt

CONSTANTS
  Keys, Values, Absent,
  Hash,     \* HASH, on keys
  InitCap,  \* ac_map_new_reserve's N
  MaxCap    \* bound: the capacity beyond which no run grows a map

ASSUME HashMapAssumption ==
  /\ Absent \notin Values
  /\ Hash \in [Keys -> Nat]
  /\ InitCap \in Nat \ {0}
  /\ MaxCap \in Nat

VARIABLES
  bkts,    \* the live buckets
  alen,    \* ac_alen(bkts): how many buckets ac_map_foreach goes through
  len,     \* number of entries
  pop,     \* pop_bkts, number of populated buckets
  loop,    \* where ac_map_foreach is: "out", "in" its body, or "wild"
  at,      \* the bucket and the index it visits next
  due,     \* the keys it has to visit ...
  seen     \* ... and those it has visited, one entry per visit

vars == <<bkts, alen, len, pop, loop, at, due, seen>>
loopVars == <<loop, at, due, seen>>

Entry == [key : Keys, val : Values]

(* ac_acap(bkts).                                                          *)
Cap == Cardinality(DOMAIN bkts)

Home(k, cap) == Hash[k] % cap

(* The index of k in a bucket, 0 if it is not there.                       *)
Find(bucket, k) == SelectInSeq(bucket, LAMBDA e : e.key = k)

(* ac_map_get_maybe_null.                                                  *)
Lookup(k) ==
  LET b == bkts[Home(k, Cap)]
      i == Find(b, k)
  IN  IF i = 0 THEN Absent ELSE b[i].val

Populated(bs) == Cardinality({b \in DOMAIN bs : bs[b] # <<>>})

Entries == UNION {{<<b, i>> : i \in DOMAIN bkts[b]} : b \in DOMAIN bkts}

Stored == UNION {{bkts[b][i].key : i \in DOMAIN bkts[b]} : b \in DOMAIN bkts}

Init ==
  /\ bkts = [b \in 0 .. InitCap - 1 |-> <<>>]
  /\ alen = InitCap
  /\ len = 0
  /\ pop = 0
  /\ loop = "out"
  /\ at = <<0, 1>>
  /\ due = {}
  /\ seen = <<>>

(***************************************************************************)
(* ac_map_set                                                              *)
(***************************************************************************)

NeedsGrowth == pop = Cap \div 2

(* The entries of an old bucket that go to bucket b of cap, in order.      *)
Moved(bucket, b, cap) ==
  LET upTo[i \in 0 .. Len(bucket)] ==
        IF i = 0 THEN <<>>
        ELSE IF Home(bucket[i].key, cap) = b THEN Append(upTo[i - 1], bucket[i])
        ELSE upTo[i - 1]
  IN  upTo[Len(bucket)]

(* Re-hash: the entries of an old bucket go to the two buckets that are it *)
(* modulo the old capacity.                                                *)
SplitWrong(cap) ==
  [b \in 0 .. 2 * cap - 1 |-> IF b < cap THEN bkts[b] ELSE <<>>]

Split(cap) ==
  [b \in 0 .. 2 * cap - 1 |-> Moved(bkts[b % cap], b, 2 * cap)]

(* ac_map_set_no_rehash, into the buckets bs populated by p.               *)
PutIn(bs, n, p, k, v) ==
  LET h == Home(k, Cardinality(DOMAIN bs))
      i == Find(bs[h], k)
  IN  /\ bkts' = IF i = 0 THEN [bs EXCEPT ![h] = Append(@, [key |-> k, val |-> v])]
                 ELSE [bs EXCEPT ![h][i].val = v]
      /\ len' = IF i = 0 THEN n + 1 ELSE n
      /\ pop' = IF bs[h] = <<>> THEN p + 1 ELSE p

(* The array is cut to its new capacity by ac_acap alone: its length stays *)
(* that of the three regions it had while re-hashing.                      *)
Set(k, v) ==
  /\ loop = "out"
  /\ IF NeedsGrowth
     THEN LET new == Split(Cap)
          IN  /\ 2 * Cap <= MaxCap
              /\ PutIn(new, len, Populated(new), k, v)
              /\ alen' = 3 * Cap
     ELSE PutIn(bkts, len, pop, k, v) /\ UNCHANGED alen
  /\ UNCHANGED loopVars

(***************************************************************************)
(* ac_map_remove                                                           *)
(***************************************************************************)

EmptiedWrong(bucket) == TRUE

(* Called with the bucket as it was before the entry was removed.          *)
Emptied(bucket) == Len(bucket) = 1

RemoveEntry(k) ==
  LET h == Home(k, Cap)
      i == Find(bkts[h], k)
  IN  IF i = 0 THEN UNCHANGED <<bkts, len, pop>>
      ELSE /\ bkts' = [bkts EXCEPT ![h] = RemoveAt(@, i)]
           /\ len' = len - 1
           /\ pop' = IF Emptied(bkts[h]) THEN pop - 1 ELSE pop

Delete(k) ==
  /\ loop = "out"
  /\ RemoveEntry(k)
  /\ UNCHANGED <<alen, loopVars>>

(***************************************************************************)
(* ac_map_foreach                                                          *)
(***************************************************************************)

Begin ==
  /\ loop = "out"
  /\ loop' = "in"
  /\ due' = Stored
  /\ UNCHANGED <<bkts, alen, len, pop, at, seen>>

Here == bkts[at[1]][at[2]].key

MayRemoveWrong(bucket) == TRUE

(* The only body that removes from the map it goes through removes the     *)
(* entry it is at (net.c:181), and the keys of that map are descriptors,   *)
(* no two of which share a bucket.                                         *)
MayRemove(bucket) == Len(bucket) = 1

(* The body runs for one entry and the index moves on, also past the entry *)
(* that took the place of a removed one.                                   *)
Visit ==
  /\ loop = "in"
  /\ at[1] \in DOMAIN bkts
  /\ at[2] \in DOMAIN bkts[at[1]]
  /\ \/ UNCHANGED <<bkts, len, pop>>
     \/ MayRemove(bkts[at[1]]) /\ RemoveEntry(Here)
  /\ at' = <<at[1], at[2] + 1>>
  /\ seen' = Append(seen, Here)
  /\ UNCHANGED <<alen, loop, due>>

NextBucket ==
  /\ loop = "in"
  /\ at[1] \in DOMAIN bkts
  /\ at[2] \notin DOMAIN bkts[at[1]]
  /\ at' = <<at[1] + 1, 1>>
  /\ UNCHANGED <<bkts, alen, len, pop, loop, due, seen>>

(* Every bucket there is has been visited.  A map that never grew ends     *)
(* here; one that grew goes on into freed memory, and may end as well.     *)
End ==
  /\ loop = "in"
  /\ at[1] = Cap
  /\ loop' = "out"
  /\ at' = <<0, 1>>
  /\ due' = {}
  /\ seen' = <<>>
  /\ UNCHANGED <<bkts, alen, len, pop>>

ReadFreed ==
  /\ loop = "in"
  /\ at[1] = Cap
  /\ alen > Cap
  /\ loop' = "wild"
  /\ UNCHANGED <<bkts, alen, len, pop, at, due, seen>>

Next ==
  \/ \E k \in Keys : Delete(k) \/ \E v \in Values : Set(k, v)
  \/ Begin \/ Visit \/ NextBucket \/ End \/ ReadFreed

Spec == Init /\ [][Next]_vars

TypeOK ==
  /\ bkts \in [0 .. Cap - 1 -> Seq(Entry)]
  /\ {alen, len, pop} \subseteq Nat
  /\ loop \in {"out", "in", "wild"}
  /\ at \in Nat \X Nat
  /\ due \subseteq Keys
  /\ seen \in Seq(Keys)

(***************************************************************************)
(* Properties                                                              *)
(***************************************************************************)

(* len and pop_bkts count what they say, through replacement, growth and   *)
(* removal from crowded buckets: net.c waits forever on pop_bkts = 0, and  *)
(* refuses on len.                                                         *)
CountsExact == len = Cardinality(Entries) /\ pop = Populated(bkts)

(* An entry is in the bucket where ac_map_get looks for it, and is the     *)
(* only one with its key.                                                  *)
Housed ==
  \A b \in DOMAIN bkts : \A i \in DOMAIN bkts[b] :
    /\ Home(bkts[b][i].key, Cap) = b
    /\ \A j \in DOMAIN bkts[b] : bkts[b][j].key = bkts[b][i].key => j = i

(* ac_map_foreach, at its end, has visited every entry there was once and  *)
(* nothing else, also when the body removed entries.                       *)
VisitsAllOnce ==
  loop = "in" /\ at[1] = Cap =>
    ToSet(seen) = due /\ Len(seen) = Cardinality(due)

(* To those who call ac_map_set, ac_map_remove and ac_map_get the map is a *)
(* dictionary, whatever the hash function and the moments it grows.        *)
Dictionary == INSTANCE KVMap WITH dict <- [k \in Keys |-> Lookup(k)]

IsDictionary == Dictionary!Spec

=============================================================================
