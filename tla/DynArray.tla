------------------------------ MODULE DynArray ------------------------------
(***************************************************************************)
(* The dynamic array of inc/ac/meta.h: a pointer to elements, with the     *)
(* length and the capacity stored in front of them.  Here an array is a    *)
(* length and the memory its elements live in; the capacity is the size of *)
(* that memory.  Positions are C's, so position i is mem[i + 1].           *)
(*                                                                         *)
(* DynArrayProofs shows that these operations are those of sequences, on   *)
(* arrays whose length is at most their capacity: this is why the other    *)
(* modules have sequences where the code has arrays.                       *)
(***************************************************************************)
EXTENDS Naturals, Sequences

CONSTANTS
  Garbage,    \* what memory holds that nothing was stored in, or is not ours
  WordBytes,  \* __SIZEOF_SIZE_T__
  BigEndian   \* __BYTE_ORDER__

ASSUME DynArrayAssumption ==
  /\ WordBytes \in Nat /\ WordBytes >= 2
  /\ BigEndian \in BOOLEAN

Cap(a) == Len(a.mem)

(* What every operation relies on and none checks: the length is within    *)
(* the capacity.                                                           *)
ProperArray(a, S) ==
  /\ a = [len |-> a.len, mem |-> a.mem]
  /\ a.len \in Nat
  /\ a.mem \in Seq(S)
  /\ a.len <= Len(a.mem)

(* ac_arr_new is ac_arr_new_reserve of nothing.                            *)
NewReserve(n) == [len |-> 0, mem |-> [k \in 1 .. n |-> Garbage]]

(* What a reader of the whole array gets: past the memory of the array, it *)
(* gets what happens to be there.                                          *)
Elems(a) == [k \in 1 .. a.len |-> IF k <= Cap(a) THEN a.mem[k] ELSE Garbage]

(* realloc() to twice what is needed, when the capacity does not do.       *)
Room(a, n) ==
  IF a.len + n <= Cap(a) THEN a.mem
  ELSE [k \in 1 .. 2 * (a.len + n) |-> IF k <= Cap(a) THEN a.mem[k] ELSE Garbage]

InsertNWrong(a, i, b) ==
  [len |-> a.len + Len(b),
   mem |-> [k \in DOMAIN a.mem |->
              IF k \in i + 1 .. i + Len(b) THEN b[k - i] ELSE a.mem[k]]]

(* memmove() of what follows position i, then memcpy() of b into the gap.  *)
InsertN(a, i, b) ==
  LET n == Len(b)
      room == Room(a, n)
  IN  [len |-> a.len + n,
       mem |-> [k \in DOMAIN room |->
                  IF k \in i + 1 .. i + n THEN b[k - i]
                  ELSE IF k \in i + n + 1 .. a.len + n THEN room[k - n]
                  ELSE room[k]]]

AppendN(a, b) == InsertN(a, a.len, b)

RemoveNWrong(a, i, n) == [a EXCEPT !.len = @ - n]

(* memmove() over the n removed.  The macro asserts CanRemove.             *)
CanRemove(a, i, n) == i < a.len /\ i + n <= a.len

RemoveN(a, i, n) ==
  [len |-> a.len - n,
   mem |-> [k \in DOMAIN a.mem |->
              IF k \in i + 1 .. a.len - n THEN a.mem[k + n] ELSE a.mem[k]]]

(***************************************************************************)
(* Arrays made from literals, without the heap.  The literal's length is   *)
(* given as a low and a high byte, which are looked up in the table of     *)
(* inc/ac/hex.h and put, with zeroes, in front of the characters.          *)
(***************************************************************************)

Hex == [n \in 0 .. 255 |-> n]

LiteralWord(lo, hi) ==
  (IF BigEndian THEN <<Hex[hi], Hex[lo]>> ELSE <<Hex[lo], Hex[hi]>>)
    \o [k \in 1 .. WordBytes - 2 |-> 0]

(* A size_t, as the machine reads it: the highest byte comes first if it   *)
(* is big-endian, and last if not.                                         *)
SizeT(bytes) ==
  LET value[k \in 0 .. WordBytes] ==
        IF k = 0 THEN 0
        ELSE 256 * value[k - 1] + bytes[IF BigEndian THEN k ELSE WordBytes + 1 - k]
  IN  value[WordBytes]

FromLiteral(chars, lo, hi) == [len |-> SizeT(LiteralWord(lo, hi)), mem |-> chars]

=============================================================================
