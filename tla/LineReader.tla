----------------------------- MODULE LineReader -----------------------------
(***************************************************************************)
(* src/io.c:16-83: how ac_get_line makes a line of the bytes received.     *)
(***************************************************************************)
EXTENDS Naturals, SequencesExt

Byte == 0 .. 255

CR == 13
LF == 10
Blank == 32

EndsLine(c) == c \in {CR, LF}
Printable(c) == c \in 32 .. 126

HasCompleteLine(in) == \E i \in DOMAIN in : EndsLine(in[i])

TrimWrong(str) ==
  LET kept == {i \in DOMAIN str : str[i] # Blank}
  IN  IF kept = {} THEN <<>> ELSE SubSeq(str, Min(kept), Len(str))

(* ac_trim_whitespace.                                                     *)
Trim(str) ==
  LET kept == {i \in DOMAIN str : str[i] # Blank}
  IN  IF kept = {} THEN <<>> ELSE SubSeq(str, Min(kept), Max(kept))

(* The line is what can be printed of what comes before the first CR or LF.*)
LineEnd(in) == SelectInSeq(in, EndsLine) - 1

Filter[str \in Seq(Byte)] ==
  LET kept[i \in 0 .. Len(str)] ==
        IF i = 0 THEN <<>>
        ELSE IF Printable(str[i]) THEN Append(kept[i - 1], str[i])
        ELSE kept[i - 1]
  IN  kept[Len(str)]

LineOf(in) == Trim(Filter[SubSeq(in, 1, LineEnd(in))])

ConsumedWrong(in) == LineEnd(in) + 1

(* It is consumed with all the CRs and LFs that directly follow.           *)
Consumed(in) ==
  Min({n \in LineEnd(in) + 1 .. Len(in) : n = Len(in) \/ ~EndsLine(in[n + 1])})

(* What successive calls of ac_get_line return if nothing more is received.*)
LinesIn(in) ==
  LET from[i \in 0 .. Len(in)] ==
        LET rest == SubSeq(in, i + 1, Len(in))
        IN  IF HasCompleteLine(rest)
            THEN <<LineOf(rest)>> \o from[i + Consumed(rest)]
            ELSE <<>>
  IN  from[0]

(***************************************************************************)
(* The lines somebody typed, without looking at how they are read: the     *)
(* text before an end of line runs from its first visible character to its *)
(* last, and texts with none are no lines.                                 *)
(***************************************************************************)

(* What s has of T, in its order: SelectSeq, written out to be reasoned on.*)
Only(s, T) ==
  LET only[i \in 0 .. Len(s)] ==
        IF i = 0 THEN <<>>
        ELSE IF s[i] \in T THEN Append(only[i - 1], s[i])
        ELSE only[i - 1]
  IN  only[Len(s)]

Printables == 32 .. 126
Visibles == 33 .. 126
Texts == Seq(Byte) \ {<<>>}

TypedBefore(bytes, j) ==
  LET shown == {k \in 1 .. j - 1 :
                  bytes[k] \in Visibles /\ \A i \in k .. j - 1 : ~EndsLine(bytes[i])}
  IN  IF EndsLine(bytes[j]) /\ shown # {}
      THEN Only(SubSeq(bytes, Min(shown), Max(shown)), Printables)
      ELSE <<>>

LinesTyped(bytes) == Only([j \in DOMAIN bytes |-> TypedBefore(bytes, j)], Texts)

=============================================================================
