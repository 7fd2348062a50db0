----------------------------- MODULE LineQueue ------------------------------
(***************************************************************************)
(* What a client's input is to the rest of the server: a queue of lines.   *)
(* Net, which has it so, rests on this.                                    *)
(***************************************************************************)
EXTENDS SequencesExt

VARIABLES
  queue,  \* lines received and not taken
  taken   \* lines taken, in order

Init == queue = <<>> /\ taken = <<>>

Arrive == IsPrefix(queue, queue') /\ UNCHANGED taken

Take ==
  /\ queue # <<>>
  /\ taken' = Append(taken, Head(queue))
  /\ queue' = Tail(queue)

Next == Arrive \/ Take

Spec == Init /\ [][Next]_<<queue, taken>>

=============================================================================
