------------------------------ MODULE MCServer ------------------------------
(* Small instances of Server: the peers of each run, what they may type,   *)
(* and the permutations under which it is the same run.                    *)
EXTENDS Streams

CONSTANTS a, b, y, p1, p2, p3, p4, none, noname

TwoPeers == {p1, p2}
ThreePeers == {p1, p2, p3}
FourPeers == {p1, p2, p3, p4}
OneName == {a}
TwoNames == {a, b}
OneNameWords == {a, y}
TwoNamesWords == {a, b, y}

L(kind, words) == [kind : {kind}, word : words]

(* Login, then anything a line can do but leave.                           *)
ChatScript ==
  [p \in TwoPeers |->
     <<L("text", {a, b, y}),
       L("text", {y}) \cup L("whisper", {a, b})
         \cup L("list", {y}) \cup L("info", {y})>>]

(* One asks to exit, and confirms or not; the other talks to it meanwhile. *)
ExitScript ==
  p1 :> <<L("text", {a}), L("exit", {a}), L("text", {y}) \cup L("empty", {a})>>
  @@ p2 :> <<L("text", {b}), L("whisper", {a})>>

(* Bound: the other comes once the first has typed its name.               *)
ExitBounds == sock[p2] # "idle" => typed[p1] > 0

(* What is queued for one is caused by the other.                          *)
FaultScript ==
  p1 :> <<L("text", {a}), L("text", {a})>>
  @@ p2 :> <<L("text", {b}) \cup L("empty", {b})>>

(* One name for three, more than half of what the server takes.            *)
RushScript == [p \in ThreePeers |-> <<L("text", {a, y})>>]

(* One watches; two come under the same name; a fourth finds the server    *)
(* full, or gets the place of one that left, and perhaps its name.         *)
WatchScript ==
  p1 :> <<L("text", {a})>>
  @@ p2 :> <<L("text", {b}), L("text", {b})>>
  @@ p3 :> <<L("text", {b}), L("text", {b})>>
  @@ p4 :> <<L("text", {b})>>

(* Bounds that make the run affordable: the watcher stays; the two come    *)
(* once it is in the chat and type their name before they hang up; the     *)
(* fourth comes when the server is full or somebody has left, and goes     *)
(* only by a reset of its connection, before it has typed: no other is     *)
(* reset.                                                                  *)
WatchBounds ==
  /\ sock[p1] \in {"idle", "open"}
  /\ sock[p2] # "idle" \/ sock[p3] # "idle" => user[p1].state = "chat"
  /\ \A p \in {p2, p3} : sock[p] \in {"fin", "closed"} => typed[p] > 0
  /\ sock[p4] # "idle" => \/ Cardinality(Clients) = AC_CLIENTS_MAX
                          \/ \E p \in Peers : sock[p] = "closed"
  /\ sock[p4] # "fin"
  /\ typed[p4] > 0 => sock[p4] = "open"
  /\ \A p \in ThreePeers : sock[p] \in {"idle", "open", "fin", "closed"}

(* One asks who is there, or leaves as it should; the other only connects  *)
(* and goes.                                                               *)
LeaveScript ==
  p1 :> <<L("text", {a}), L("exit", {a}) \cup L("list", {a}), L("text", {y})>>
  @@ p2 :> <<>>

WatchSwap == Permutations({p2, p3})

=============================================================================
