---------------------------- MODULE MCChronicle ----------------------------
(* A small instance of Chronicle: three who log in, each under its own     *)
(* name, and talk.                                                         *)
EXTENDS Chronicle

CONSTANTS a, b, c, y, p1, p2, p3, none, noname

AllPeers == {p1, p2, p3}
AllNames == {a, b, c}
AllWords == {a, b, c, y}

L(kind, words) == [kind : {kind}, word : words]

(* The first says the same twice, the second says it once, the third may   *)
(* be refused at the login, only reads, and may go at any time.            *)
TalkScript ==
  p1 :> <<L("text", {a}), L("text", {y}), L("text", {y})>>
  @@ p2 :> <<L("text", {b}), L("text", {y})>>
  @@ p3 :> <<L("text", {c, y})>>

(* Bounds that make the run affordable: the connections of the speakers    *)
(* last, and the second comes once the others are there.                   *)
TalkBounds ==
  /\ \A p \in {p1, p2} : sock[p] \in {"idle", "open"}
  /\ sock[p2] # "idle" =>
       user[p1].state = "chat" /\ user[p3].state \in {"chat", "freed"}

=============================================================================
