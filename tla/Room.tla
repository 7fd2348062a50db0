-------------------------------- MODULE Room --------------------------------
(* The room of ChatRoom, as Server keeps it.                               *)
EXTENDS Server

(* The users whose client is not being disconnected.                       *)
Online == {u \in Users : cstate[user[u].handle] # "removed"}

(* What has been handed to the kernel for a user, and what still waits in  *)
(* the queue of its client: each send() only moves the line between them.  *)
Heard == [u \in Online |-> sent[u] \o cout[user[u].handle]]

ChatRoom ==
  INSTANCE ChatRoom WITH
    status <- [p \in Peers |-> user[p].state],
    name   <- [p \in Peers |-> user[p].username],
    heard  <- Heard

(***************************************************************************)
(* Why it does: a connection whose user is still to be made has no past.   *)
(***************************************************************************)

Unmet(h) == cstate[h] = "new" /\ from_handle[h] = NoPeer

NotYet(p) ==
  \/ sock[p] = "idle"
  \/ Waiting(p)
  \/ \E h \in Handles : csock[h] = p /\ Unmet(h)

Listed ==
  \A p \in Peers : user[p].state \in {"login", "chat", "exit"} => p \in Users
Unknown ==
  \A p \in Peers :
    NotYet(p) =>
      user[p].state = "none" /\ user[p].username = NoName /\ sent[p] = <<>>
Quiet == \A h \in Handles : Unmet(h) => cout[h] = <<>>

(* The inductive invariant of RoomProofs.                                  *)
RoomInv == Inv /\ Listed /\ Unknown /\ Quiet

(* Every interleaving of the server's rounds with what peers and kernel do *)
(* is a behaviour of the room: each line a user types is one step of it,   *)
(* heard by exactly those who are in the chat, lost to nobody by a short   *)
(* send() or by another's failure, and a name is free again exactly when   *)
(* its user is gone (app.c:40-104, state.c:81-200, net.c:242-251).         *)
IsChatRoom == ChatRoom!Spec

=============================================================================
