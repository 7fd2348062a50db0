------------------------------ MODULE Streams ------------------------------
(***************************************************************************)
(* What users see.  The stream of a connection is all the server has       *)
(* handed to the kernel for it, then what still waits in the queue of its  *)
(* client; the properties here are about the order and the number of the   *)
(* messages in it.                                                         *)
(***************************************************************************)
EXTENDS Room, SequencesExt

Queued(p) ==
  LET h == {g \in Clients : csock[g] = p}
  IN  IF h = {} THEN <<>> ELSE cout[CHOOSE g \in h : TRUE]

Stream(p) == sent[p] \o Queued(p)

Notice(m) == m.kind \in NoticeKinds

(***************************************************************************)
(* Replies                                                                 *)
(***************************************************************************)

Replies(s) == {i \in DOMAIN s : ~Notice(s[i])}

(* A user gets one greeting and then exactly one reply for every line the  *)
(* server has taken from it: no line is answered twice or not at all,      *)
(* whatever the state it is taken in, however often poll() and send()      *)
(* disappoint, and whoever had the descriptor before.                      *)
EveryLineAnswered ==
  pc \in Phases =>
    \A u \in Users :
      LET h == user[u].handle
      IN  cstate[h] # "removed" =>
            Cardinality(Replies(Stream(u)))
              = 1 + typed[u] - Len(inq[u]) - Len(cin[h])

(* Goodbye is the last word: ac_server_remove_client sends it past the     *)
(* queue, and what is in the queue then, or is put there in the rest of    *)
(* the round, is never sent.                                               *)
GoodbyeIsLast ==
  \A p \in Peers : \A i \in DOMAIN sent[p] :
    sent[p][i].kind = "goodbye" => i = Len(sent[p])

(***************************************************************************)
(* Notices                                                                 *)
(***************************************************************************)

(* At position i of stream s its user is in the chat.                      *)
Inside(s, i) ==
  \E j \in 1 .. i : /\ s[j].kind = "welcome"
                    /\ \A k \in j .. i : s[k].kind # "confirm"

(* A user hears of the others only between a welcome and the next question *)
(* whether it wants to exit (the checks of AC_STATE_CHAT in app.c:91,      *)
(* state.c:127, state.c:164 and io.c:320).                                 *)
QuietOutsideChat ==
  \A p \in Peers :
    \A i \in DOMAIN Stream(p) :
      Notice(Stream(p)[i]) => Inside(Stream(p), i)

NameTalks(m, n) == m.name = n /\ m.kind \in {"said", "whispered"}
NameJoins(m, n) == m.name = n /\ m.kind = "joined"
NameLeaves(m, n) == m.name = n /\ m.kind = "left"

(* Between two positions of s its user was asked whether it wants to exit. *)
Away(s, i, j) == \E k \in i .. j : s[k].kind = "confirm"

Coherent(s, n) ==
  \A i \in DOMAIN s : \A j \in i + 1 .. Len(s) :
    ~Away(s, i, j) =>
      /\ NameLeaves(s[i], n) /\ NameTalks(s[j], n) =>
           \E k \in i .. j : NameJoins(s[k], n)
      /\ NameJoins(s[i], n) /\ NameJoins(s[j], n) =>
           \E k \in i .. j : NameLeaves(s[k], n)

(* To one listener that stays in the chat, a name that left says nothing   *)
(* until it has joined again, and a name joins twice only if it left in    *)
(* between, even when it passes to another user.                           *)
PresenceCoherent == \A p \in Peers, n \in Names : Coherent(Stream(p), n)

(* A connection without a name is nobody to the users in the chat.  "Notify *)
(* other users that a user has left the chat." (app.c:84): who leaves was  *)
(* in the chat, hence has a name.  "List online users." (io.c:198): a      *)
(* connection that has not chosen a name is not one; io.c:278 is there to  *)
(* pass over it.                                                           *)
MembersOnly(m) ==
  /\ m.kind = "left" => m.name \in Names
  /\ m.kind = "list" => m.body \subseteq Names

StrangersUnseen ==
  \A p \in Peers : \A i \in DOMAIN Stream(p) : MembersOnly(Stream(p)[i])

(***************************************************************************)
(* Delivery                                                                *)
(***************************************************************************)

(* What was queued for a client is neither lost, nor repeated, nor         *)
(* reordered.  While queues are flushed no stream changes at all: what     *)
(* send() takes, however little, leaves the queue, and what it does not    *)
(* take stays (net.c:245-250).  And until its connection is being closed,  *)
(* all that ever happens to a user's stream is that the two loops of       *)
(* ac_app_update queue something at its end, sending nothing.              *)
StreamKept ==
  [][/\ pc = "flush" => \A p \in Peers : Stream(p)' = Stream(p)
     /\ \A u \in Users :
          (\A h \in Clients : csock[h] = u => cstate'[h] # "removed") =>
            \/ Stream(u)' = Stream(u)
            \/ /\ pc \in {"update", "reap"}
               /\ sent'[u] = sent[u]
               /\ IsPrefix(Stream(u), Stream(u)')]_vars

(***************************************************************************)
(* Why they hold: what the tables and queues have to do with the streams.  *)
(***************************************************************************)

(* Nothing a connection typed is taken before it has a user.               *)
Untaken ==
  /\ \A p \in Peers : NotYet(p) => typed[p] = Len(inq[p])
  /\ \A h \in Handles : Unmet(h) => cin[h] = <<>>

(* A goodbye is never queued; a client that was told it is about to be     *)
(* disconnected, and is not visited again.                                 *)
Told(p) == \E i \in DOMAIN sent[p] : sent[p][i].kind = "goodbye"

LastWord ==
  /\ \A h \in Clients :
       Told(csock[h]) =>
         /\ cstate[h] = "removed"
         /\ pc \in {"update", "reap", "sweep"} \cup Ends
         /\ pc = "update" => h \notin todo
  /\ \A h \in Handles : \A i \in DOMAIN cout[h] : cout[h][i].kind # "goodbye"

(* Who is in the chat has read so.                                         *)
Welcomed == \A u \in InChat : Inside(Stream(u), Len(Stream(u)))

(* The last that was read of a name, by one still in the chat, is true.    *)
GoneSince(s, n) ==
  \E i \in DOMAIN s :
    /\ NameLeaves(s[i], n)
    /\ \A k \in i .. Len(s) : s[k].kind # "confirm" /\ ~NameJoins(s[k], n)

HereSince(s, n) ==
  \E i \in DOMAIN s :
    /\ NameJoins(s[i], n)
    /\ \A k \in i .. Len(s) : s[k].kind # "confirm" /\ ~NameLeaves(s[k], n)

UpToDate ==
  \A u \in Users, n \in Names :
    /\ GoneSince(Stream(u), n) => u \in InChat /\ from_username[n] = NoPeer
    /\ HereSince(Stream(u), n) => u \in InChat /\ from_username[n] # NoPeer

(* The inductive invariant of StreamProofs.                                *)
StreamInv ==
  /\ RoomInv
  /\ Untaken
  /\ EveryLineAnswered
  /\ LastWord
  /\ GoodbyeIsLast
  /\ Welcomed
  /\ QuietOutsideChat
  /\ UpToDate
  /\ PresenceCoherent

=============================================================================
