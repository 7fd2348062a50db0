----------------------------- MODULE Chronicle -----------------------------
(***************************************************************************)
(* The server with a record of the conversation.  Messages carry no mark   *)
(* by which two users could tell that they read the same one, so the       *)
(* record is a history variable: it only watches, and hinders no step.     *)
(***************************************************************************)
EXTENDS Streams

VARIABLE log  \* what was said in the chat, in order: by whom and before whom

Entry(u) ==
  [speaker |-> u, name |-> user[u].username, body |-> Input(u).word,
   audience |-> InChat]

(* ac_state_update, AC_STATE_CHAT: a line said to all who are in the chat. *)
Utter(h) == Say(h) /\ log' = Append(log, Entry(from_handle[h]))

ChronicleInit == Init /\ log = <<>>

ChronicleNext ==
  \/ \E h \in Handles : Utter(h)
  \/ Next /\ ~ (\E h \in Handles : Say(h)) /\ UNCHANGED log

ChronicleSpec == ChronicleInit /\ [][ChronicleNext]_<<vars, log>>

ChronicleTypeOK ==
  log \in Seq([speaker : Peers, name : Names, body : Words,
               audience : SUBSET Peers])

(* How a listener reads an entry: its own line comes back without a name.  *)
Reads(p, e) ==
  IF e.speaker = p THEN M("you", NoName, e.body) ELSE M("said", e.name, e.body)

(* What p reads of the conversation, and what was said while it was there. *)
Read(s) == {i \in DOMAIN s : s[i].kind \in {"you", "said"}}
Attended(p) == {x \in DOMAIN log : p \in log[x].audience}

(* The n-th of a set of positions.                                         *)
Nth(T, i) == Cardinality({j \in T : j <= i})

(* Everyone sees the conversation in one order, the speakers too: the n-th *)
(* thing a user reads is the n-th thing said while it was in the chat.     *)
(* Nothing is missing before it, nothing comes twice, and no two users see *)
(* two things the other way round (state.c:158-171: a line is queued for   *)
(* the others and then for its speaker, within one turn of its user).      *)
SameOrder ==
  \A p \in Peers :
    \A i \in Read(Stream(p)) :
      \E x \in Attended(p) :
        /\ Stream(p)[i] = Reads(p, log[x])
        /\ Nth(Read(Stream(p)), i) = Nth(Attended(p), x)

(* And nobody who is in the room lacks any of it.                          *)
NothingMissed ==
  \A u \in Users :
    Cardinality(Read(Stream(u))) = Cardinality(Attended(u))

(* Who has no user yet has missed nothing.                                 *)
Past == \A p \in Peers : NotYet(p) => Attended(p) = {}

(* The inductive invariant of ChronicleProofs.                             *)
ChronicleInv ==
  RoomInv /\ ChronicleTypeOK /\ Past /\ SameOrder /\ NothingMissed

=============================================================================
