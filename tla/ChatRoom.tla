------------------------------ MODULE ChatRoom ------------------------------
(***************************************************************************)
(* What the server promises its users: a room that people enter under a    *)
(* name nobody else has, and in which all who are in the chat hear a thing *)
(* at once and in one order.  There are no sockets, descriptors, queues,   *)
(* rounds or maps here; Room shows that Server implements this.            *)
(*                                                                         *)
(* A person is a connection.  Between the moment the server gives up a     *)
(* connection and the moment the others hear of it, the person is still in *)
(* the room and keeps the name, but hears nothing more.                    *)
(***************************************************************************)
EXTENDS Sequences, Messages

CONSTANT Peers

VARIABLES
  status,  \* where each person is
  name,    \* the name each has
  heard    \* what each person still connected has been told, in order

roomVars == <<status, name, heard>>

Present == {p \in Peers : status[p] \in {"login", "chat", "exit"}}
Members == {p \in Peers : status[p] = "chat"}
Taken == {name[p] : p \in Present} \ {NoName}

Init ==
  /\ status = [p \in Peers |-> "none"]
  /\ name = [p \in Peers |-> NoName]
  /\ heard = [p \in {} |-> <<>>]

To(people, m) == [q \in Peers |-> IF q \in people THEN <<m>> ELSE <<>>]

(* A notice to some, then a reply to one, who may be among them.           *)
Tell(others, notice, p, m) ==
  LET before == heard
  IN  heard' = [q \in DOMAIN before |->
                  before[q] \o (To(others, notice)[q] \o To({p}, m)[q])]

TellAll(people, m) ==
  LET before == heard
  IN  heard' = [q \in DOMAIN before |-> before[q] \o To(people, m)[q]]

Move(p, from, to) == status[p] = from /\ status' = [status EXCEPT ![p] = to]

Arrive(p) ==
  /\ Move(p, "none", "login")
  /\ heard' = [q \in DOMAIN heard \cup {p} |->
                 IF q = p THEN <<Plain("greeting")>> ELSE heard[q]]
  /\ UNCHANGED name

(* A line that is no name one may have.                                    *)
Retry(p) ==
  /\ status[p] = "login"
  /\ \/ TellAll({p}, Plain("prompt"))
     \/ TellAll({p}, Plain("invalid"))
     \/ Taken # {} /\ TellAll({p}, Plain("taken"))
  /\ UNCHANGED <<status, name>>

Enter(p, n) ==
  /\ n \notin Taken
  /\ Move(p, "login", "chat")
  /\ name' = [name EXCEPT ![p] = n]
  /\ Tell(Members, M("joined", n, NoName), p, M("welcome", n, NoName))

Say(p, w) ==
  /\ p \in Members
  /\ Tell(Members \ {p}, M("said", name[p], w), p, M("you", NoName, w))
  /\ UNCHANGED <<status, name>>

Whisper(p, q) ==
  /\ p \in Members /\ q \in Members
  /\ Tell({q}, M("whispered", name[p], NoName), p, M("ack", name[q], NoName))
  /\ UNCHANGED <<status, name>>

(* Only who asks is answered, and told only what is so.                    *)
Answers ==
  {Plain(kind) : kind \in {"prompt", "help", "info", "usage", "notfound"}}
    \cup {M("list", NoName, {name[q] : q \in Present})}
    \cup {Plain("notinchat") : q \in {r \in Present : status[r] = "exit"}}

Ask(p) ==
  /\ p \in Members
  /\ \E m \in Answers : TellAll({p}, m)
  /\ UNCHANGED <<status, name>>

TurnToGo(p) ==
  /\ Move(p, "chat", "exit")
  /\ TellAll({p}, Plain("confirm"))
  /\ UNCHANGED name

Return(p) ==
  /\ Move(p, "exit", "chat")
  /\ TellAll({p}, M("welcome", name[p], NoName))
  /\ UNCHANGED name

(* The connection ended, or the server ended it.                           *)
HangUp(p) ==
  /\ p \in DOMAIN heard
  /\ heard' = [q \in DOMAIN heard \ {p} |-> heard[q]]
  /\ UNCHANGED <<status, name>>

Leave(p) ==
  /\ p \in Present \ DOMAIN heard
  /\ status' = [status EXCEPT ![p] = "freed"]
  /\ name' = [name EXCEPT ![p] = NoName]
  /\ TellAll(Members \ {p}, M("left", name[p], NoName))

Step ==
  \E p \in Peers :
    \/ Arrive(p) \/ Retry(p) \/ \E n \in Names : Enter(p, n)
    \/ \E w \in Words : Say(p, w)
    \/ \E q \in Peers : Whisper(p, q)
    \/ Ask(p) \/ TurnToGo(p) \/ Return(p)
    \/ HangUp(p) \/ Leave(p)

(* The same steps, but for those that change nothing: nobody is there to   *)
(* hear what is said.  TLC then need not look for a stuttering step.       *)
Next == roomVars' # roomVars /\ Step

Spec == Init /\ [][Next]_roomVars

=============================================================================
