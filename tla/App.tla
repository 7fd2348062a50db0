-------------------------------- MODULE App --------------------------------
(***************************************************************************)
(* src/app.c, src/state.c and the commands of src/io.c: the users, their   *)
(* names, and what each line of input does in the state its user is in.    *)
(*                                                                         *)
(* The maps hold pointers to heap objects of type ac_user_t.  An object is *)
(* created once per connection, so the connection stands for its address;  *)
(* a freed object keeps its address and has state "freed".                 *)
(***************************************************************************)
EXTENDS Net

VARIABLES
  from_handle,    \* app->users.from_handle, NoPeer where there is no entry
  from_username,  \* app->users.from_username, likewise
  user            \* the ac_user_t objects

appVars == <<from_handle, from_username, user>>

UserStates == {"none", "login", "chat", "exit", "freed"}

(* Entries of from_handle, not objects: a user is what the map still has.  *)
Users == {from_handle[h] : h \in Handles} \ {NoPeer}

InChatWrong == Users

InChat == {u \in Users : user[u].state = "chat"}

AppInit ==
  /\ from_handle = [h \in Handles |-> NoPeer]
  /\ from_username = [n \in Names |-> NoPeer]
  /\ user = [p \in Peers |->
               [handle |-> FirstFd, username |-> NoName, state |-> "none"]]

(***************************************************************************)
(* Output                                                                  *)
(***************************************************************************)

To(users, m) ==
  [g \in Handles |-> IF \E u \in users : user[u].handle = g THEN <<m>> ELSE <<>>]

Reply(u, m) == Send(To({u}, m))

AnnounceWrong(others, notice, u, m) ==
  cout' = [g \in Handles |-> To(others, notice)[g] \o cout[g] \o To({u}, m)[g]]

AnnounceOthersWrong(others, notice, u, m) == Send(To(others, notice))

(* A notice to the others, and the reply to the user who caused it.        *)
Announce(others, notice, u, m) ==
  Send([g \in Handles |-> To(others, notice)[g] \o To({u}, m)[g]])

(***************************************************************************)
(* ac_app_update, first loop: each user takes one line, if it has one      *)
(***************************************************************************)

Input(u) == Head(cin[user[u].handle])

GetLineWrong(h, u, state) ==
  /\ pc = "update"
  /\ Visit("from_handle", h)
  /\ u = from_handle[h]
  /\ user[u].state = state
  /\ cin[user[u].handle] # <<>>
  /\ UNCHANGED cin

(* The user at the loop's entry h is u, in the given state, and            *)
(* ac_get_line takes its first line.                                       *)
GetLine(h, u, state) ==
  /\ pc = "update"
  /\ Visit("from_handle", h)
  /\ u = from_handle[h]
  /\ user[u].state = state
  /\ cin[user[u].handle] # <<>>
  /\ cin' = [cin EXCEPT ![user[u].handle] = Tail(@)]

SwitchTo(u, state) == user' = [user EXCEPT ![u] = [@ EXCEPT !.state = state]]

RegisteredWrong(word) == FALSE

Registered(word) == word \in Names /\ from_username[word] # NoPeer

ValidUsernameWrong(line) == line.kind = "text"

(* ac_validate_username: a line that begins with '/' is never a name.      *)
ValidUsername(line) == line.kind = "text" /\ line.word \in Names

LoginRefused(h) ==
  \E u \in Peers :
    /\ GetLine(h, u, "login")
    /\ \/ Input(u).kind = "empty" /\ Reply(u, Plain("prompt"))
       \/ /\ Input(u).kind = "text" /\ Registered(Input(u).word)
          /\ Reply(u, Plain("taken"))
       \/ /\ Input(u).kind # "empty" /\ ~ValidUsername(Input(u))
          /\ Reply(u, Plain("invalid"))
    /\ UNCHANGED <<socketVars, pc, cstate, csock, grown, appVars>>

Login(h) ==
  \E u \in Peers :
    LET name == Input(u).word
    IN  /\ GetLine(h, u, "login")
        /\ ValidUsername(Input(u)) /\ ~Registered(name)
        /\ user' = [user EXCEPT ![u] =
                      [@ EXCEPT !.username = name, !.state = "chat"]]
        /\ from_username' = [from_username EXCEPT ![name] = u]
        /\ Announce(InChat \ {u}, M("joined", name, NoName),
                    u, M("welcome", name, NoName))
        /\ UNCHANGED <<socketVars, pc, cstate, csock, grown, from_handle>>

(* What a line in the chat is answered with when only its user hears of it.*)
(* The list has everyone: it tests the state of the user who asks.         *)
WhisperError(line) ==
  IF ~Registered(line.word) THEN Plain("notfound")
  ELSE IF user[from_username[line.word]].state # "chat" THEN Plain("notinchat")
  ELSE Plain("usage")

Answer(line) ==
  CASE line.kind = "empty" -> Plain("prompt")
    [] line.kind \in {"help", "info"} -> Plain(line.kind)
    [] line.kind = "list" ->
         M("list", NoName, {user[v].username : v \in Users})
    [] OTHER -> WhisperError(line)

(* ac_handle_command: the recipient is there and something is said to it.  *)
CanWhisper(line) ==
  /\ line.kind = "whisper"
  /\ Registered(line.word)
  /\ user[from_username[line.word]].state = "chat"

Answered(h) ==
  \E u \in Peers :
    /\ GetLine(h, u, "chat")
    /\ Input(u).kind \notin {"text", "exit"}
    /\ ~CanWhisper(Input(u))
    /\ Reply(u, Answer(Input(u)))
    /\ UNCHANGED <<socketVars, pc, cstate, csock, grown, appVars>>

Whisper(h) ==
  \E u \in Peers :
    /\ GetLine(h, u, "chat")
    /\ CanWhisper(Input(u))
    /\ Announce({from_username[Input(u).word]},
                M("whispered", user[u].username, NoName),
                u, M("ack", Input(u).word, NoName))
    /\ UNCHANGED <<socketVars, pc, cstate, csock, grown, appVars>>

Say(h) ==
  \E u \in Peers :
    LET word == Input(u).word
    IN  /\ GetLine(h, u, "chat")
        /\ Input(u).kind = "text"
        /\ Announce(InChat \ {u}, M("said", user[u].username, word),
                    u, M("you", NoName, word))
        /\ UNCHANGED <<socketVars, pc, cstate, csock, grown, appVars>>

AskExit(h) ==
  \E u \in Peers :
    /\ GetLine(h, u, "chat")
    /\ Input(u).kind = "exit"
    /\ SwitchTo(u, "exit")
    /\ Reply(u, Plain("confirm"))
    /\ UNCHANGED <<socketVars, pc, cstate, csock, grown, from_handle,
                   from_username>>

Confirms(line) == line.kind = "text" /\ line.word = Yes

ConfirmExit(h) ==
  \E u \in Peers :
    /\ GetLine(h, u, "exit")
    /\ Confirms(Input(u))
    /\ RemoveClient(user[u].handle)
    /\ UNCHANGED <<listener, backlog, inq, typed, csock, cout, grown, appVars>>

CancelExit(h) ==
  \E u \in Peers :
    /\ GetLine(h, u, "exit")
    /\ ~Confirms(Input(u))
    /\ SwitchTo(u, "chat")
    /\ Reply(u, M("welcome", user[u].username, NoName))
    /\ UNCHANGED <<socketVars, pc, cstate, csock, grown, from_handle,
                   from_username>>

(***************************************************************************)
(* ac_app_update, second loop: users follow the clients                    *)
(***************************************************************************)

CreateUser(h) ==
  /\ pc = "reap"
  /\ Visit("clients", h)
  /\ cstate[h] = "new"
  /\ user' = [user EXCEPT ![csock[h]] =
                [handle |-> h, username |-> NoName, state |-> "login"]]
  /\ from_handle' = [from_handle EXCEPT ![h] = csock[h]]
  /\ cout' = [cout EXCEPT ![h] = Append(@, Plain("greeting"))]
  /\ Grow("from_handle", Cardinality(Users))
  /\ UNCHANGED <<socketVars, pc, cstate, csock, cin, from_username>>

FreeNameWrong(name) == UNCHANGED from_username

(* ac_map_remove, if ac_map_contains finds the name: that of a user who    *)
(* never logged in is the empty one, and is not in the map.                *)
FreeName(name) ==
  from_username' = [n \in Names |->
                      IF n = name THEN NoPeer ELSE from_username[n]]

RemoveUser(h) ==
  \E u \in Peers :
    LET name == user[u].username
    IN  /\ pc = "reap"
        /\ Visit("clients", h)
        /\ cstate[h] = "removed"
        /\ u = from_handle[h]
        /\ from_handle' = [from_handle EXCEPT ![user[u].handle] = NoPeer]
        /\ FreeName(name)
        /\ user' = [user EXCEPT ![u] =
                      [@ EXCEPT !.username = NoName, !.state = "freed"]]
        /\ Send(To(InChat \ {u}, M("left", name, NoName)))
        /\ UNCHANGED <<socketVars, pc, cstate, csock, cin, grown>>

UpdateStep ==
  \E h \in Handles :
    \/ LoginRefused(h) \/ Login(h)
    \/ Answered(h) \/ Whisper(h) \/ Say(h)
    \/ AskExit(h) \/ ConfirmExit(h) \/ CancelExit(h)
    \/ CreateUser(h) \/ RemoveUser(h)

AppTypeOK ==
  /\ from_handle \in [Handles -> Peers \cup {NoPeer}]
  /\ from_username \in [Names -> Peers \cup {NoPeer}]
  /\ user \in [Peers -> [handle : Handles, username : Names \cup {NoName},
                         state : UserStates]]

=============================================================================
