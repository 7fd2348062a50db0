------------------------------- MODULE Server -------------------------------
(***************************************************************************)
(* src/main.c: the server is one loop, ac_server_poll then ac_app_update,  *)
(* over the tables of Net and App, among peers that act at any moment.     *)
(* The invariants here relate the three tables to each other and to the    *)
(* sockets; Streams has those about what the users see.                    *)
(***************************************************************************)
EXTENDS App

vars == <<socketVars, netVars, appVars>>

Init == SocketInit /\ NetInit /\ AppInit

WithLineWrong ==
  {h \in Handles : from_handle[h] # NoPeer /\ user[from_handle[h]].state = "chat"
                   /\ cin[user[from_handle[h]].handle] # <<>>}

(* The users with a line to take: ac_get_line does nothing for the others. *)
WithLine ==
  {h \in Handles : /\ from_handle[h] # NoPeer
                   /\ cin[user[from_handle[h]].handle] # <<>>}

CameOrGoneWrong == {h \in Handles : cstate[h] = "new"}

CameOrGone == {h \in Handles : cstate[h] \in {"new", "removed"}}

(* ac_server_poll returns, and ac_app_update enters its first loop.        *)
EndFlush ==
  /\ pc = "flush"
  /\ todo = {}
  /\ pc' = "update"
  /\ todo' = WithLine
  /\ UNCHANGED <<socketVars, cstate, csock, cin, cout, grown, appVars>>

(* The second loop visits the clients that came or go.                     *)
EndUpdate ==
  /\ pc = "update"
  /\ todo = {}
  /\ pc' = "reap"
  /\ todo' = CameOrGone
  /\ UNCHANGED <<socketVars, cstate, csock, cin, cout, grown, appVars>>

EndReap ==
  /\ pc = "reap"
  /\ todo = {}
  /\ pc' = "sweep"
  /\ UNCHANGED <<socketVars, todo, cstate, csock, cin, cout, grown, appVars>>

ServerStep ==
  \/ PollStep /\ UNCHANGED appVars
  \/ UpdateStep
  \/ EndFlush \/ EndUpdate \/ EndReap

Next ==
  \/ ServerStep
  \/ PeerStep /\ UNCHANGED <<netVars, appVars>>

Spec == Init /\ [][Next]_vars

(* The process runs as long as it can; peers owe nothing.                  *)
FairSpec == Spec /\ WF_vars(ServerStep)

TypeOK == SocketTypeOK /\ NetTypeOK /\ AppTypeOK

(***************************************************************************)
(* The tables                                                              *)
(***************************************************************************)

(* A user of the map is reached under its own descriptor, and the client   *)
(* of that descriptor is the user's own connection: after any number of    *)
(* closed and reused descriptors no user reads from, or writes to, a later *)
(* connection that got its number (net.c:101, app.c:49 and :72).           *)
UserHasClient ==
  \A h \in Handles :
    from_handle[h] # NoPeer =>
      /\ user[from_handle[h]].handle = h
      /\ csock[h] = from_handle[h]
      /\ cstate[h] # "none"

(* Where ac_app_update looks up the user of a client that is to be removed *)
(* (app.c:70), and everywhere else, every client that came online has its  *)
(* user.  Only a client of this round is without one, and a client whose   *)
(* user this round removed.                                                *)
HasUser(h) ==
  IF pc = "sweep" THEN cstate[h] # "removed"
  ELSE IF pc = "reap" /\ h \in todo THEN cstate[h] = "removed"
  ELSE IF pc = "reap" THEN cstate[h] # "removed"
  ELSE cstate[h] # "new"

ClientHasUser ==
  pc \in Phases =>
    \A h \in Clients : HasUser(h) <=> from_handle[h] # NoPeer

(* The map of names has exactly the names users now have, each for the     *)
(* user who has it.  No pointer to a freed user is left in it for          *)
(* ac_handle_command to follow, no name stays taken after its user has     *)
(* gone, and no name has two users.                                        *)
NamesExact ==
  \A u \in Peers, n \in Names :
    from_username[n] = u <=> u \in Users /\ user[u].username = n

(* A user has a name from the moment it is in the chat, and not before.    *)
NamedInChat ==
  \A u \in Users :
    /\ user[u].state \in {"login", "chat", "exit"}
    /\ (user[u].username = NoName) <=> (user[u].state = "login")

(* Every assert() on the way of a round holds: the client of a polled      *)
(* socket (net.c:219), the client of every user the first loop of          *)
(* ac_app_update visits and every user a message goes to (app.c:49,        *)
(* net.c:257 and :268), the user of every client to be removed (app.c:70). *)
AssertsHold ==
  /\ pc = "recv" => todo \subseteq Clients
  /\ pc \in {"update", "reap"} =>
       \A u \in Users : cstate[user[u].handle] # "none"
  /\ pc = "reap" =>
       \A h \in todo : cstate[h] = "removed" => from_handle[h] # NoPeer

(* A connection has a descriptor of the server exactly while it waits to   *)
(* be accepted or is the connection of a client; never two of these, and   *)
(* never two clients.  No descriptor leaks when a client is refused, leaves *)
(* or fails, and none is closed that another client has by then.           *)
HasDescriptor(p) == sock[p] \in {"open", "fin", "rst", "dead"}
Waiting(p) == \E i \in DOMAIN backlog : backlog[i] = p

SocketsAccounted ==
  /\ \A p \in Peers :
       HasDescriptor(p) <=> Waiting(p) \/ \E h \in Clients : csock[h] = p
  /\ \A h \in Clients : ~Waiting(csock[h])
  /\ \A g, h \in Clients : csock[g] = csock[h] => g = h
  /\ \A i, j \in DOMAIN backlog : backlog[i] = backlog[j] => i = j

(* Where the loops stand: the descriptors still to be visited are those    *)
(* the loop is about.                                                      *)
LoopsOK ==
  /\ \A h \in Clients : csock[h] \in Peers
  /\ pc = "start" => Clients = {}
  /\ pc = "poll" => \A h \in Handles : cstate[h] # "new"
  /\ pc \in {"accept", "recv"} => \A h \in todo : cstate[h] # "new"
  /\ pc \in {"accept", "recv", "flush"} => todo \subseteq Clients
  /\ pc = "update" => \A h \in todo : from_handle[h] # NoPeer
  /\ pc = "reap" => todo \subseteq CameOrGone

(* The inductive invariant of ServerProofs.                                *)
Inv ==
  /\ TypeOK
  /\ LoopsOK
  /\ SocketsAccounted
  /\ UserHasClient
  /\ ClientHasUser
  /\ NamesExact
  /\ NamedInChat

(***************************************************************************)
(* What a step may never do                                                *)
(***************************************************************************)

(* A name passes from nobody to a user and from its user to nobody, never  *)
(* from one user to another, and it becomes free only as its user leaves.  *)
NameHeld ==
  [][\A n \in Names :
       LET u == from_username[n]
       IN  u # NoPeer /\ from_username'[n] # u =>
             from_username'[n] = NoPeer /\ user'[u].state = "freed"]_vars

(***************************************************************************)
(* What comments of the code say and the code does not do                  *)
(***************************************************************************)

(* The end of one connection, "gracefully (0) or error (-1)" (net.c:229),  *)
(* only removes its client; it does not stop the server for the others.    *)
SurvivesPeers == pc # "sigpipe"

(* "If too many clients, reject socket with message" (net.c:132): that     *)
(* AC_CLIENTS_MAX connections come is no reason to stop.                   *)
SurvivesLoad == pc # "segv"

(***************************************************************************)
(* What must happen.  A round ends, or the process does.                   *)
(***************************************************************************)

Ended == pc \in Ends

(* A line the server has received is taken, or its client is gone.         *)
InputOf(p) == \E h \in Clients : csock[h] = p /\ cin[h] # <<>>

LinesTaken == \A p \in Peers : InputOf(p) ~> (~InputOf(p) \/ Ended)

(* What is queued for a client is sent, or its client is gone.             *)
OutputOf(p) == \E h \in Clients : csock[h] = p /\ cout[h] # <<>>

OutputFlushed == \A p \in Peers : OutputOf(p) ~> (~OutputOf(p) \/ Ended)

(* A connection that has ended is forgotten: its descriptor is closed, and *)
(* neither map of users keeps it.                                          *)
Forgotten(p) ==
  /\ sock[p] = "closed"
  /\ p \notin Users
  /\ \A n \in Names : from_username[n] # p

DeadForgotten ==
  \A p \in Peers : (sock[p] \in {"fin", "rst", "dead"}) ~> (Forgotten(p) \/ Ended)

(* A user who was told goodbye is disconnected.                            *)
GoodbyeKept ==
  \A p \in Peers :
    (\E i \in DOMAIN sent[p] : sent[p][i].kind = "goodbye")
      ~> (Forgotten(p) \/ Ended)

=============================================================================
