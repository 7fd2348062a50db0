----------------------------- MODULE RoomProofs -----------------------------
(***************************************************************************)
(* Proof that Server implements ChatRoom, under the mapping of Room.       *)
(***************************************************************************)
EXTENDS ServerProofs, Room

(* A user reaches its own client, and no other user does.                  *)
LEMMA UserFacts ==
  ASSUME Inv, NEW u \in Users
  PROVE  /\ u \in Peers /\ user[u].handle \in Handles
         /\ from_handle[user[u].handle] = u /\ csock[user[u].handle] = u
         /\ user[u].handle \in Clients
         /\ \A v \in Users : user[v].handle = user[u].handle => v = u
<1>1. ASSUME NEW v \in Users
      PROVE  /\ v \in Peers /\ user[v].handle \in Handles
             /\ from_handle[user[v].handle] = v /\ csock[user[v].handle] = v
             /\ user[v].handle \in Clients
  <2>1. PICK h \in Handles : from_handle[h] = v /\ v # NoPeer
    BY DEF Users
  <2>2. user[v].handle = h /\ csock[h] = v /\ cstate[h] # "none"
    BY <2>1 DEF Inv, UserHasClient
  <2>3. v \in Peers
    BY <2>1 DEF Inv, TypeOK, AppTypeOK
  <2> QED  BY <2>1, <2>2, <2>3 DEF Clients
<1> QED  BY <1>1

(* The connection of a user is not one whose user is still to be made.     *)
LEMMA UsersAreMet ==
  ASSUME Inv, NEW u \in Users
  PROVE  ~NotYet(u)
<1> DEFINE h == user[u].handle
<1>1. u \in Peers /\ h \in Clients /\ csock[h] = u /\ from_handle[h] = u
  BY UserFacts
<1>2. HasDescriptor(u) /\ ~Waiting(u)
  BY <1>1 DEF Inv, SocketsAccounted
<1>3. sock[u] # "idle"
  BY <1>2 DEF HasDescriptor
<1>4. ASSUME NEW g \in Handles, csock[g] = u, Unmet(g)  PROVE FALSE
  <2>1. g \in Clients /\ g = h
    BY <1>1, <1>4 DEF Unmet, Clients, Inv, SocketsAccounted
  <2> QED  BY <1>1, <1>4, <2>1, SocketsAssumption DEF Unmet
<1> QED  BY <1>2, <1>3, <1>4 DEF NotYet

(* Likewise the connection of any client that has met its user.            *)
LEMMA MetClient ==
  ASSUME Inv, NEW h \in Clients, ~Unmet(h)
  PROVE  ~NotYet(csock[h])
<1>1. csock[h] \in Peers /\ HasDescriptor(csock[h]) /\ ~Waiting(csock[h])
  BY DEF Inv, SocketsAccounted, LoopsOK
<1>2. ASSUME NEW g \in Handles, csock[g] = csock[h], Unmet(g)  PROVE FALSE
  BY <1>2 DEF Unmet, Clients, Inv, SocketsAccounted
<1> QED  BY <1>1, <1>2 DEF NotYet, HasDescriptor

-----------------------------------------------------------------------------
(* Who has no user yet has had none before: connections go from idle to    *)
(* waiting to a new client, never back.                                    *)
LEMMA NotYetKept ==
  ASSUME \A q \in Peers : sock'[q] = "idle" => sock[q] = "idle",
         \A q : Waiting(q)' => Waiting(q),
         \A h \in Handles : Unmet(h)' => Unmet(h) /\ csock'[h] = csock[h],
         NEW p \in Peers, NotYet(p)'
  PROVE  NotYet(p)
BY DEF NotYet

LEMMA NotYetStep ==
  ASSUME Inv, Next, NEW p \in Peers, NotYet(p)'
  PROVE  NotYet(p)
<1> USE DEF Inv, TypeOK, SocketTypeOK, NetTypeOK
<1> DEFINE Idle == \A q \in Peers : sock'[q] = "idle" => sock[q] = "idle"
           Wait == \A q : Waiting(q)' => Waiting(q)
           Met  == \A h \in Handles : Unmet(h)' => Unmet(h) /\ csock'[h] = csock[h]
<1>0. UNCHANGED backlog => Wait
  BY DEF Waiting
<1>1. UNCHANGED <<cstate, csock, from_handle>> => Met
  BY DEF Unmet
<1>2. Idle /\ Wait /\ Met => NotYet(p)
  BY NotYetKept
<1>3. backlog # <<>> /\ backlog' = Tail(backlog) => Wait
  <2> SUFFICES ASSUME backlog # <<>>, backlog' = Tail(backlog), NEW q,
                      NEW i \in DOMAIN Tail(backlog), Tail(backlog)[i] = q
               PROVE  \E j \in DOMAIN backlog : backlog[j] = q
    BY DEF Waiting
  <2>1. i + 1 \in DOMAIN backlog /\ backlog[i + 1] = q
    <3>1. backlog \in Seq(Peers)
      OBVIOUS
    <3> HIDE DEF Inv, TypeOK, SocketTypeOK, NetTypeOK
    <3> QED  BY <3>1, TailIsShifted
  <2> QED  BY <2>1
<1> HIDE DEF Idle, Wait, Met
<1>4. ASSUME NEW q \in Peers, Connect(q), UNCHANGED <<netVars, appVars>>
      PROVE  NotYet(p)
  <2>1. Waiting(p)' => Waiting(p) \/ p = q
    <3>1. backlog' = Append(backlog, q) /\ backlog \in Seq(Peers)
      BY <1>4 DEF Connect
    <3>2. \A i \in DOMAIN Append(backlog, q) :
            (i \in DOMAIN backlog /\ Append(backlog, q)[i] = backlog[i])
              \/ Append(backlog, q)[i] = q
      <4> HIDE DEF Inv, TypeOK, SocketTypeOK, NetTypeOK
      <4> QED  BY <3>1, AppendsOne
    <3> HIDE DEF Inv
    <3> QED  BY <3>1, <3>2 DEF Waiting
  <2>2. sock[q] = "idle" /\ \A r \in Peers : sock'[r] = "idle" => sock[r] = "idle"
    BY <1>4 DEF Connect
  <2>3. UNCHANGED <<cstate, csock, from_handle>>
    BY <1>4 DEF netVars, appVars
  <2> QED  BY <2>1, <2>2, <2>3 DEF NotYet, Unmet
<1>5. ASSUME NEW i \in DOMAIN backlog, Abort(i), UNCHANGED <<netVars, appVars>>
      PROVE  NotYet(p)
  <2>1. Wait
    <3>1. backlog' = Without(backlog, i) /\ backlog \in Seq(Peers)
      BY <1>5 DEF Abort, Without
    <3>2. Distinct(backlog)
      BY DEF SocketsAccounted, Distinct
    <3> HIDE DEF Inv
    <3>3. \A x : (\E k \in DOMAIN Without(backlog, i) : Without(backlog, i)[k] = x)
                   => \E k \in DOMAIN backlog : backlog[k] = x
      BY <3>1, <3>2, WithoutDistinct, SMTT(30)
    <3> QED  BY <3>1, <3>3 DEF Waiting, Wait
  <2>2. Idle
    BY <1>5 DEF Abort, Idle
  <2> QED  BY <1>1, <1>2, <1>5, <2>1, <2>2 DEF netVars, appVars
<1>6. ASSUME NEW q \in Peers, UNCHANGED <<netVars, appVars>>,
             (\E l \in Line : Type(q, l)) \/ Close(q) \/ Reset(q)
      PROVE  NotYet(p)
  <2>1. Idle /\ UNCHANGED backlog
    BY <1>6 DEF Type, Close, Reset, Idle
  <2> QED  BY <1>0, <1>1, <1>2, <1>6, <2>1 DEF netVars, appVars
<1>7. CASE Sweep /\ UNCHANGED appVars
  <2>1. Idle /\ UNCHANGED backlog
    BY <1>7 DEF Sweep, CloseSockets, Idle
  <2>2. Met
    BY <1>7 DEF Sweep, Unmet, Met
  <2> QED  BY <1>0, <1>2, <2>1, <2>2
<1>8. ASSUME NEW h \in Handles, AddClient(h), UNCHANGED appVars
      PROVE  NotYet(p)
  <2>1. /\ UNCHANGED <<sock, from_handle>> /\ Wait
        /\ csock' = [csock EXCEPT ![h] = Head(backlog)]
        /\ cstate' = [cstate EXCEPT ![h] = "new"]
    BY <1>3, <1>8 DEF AddClient, appVars
  <2>2. Waiting(Head(backlog))
    BY <1>8 DEF AddClient, Waiting
  <2>3. ASSUME NEW g \in Handles, csock'[g] = p, Unmet(g)'  PROVE NotYet(p)
    <3>1. CASE g = h
      BY <2>1, <2>2, <2>3, <3>1 DEF NotYet
    <3>2. CASE g # h
      BY <2>1, <2>3, <3>2 DEF NotYet, Unmet
    <3> QED  BY <3>1, <3>2
  <2> QED  BY <2>1, <2>3 DEF NotYet, Wait
<1>9. CASE Refuse /\ UNCHANGED appVars
  <2>1. Idle
    BY <1>9 DEF Refuse, CloseSockets, Idle
  <2>2. Wait
    BY <1>3, <1>9 DEF Refuse
  <2> QED  BY <1>1, <1>2, <1>9, <2>1, <2>2 DEF Refuse, appVars
<1>10. ASSUME NEW h \in Handles,
              (RecvEnd(h) /\ UNCHANGED appVars) \/ ConfirmExit(h)
       PROVE  NotYet(p)
  <2>1. /\ cstate' \in {cstate, [cstate EXCEPT ![h] = "removed"]}
        /\ UNCHANGED <<csock, from_handle, backlog>>
    BY <1>10, MarkStep DEF ConfirmExit, RecvEnd, appVars
  <2>2. Met
    BY <2>1 DEF Unmet, Met
  <2>3. Idle
    BY <1>10 DEF RecvEnd, ConfirmExit, RemoveClient, Idle
  <2> QED  BY <1>0, <1>2, <2>1, <2>2, <2>3
<1>11. ASSUME NEW h \in Handles, CreateUser(h) \/ RemoveUser(h)
       PROVE  NotYet(p)
  <2>1. /\ UNCHANGED <<sock, backlog, cstate, csock>>
        /\ \/ /\ from_handle' = [from_handle EXCEPT ![h] = csock[h]]
              /\ csock[h] # NoPeer
           \/ /\ from_handle' = [from_handle EXCEPT ![h] = NoPeer]
              /\ cstate[h] = "removed"
    <3>1. ASSUME CreateUser(h)  PROVE <2>1!:
      <4>1. csock[h] \in Peers /\ csock[h] # NoPeer
        BY <3>1, FreshUser, SocketsAssumption
      <4> QED  BY <3>1, <4>1 DEF CreateUser, socketVars
    <3>2. ASSUME RemoveUser(h)  PROVE <2>1!:
      <4>1. PICK u \in Peers : RemoveUser(h)!(u) /\ user[u].handle = h
        BY <3>2, RemovedUser
      <4>2. /\ UNCHANGED <<socketVars, cstate, csock>> /\ cstate[h] = "removed"
            /\ from_handle' = [from_handle EXCEPT ![h] = NoPeer]
        <5> HIDE DEF Inv, TypeOK, SocketTypeOK, NetTypeOK
        <5> QED  BY <4>1
      <4> QED  BY <4>2 DEF socketVars
    <3> QED  BY <1>11, <3>1, <3>2
  <2>2. Idle
    BY <2>1 DEF Idle
  <2>3. Met
    BY <2>1 DEF Met, Unmet, AppTypeOK
  <2> QED  BY <1>0, <1>2, <2>1, <2>2, <2>3
<1>12. CASE UNCHANGED <<sock, backlog, cstate, csock, from_handle>>
  <2>1. Idle
    BY <1>12 DEF Idle
  <2> QED  BY <1>0, <1>1, <1>2, <1>12, <2>1
<1>13. ASSUME NEW h \in Handles, FlushFails(h), UNCHANGED appVars
       PROVE  NotYet(p)
  <2>1. Idle /\ UNCHANGED <<backlog, cstate, csock, from_handle>>
    BY <1>13 DEF FlushFails, Idle, appVars
  <2> QED  BY <1>0, <1>1, <1>2, <2>1
<1>14. CASE PollStep /\ UNCHANGED appVars
  BY <1>7, <1>8, <1>9, <1>10, <1>12, <1>13, <1>14
     DEF PollStep, Listen, ListenFails, Poll, PollFails, AcceptFails,
         RefuseKilled, EndRecv, ReadFreedBucket, RecvData, RecvNothing,
         FlushSome, FlushKilled, socketVars, appVars
<1>15. CASE UpdateStep
  BY <1>10, <1>11, <1>12, <1>15
     DEF UpdateStep, LoginRefused, Login, Answered, Whisper, Say, AskExit,
         CancelExit, socketVars, appVars
<1>16. CASE EndFlush \/ EndUpdate \/ EndReap
  BY <1>12, <1>16 DEF EndFlush, EndUpdate, EndReap, socketVars, appVars
<1> QED  BY <1>4, <1>5, <1>6, <1>14, <1>15, <1>16 DEF Next, ServerStep, PeerStep

(* What changes of who is met: only a new client is not.                   *)
LEMMA UnmetStep ==
  ASSUME Inv, Next, NEW h \in Handles, Unmet(h)', ~AddClient(h)
  PROVE  Unmet(h)
<1> USE DEF Inv, TypeOK, NetTypeOK, AppTypeOK
<1>1. CASE UNCHANGED tables
  BY <1>1 DEF tables, Unmet
<1>2. CASE Sweep /\ UNCHANGED appVars
  BY <1>2 DEF Sweep, Unmet
<1>3. ASSUME NEW g \in Handles, AddClient(g), UNCHANGED appVars  PROVE Unmet(h)
  BY <1>3 DEF AddClient, appVars, Unmet
<1>4. ASSUME NEW g \in Handles,
             (RecvEnd(g) /\ UNCHANGED appVars) \/ ConfirmExit(g)
      PROVE  Unmet(h)
  <2>1. /\ cstate' \in {cstate, [cstate EXCEPT ![g] = "removed"]}
        /\ UNCHANGED from_handle
    BY <1>4, MarkStep DEF ConfirmExit, appVars
  <2> QED  BY <2>1 DEF Unmet
<1>5. ASSUME NEW g \in Handles, Login(g) \/ AskExit(g) \/ CancelExit(g)
      PROVE  Unmet(h)
  BY <1>5 DEF Login, AskExit, CancelExit, Unmet
<1>6. ASSUME NEW g \in Handles, CreateUser(g)  PROVE Unmet(h)
  <2>1. from_handle[g] = NoPeer
    BY <1>6, FreshUser
  <2> QED  BY <1>6, <2>1 DEF CreateUser, Unmet
<1>7. ASSUME NEW g \in Handles, RemoveUser(g)  PROVE Unmet(h)
  <2>1. PICK u \in Peers : RemoveUser(g)!(u) /\ user[u].handle = g
    BY <1>7, RemovedUser
  <2>2. /\ UNCHANGED cstate /\ cstate[g] = "removed"
        /\ from_handle' = [from_handle EXCEPT ![g] = NoPeer]
    BY <2>1
  <2> QED  BY <2>2 DEF Unmet
<1> HIDE DEF Inv, TypeOK, NetTypeOK, AppTypeOK
<1> QED  BY <1>1, <1>2, <1>3, <1>4, <1>5, <1>6, <1>7, TableSteps

(* A line that changes its user object changes no other.                   *)
LEMMA LineStep ==
  ASSUME Inv, NEW h \in Handles, Login(h) \/ AskExit(h) \/ CancelExit(h)
  PROVE  \E u \in Users :
           /\ from_handle[h] = u /\ user[u].handle = h
           /\ UNCHANGED from_handle /\ Users' = Users
           /\ \A v \in Peers \ {u} : user'[v] = user[v]
           /\ \A v \in Peers : user'[v].handle = user[v].handle
<1> USE DEF Inv, TypeOK, AppTypeOK
<1>1. ASSUME NEW u \in Peers, NEW state, GetLine(h, u, state), UNCHANGED from_handle,
             \A v \in Peers \ {u} : user'[v] = user[v],
             user'[u].handle = user[u].handle
      PROVE  \E v \in Users :
               /\ from_handle[h] = v /\ user[v].handle = h
               /\ UNCHANGED from_handle /\ Users' = Users
               /\ \A w \in Peers \ {v} : user'[w] = user[w]
               /\ \A w \in Peers : user'[w].handle = user[w].handle
  <2>1. u \in Users /\ from_handle[h] = u /\ user[u].handle = h
    BY <1>1, RemovesOwnClient
  <2>2. Users' = Users
    BY <1>1 DEF Users
  <2> QED  BY <1>1, <2>1, <2>2
<1>2. CASE Login(h)
  <2>1. PICK u \in Peers : Login(h)!(u)
    BY <1>2 DEF Login
  <2>2. /\ GetLine(h, u, "login") /\ UNCHANGED from_handle
        /\ \A v \in Peers \ {u} : user'[v] = user[v]
        /\ user'[u].handle = user[u].handle
    BY <2>1
  <2> QED  BY <1>1, <2>2
<1>3. CASE AskExit(h) \/ CancelExit(h)
  <2>1. PICK u \in Peers, from \in {"chat", "exit"}, to \in {"chat", "exit"} :
          GetLine(h, u, from) /\ SwitchTo(u, to) /\ UNCHANGED from_handle
    BY <1>3 DEF AskExit, CancelExit
  <2>2. /\ \A v \in Peers \ {u} : user'[v] = user[v]
        /\ user'[u].handle = user[u].handle
    BY <2>1 DEF SwitchTo
  <2> QED  BY <1>1, <2>1, <2>2
<1> QED  BY <1>2, <1>3

LEMMA ListedStep ==
  ASSUME Inv, Listed, Next
  PROVE  Listed'
<1> USE DEF Inv, TypeOK, NetTypeOK, AppTypeOK, Listed
<1>1. CASE UNCHANGED <<from_handle, user>>
  BY <1>1 DEF Users
<1>2. ASSUME NEW h \in Handles, Login(h) \/ AskExit(h) \/ CancelExit(h)
      PROVE  Listed'
  <2>1. PICK u \in Users : /\ Users' = Users
                           /\ \A v \in Peers \ {u} : user'[v] = user[v]
    BY <1>2, LineStep
  <2> QED  BY <2>1
<1>3. ASSUME NEW h \in Handles, CreateUser(h)  PROVE Listed'
  <2> DEFINE u == csock[h]
  <2>1. u \in Peers /\ from_handle[h] = NoPeer
    BY <1>3, FreshUser
  <2>2. Users' = Users \cup {u}
    <3>1. from_handle' = [from_handle EXCEPT ![h] = u]
      BY <1>3 DEF CreateUser
    <3> QED  BY <2>1, <3>1, SocketsAssumption DEF Users
  <2>3. \A v \in Peers \ {u} : user'[v] = user[v]
    BY <1>3, <2>1 DEF CreateUser
  <2> QED  BY <2>2, <2>3
<1>4. ASSUME NEW h \in Handles, RemoveUser(h)  PROVE Listed'
  <2> PICK u \in Peers : /\ RemoveUser(h)!(u)
                         /\ user[u].handle = h /\ u = from_handle[h]
                         /\ \A g \in Handles \ {h} : from_handle[g] # u
    BY <1>4, RemovedUser
  <2>1. Users' = Users \ {u}
    <3>1. from_handle' = [from_handle EXCEPT ![h] = NoPeer]
      OBVIOUS
    <3> QED  BY <3>1 DEF Users
  <2>2. /\ \A v \in Peers \ {u} : user'[v] = user[v]
        /\ user'[u].state = "freed"
    OBVIOUS
  <2> QED  BY <2>1, <2>2
<1> QED  BY <1>1, <1>2, <1>3, <1>4, TableSteps DEF tables, appVars, ConfirmExit

LEMMA MetNext == (Inv => \A u \in Users : ~NotYet(u))'
<1>1. Inv => \A u \in Users : ~NotYet(u)
  BY UsersAreMet
<1> QED  BY <1>1, PTL

(* A user object is made and changed only for a connection with a user.    *)
LEMMA UserKept ==
  ASSUME Inv, Inv', Next, NEW p \in Peers, NotYet(p)'
  PROVE  user'[p] = user[p]
<1>1. p \notin Users /\ p \notin Users'
  <2>1. NotYet(p)
    BY NotYetStep
  <2> QED  BY <2>1, UsersAreMet, MetNext
<1> USE DEF Inv, TypeOK, NetTypeOK, AppTypeOK
<1>2. CASE UNCHANGED user
  BY <1>2
<1>3. ASSUME NEW h \in Handles, Login(h) \/ AskExit(h) \/ CancelExit(h)
      PROVE  user'[p] = user[p]
  <2>1. PICK u \in Users : \A v \in Peers \ {u} : user'[v] = user[v]
    BY <1>3, LineStep
  <2> QED  BY <1>1, <2>1
<1>4. ASSUME NEW h \in Handles, CreateUser(h)  PROVE user'[p] = user[p]
  <2>1. csock[h] \in Users'
    <3>1. csock[h] \in Peers
      BY <1>4, FreshUser
    <3>2. from_handle'[h] = csock[h] /\ h \in Handles
      BY <1>4 DEF CreateUser
    <3> QED  BY <3>1, <3>2, SocketsAssumption DEF Users
  <2> QED  BY <1>1, <1>4, <2>1 DEF CreateUser
<1>5. ASSUME NEW h \in Handles, RemoveUser(h)  PROVE user'[p] = user[p]
  <2>1. PICK u \in Peers : RemoveUser(h)!(u) /\ u = from_handle[h]
    BY <1>5, RemovedUser
  <2>2. u \in Users
    BY <2>1, SocketsAssumption DEF Users
  <2> QED  BY <1>1, <2>1, <2>2
<1> QED  BY <1>2, <1>3, <1>4, <1>5, TableSteps DEF tables, appVars, ConfirmExit

(* Nor is anything sent to a connection without one, but a refusal, which  *)
(* closes it.                                                              *)
LEMMA SentKept ==
  ASSUME Inv, Quiet, Next, NEW p \in Peers, NotYet(p)'
  PROVE  sent'[p] = sent[p]
<1>1. NotYet(p) /\ p \notin Users
  BY NotYetStep, UsersAreMet
<1>2. CASE UNCHANGED sent
  BY <1>2
<1>3. CASE Refuse
  <2>0. PICK q : q = Head(backlog)
    OBVIOUS
  <2>1. /\ backlog \in Seq(Peers) /\ backlog # <<>> /\ Distinct(backlog)
        /\ sock \in [Peers -> SockStates]
    BY <1>3 DEF Inv, TypeOK, SocketTypeOK, SocketsAccounted, Distinct, Refuse
  <2>2. q \in Peers /\ Waiting(q)
    <3>1. q = backlog[1] /\ 1 \in DOMAIN backlog /\ q \in Peers
      BY <2>0, <2>1
    <3> QED  BY <3>1 DEF Waiting
  <2>3. ~Waiting(q)'
    <3>1. backlog' = Tail(backlog)
      BY <1>3 DEF Refuse
    <3>2. ~\E i \in DOMAIN Tail(backlog) : Tail(backlog)[i] = q
      BY <2>0, <2>1, TailDistinct
    <3>3. Waiting(q)' <=> \E i \in DOMAIN backlog' : backlog'[i] = q
      BY DEF Waiting
    <3> QED  BY <3>1, <3>2, <3>3
  <2>4. sock'[q] = "closed"
    BY <1>3, <2>0, <2>2 DEF Refuse, CloseSockets
  <2>5. \A h \in Handles : Unmet(h)' => csock'[h] # q
    <3>1. \A h \in Clients : csock[h] # q
      BY <2>2 DEF Inv, SocketsAccounted
    <3>2. UNCHANGED <<cstate, csock>>
      BY <1>3 DEF Refuse
    <3> QED  BY <3>1, <3>2 DEF Unmet, Clients
  <2>6. p # q
    <3> QED  BY <2>3, <2>4, <2>5 DEF NotYet
  <2>7. sent \in [Peers -> Seq(Msg)]
    BY DEF Inv, TypeOK, SocketTypeOK
  <2> QED  BY <1>3, <2>0, <2>2, <2>6, <2>7 DEF Refuse
<1>4. ASSUME NEW h \in Handles, FlushSome(h)  PROVE sent'[p] = sent[p]
  <2> DEFINE q == csock[h]
  <2>1. h \in Clients /\ q \in Peers /\ sent \in [Peers -> Seq(Msg)]
    BY <1>4 DEF FlushSome, Visit, Inv, LoopsOK, TypeOK, SocketTypeOK
  <2>2. PICK n \in 0 .. Len(cout[h]) :
          sent' = [sent EXCEPT ![q] = @ \o SubSeq(cout[h], 1, n)]
    BY <1>4 DEF FlushSome
  <2>3. CASE p # q
    BY <2>1, <2>2, <2>3
  <2>4. CASE p = q
    <3>1. Unmet(h)
      BY <1>1, <2>1, <2>4, MetClient
    <3>2. cout[h] = <<>>
      BY <3>1 DEF Quiet
    <3>3. SubSeq(cout[h], 1, n) = <<>> /\ sent[q] \o <<>> = sent[q]
      <4>1. n = 0
        BY <2>2, <3>2
      <4>2. SubSeq(<<>>, 1, 0) = <<>>
        OBVIOUS
      <4>3. sent[q] \in Seq(Msg)
        BY <2>1
      <4> QED  BY <3>2, <4>1, <4>2, <4>3, ConcatEmptySeq
    <3> QED  BY <2>1, <2>2, <2>4, <3>3
  <2> QED  BY <2>3, <2>4
<1>5. ASSUME NEW h \in Handles, ConfirmExit(h)  PROVE sent'[p] = sent[p]
  <2>1. PICK u \in Peers : ConfirmExit(h)!(u)
    BY <1>5 DEF ConfirmExit
  <2>2. csock[user[u].handle] = u /\ u \in Users
    BY <2>1, RemovesOwnClient
  <2>3. \/ UNCHANGED sent
        \/ sent' = [sent EXCEPT ![u] = Append(@, Plain("goodbye"))]
    BY <2>1, <2>2 DEF RemoveClient
  <2>4. sent \in [Peers -> Seq(Msg)]
    BY DEF Inv, TypeOK, SocketTypeOK
  <2> QED  BY <1>1, <2>2, <2>3, <2>4
<1>6. CASE PeerStep
  BY <1>6, <1>2 DEF PeerStep, Connect, Type, Close, Reset, Abort
<1>7. CASE PollStep
  BY <1>2, <1>3, <1>4, <1>7
     DEF PollStep, Listen, ListenFails, Sweep, Poll, PollFails, AcceptFails,
         RefuseKilled, EndRecv, ReadFreedBucket, AddClient, RecvData,
         RecvNothing, RecvEnd, FlushFails, FlushKilled, socketVars
<1>8. CASE UpdateStep
  BY <1>2, <1>5, <1>8
     DEF UpdateStep, LoginRefused, Login, Answered, Whisper, Say, AskExit,
         CancelExit, CreateUser, RemoveUser, socketVars
<1>9. CASE EndFlush \/ EndUpdate \/ EndReap
  BY <1>2, <1>9 DEF EndFlush, EndUpdate, EndReap, socketVars
<1> QED  BY <1>6, <1>7, <1>8, <1>9 DEF Next, ServerStep

-----------------------------------------------------------------------------
(* Whom the application writes to: users.                                  *)
LEMMA InChatAreUsers == InChat \subseteq Users
BY DEF InChat

LEMMA WhisperedIsUser ==
  ASSUME Inv, NEW word, word \in Names, from_username[word] # NoPeer
  PROVE  /\ from_username[word] \in Users
         /\ user[from_username[word]].username = word
BY DEF Inv, TypeOK, AppTypeOK, NamesExact

(* Every batch is addressed to users.                                      *)
ToUsers(batch) ==
  \A g \in Handles : (\A u \in Users : user[u].handle # g) => batch[g] = <<>>

LEMMA ToToUsers ==
  ASSUME NEW users \in SUBSET Users, NEW m
  PROVE  ToUsers(To(users, m))
BY DEF ToUsers, To

LEMMA AnnounceToUsers ==
  ASSUME NEW others \in SUBSET Users, NEW users \in SUBSET Users,
         NEW notice \in Msg, NEW m \in Msg
  PROVE  ToUsers([g \in Handles |-> To(others, notice)[g] \o To(users, m)[g]])
<1> SUFFICES ASSUME NEW g \in Handles, \A u \in Users : user[u].handle # g
             PROVE  To(others, notice)[g] \o To(users, m)[g] = <<>>
  BY DEF ToUsers
<1>1. To(others, notice)[g] = <<>> /\ To(users, m)[g] = <<>>
  BY DEF To
<1>2. <<>> \o <<>> = <<>>
  OBVIOUS
<1> QED  BY <1>1, <1>2

LEMMA Addressed ==
  ASSUME Inv, NEW h \in Handles,
         \/ LoginRefused(h) \/ Login(h) \/ Answered(h) \/ Whisper(h) \/ Say(h)
         \/ AskExit(h) \/ CancelExit(h) \/ RemoveUser(h)
  PROVE  \E batch : ToUsers(batch) /\ Send(batch)
<1>1. ASSUME NEW u \in Users, NEW m, Reply(u, m)
      PROVE  \E batch : ToUsers(batch) /\ Send(batch)
  BY <1>1, ToToUsers DEF Reply
<1>2. ASSUME NEW others \in SUBSET Users, NEW u \in Users, NEW notice \in Msg,
             NEW m \in Msg, Announce(others, notice, u, m)
      PROVE  \E batch : ToUsers(batch) /\ Send(batch)
  BY <1>2, AnnounceToUsers DEF Announce
<1>3. \A u \in Users : user[u].username \in Names \cup {NoName}
  BY UserFacts DEF Inv, TypeOK, AppTypeOK
<1>4. TypeOK
  BY DEF Inv
<1>5. CASE LoginRefused(h) \/ Answered(h) \/ AskExit(h) \/ CancelExit(h)
  <2>1. ASSUME NEW u \in Peers, NEW state, NEW m, GetLine(h, u, state), Reply(u, m)
        PROVE  \E batch : ToUsers(batch) /\ Send(batch)
    <3>1. u \in Users
      BY <2>1, RemovesOwnClient
    <3> QED  BY <1>1, <2>1, <3>1
  <2>2. CASE LoginRefused(h)
    <3>1. PICK u \in Peers : LoginRefused(h)!(u)
      BY <2>2 DEF LoginRefused
    <3>2. GetLine(h, u, "login") /\ \E m : Reply(u, m)
      BY <3>1
    <3> QED  BY <2>1, <3>2
  <2>3. CASE Answered(h)
    BY <2>1, <2>3 DEF Answered
  <2>4. CASE AskExit(h)
    BY <2>1, <2>4 DEF AskExit
  <2>5. CASE CancelExit(h)
    BY <2>1, <2>5 DEF CancelExit
  <2> QED  BY <1>5, <2>2, <2>3, <2>4, <2>5
<1>6. CASE Login(h)
  <2>1. PICK u \in Peers : Login(h)!(u)
    BY <1>6 DEF Login
  <2>2. u \in Users /\ InChat \ {u} \in SUBSET Users /\ Input(u).word \in Names
    BY <2>1, RemovesOwnClient, InChatAreUsers DEF ValidUsername
  <2>3. /\ M("joined", Input(u).word, NoName) \in Msg
        /\ M("welcome", Input(u).word, NoName) \in Msg
    BY <2>2, MsgType DEF ReplyKinds, NoticeKinds
  <2> QED  BY <1>2, <2>1, <2>2, <2>3
<1>7. CASE Whisper(h)
  <2>1. PICK u \in Peers : Whisper(h)!(u)
    BY <1>7 DEF Whisper
  <2>2. u \in Users /\ Input(u).word \in Names
        /\ {from_username[Input(u).word]} \in SUBSET Users
    BY <2>1, RemovesOwnClient, WhisperedIsUser DEF CanWhisper, Registered
  <2>3. /\ M("whispered", user[u].username, NoName) \in Msg
        /\ M("ack", Input(u).word, NoName) \in Msg
    BY <1>3, <2>2, MsgType DEF ReplyKinds, NoticeKinds
  <2> QED  BY <1>2, <2>1, <2>2, <2>3
<1>8. CASE Say(h)
  <2>1. PICK u \in Peers : Say(h)!(u)
    BY <1>8 DEF Say
  <2>2. u \in Users /\ InChat \ {u} \in SUBSET Users /\ Input(u).word \in Words
    BY <1>4, <2>1, RemovesOwnClient, InChatAreUsers, GetLineType
  <2>3. /\ M("said", user[u].username, Input(u).word) \in Msg
        /\ M("you", NoName, Input(u).word) \in Msg
    BY <1>3, <2>2, MsgType DEF ReplyKinds, NoticeKinds
  <2> QED  BY <1>2, <2>1, <2>2, <2>3
<1>9. CASE RemoveUser(h)
  <2>1. PICK u \in Peers : Send(To(InChat \ {u}, M("left", user[u].username, NoName)))
    BY <1>9 DEF RemoveUser
  <2> QED  BY <2>1, ToToUsers, InChatAreUsers
<1> QED  BY <1>5, <1>6, <1>7, <1>8, <1>9

(* Nothing is queued for a client before it has its user.                  *)
LEMMA QuietStep ==
  ASSUME Inv, Quiet, Next
  PROVE  Quiet'
<1> SUFFICES ASSUME NEW h \in Handles, Unmet(h)'  PROVE cout'[h] = <<>>
  BY DEF Quiet
<1>0. cout \in [Handles -> Seq(Msg)]
  BY DEF Inv, TypeOK, NetTypeOK
<1>1. ASSUME AddClient(h)  PROVE cout'[h] = <<>>
  BY <1>0, <1>1 DEF AddClient
<1> SUFFICES ASSUME ~AddClient(h)  PROVE cout'[h] = <<>>
  BY <1>1
<1>2. Unmet(h) /\ cout[h] = <<>>
  BY UnmetStep DEF Quiet
<1>3. CASE UNCHANGED cout
  BY <1>2, <1>3
<1>4. CASE Sweep
  BY <1>2, <1>4 DEF Sweep
<1>5. ASSUME NEW g \in Handles, AddClient(g)  PROVE cout'[h] = <<>>
  BY <1>0, <1>2, <1>5 DEF AddClient
<1>6. ASSUME NEW g \in Handles, FlushSome(g)  PROVE cout'[h] = <<>>
  <2>1. PICK n \in 0 .. Len(cout[g]) : cout' = [cout EXCEPT ![g] = Unsent(@, n)]
    BY <1>6 DEF FlushSome
  <2>2. CASE g # h
    BY <1>0, <1>2, <2>1, <2>2
  <2>3. CASE g = h
    <3>1. n = 0 /\ Unsent(<<>>, 0) = <<>>
      BY <1>2, <2>1, <2>3 DEF Unsent
    <3> QED  BY <1>0, <1>2, <2>1, <2>3, <3>1
  <2> QED  BY <2>2, <2>3
<1>7. ASSUME NEW g \in Handles, CreateUser(g)  PROVE cout'[h] = <<>>
  <2>1. from_handle'[g] # NoPeer
    BY <1>7, FreshUser, SocketsAssumption DEF CreateUser, Inv, TypeOK, AppTypeOK
  <2>2. g # h
    BY <2>1 DEF Unmet
  <2> QED  BY <1>0, <1>2, <1>7, <2>2 DEF CreateUser
<1>8. ASSUME NEW g \in Handles,
             \/ LoginRefused(g) \/ Login(g) \/ Answered(g) \/ Whisper(g) \/ Say(g)
             \/ AskExit(g) \/ CancelExit(g) \/ RemoveUser(g)
      PROVE  cout'[h] = <<>>
  <2>1. PICK batch : ToUsers(batch) /\ Send(batch)
    BY <1>8, Addressed
  <2>2. \A u \in Users : user[u].handle # h
    BY <1>2, UserFacts, SocketsAssumption DEF Unmet
  <2>3. batch[h] = <<>> /\ cout'[h] = cout[h] \o batch[h]
    BY <2>1, <2>2 DEF ToUsers, Send
  <2>4. <<>> \o <<>> = <<>>
    OBVIOUS
  <2> QED  BY <1>2, <2>3, <2>4
<1>9. CASE PollStep
  BY <1>3, <1>4, <1>5, <1>6, <1>9
     DEF PollStep, Listen, ListenFails, Poll, PollFails, AcceptFails, Refuse,
         RefuseKilled, EndRecv, ReadFreedBucket, RecvData, RecvNothing, RecvEnd,
         FlushFails, FlushKilled
<1>10. CASE UpdateStep
  <2>1. \A g \in Handles : ConfirmExit(g) => UNCHANGED cout
    BY DEF ConfirmExit
  <2> QED  BY <1>3, <1>7, <1>8, <1>10, <2>1 DEF UpdateStep
<1>11. CASE PeerStep /\ UNCHANGED <<netVars, appVars>>
  BY <1>3, <1>11 DEF netVars
<1>12. CASE EndFlush \/ EndUpdate \/ EndReap
  BY <1>3, <1>12 DEF EndFlush, EndUpdate, EndReap
<1> QED  BY <1>9, <1>10, <1>11, <1>12 DEF Next, ServerStep

LEMMA InitRoomInv == Init => RoomInv
<1> SUFFICES ASSUME Init  PROVE RoomInv
  OBVIOUS
<1>1. Listed /\ Unknown /\ Quiet
  BY DEF Init, SocketInit, NetInit, AppInit, Listed, Unknown, Quiet
<1> QED  BY <1>1, InitInv DEF RoomInv

LEMMA StepRoomInv == RoomInv /\ [Next]_vars => RoomInv'
<1> SUFFICES ASSUME RoomInv, [Next]_vars  PROVE RoomInv'
  OBVIOUS
<1> USE DEF RoomInv
<1>1. Inv'
  BY StepInv
<1>2. CASE Next
  <2>1. Listed' /\ Quiet'
    BY <1>2, ListedStep, QuietStep
  <2>2. Unknown'
    <3> SUFFICES ASSUME NEW p \in Peers, NotYet(p)'
                 PROVE  /\ user'[p].state = "none" /\ user'[p].username = NoName
                        /\ sent'[p] = <<>>
      BY DEF Unknown
    <3>1. user'[p] = user[p] /\ sent'[p] = sent[p] /\ NotYet(p)
      BY <1>1, <1>2, UserKept, SentKept, NotYetStep
    <3> QED  BY <3>1 DEF Unknown
  <2> QED  BY <1>1, <2>1, <2>2
<1>3. CASE UNCHANGED vars
  BY <1>1, <1>3 DEF vars, socketVars, netVars, appVars, Listed, Unknown, Quiet,
                    Users, NotYet, Waiting, Unmet
<1> QED  BY <1>2, <1>3

(* No connection has a past before it has a user.                          *)
THEOREM RoomInvHolds == Spec => []RoomInv
BY InitRoomInv, StepRoomInv, PTL DEF Spec

-----------------------------------------------------------------------------
(* The room's people and names are those of the server's tables.           *)
LEMMA RoomPeople ==
  ASSUME RoomInv
  PROVE  /\ Users \in SUBSET Peers
         /\ ChatRoom!Present = Users
         /\ ChatRoom!Members = InChat
         /\ \A u \in Users : user[u].username # NoName =>
              user[u].username \in ChatRoom!Taken
         /\ \A n \in Names : from_username[n] = NoPeer => n \notin ChatRoom!Taken
<1> USE DEF RoomInv
<1>1. Users \in SUBSET Peers
  BY UserFacts
<1>2. ChatRoom!Present = Users
  BY <1>1 DEF ChatRoom!Present, Listed, Inv, NamedInChat
<1>3. ChatRoom!Members = InChat
  BY <1>1 DEF ChatRoom!Members, InChat, Listed
<1>4. \A u \in Users : user[u].username # NoName =>
        user[u].username \in ChatRoom!Taken
  BY <1>1, <1>2 DEF ChatRoom!Taken
<1>5. ASSUME NEW n \in Names, from_username[n] = NoPeer, n \in ChatRoom!Taken
      PROVE  FALSE
  <2>1. PICK u \in Users : user[u].username = n
    BY <1>1, <1>2, <1>5 DEF ChatRoom!Taken
  <2> QED  BY <1>1, <1>5, <2>1, SocketsAssumption DEF Inv, NamesExact
<1> QED  BY <1>1, <1>2, <1>3, <1>4, <1>5

LEMMA SameHeard ==
  ASSUME Online' = Online,
         \A u \in Online :
           sent'[u] \o cout'[user'[u].handle] = sent[u] \o cout[user[u].handle]
  PROVE  Heard' = Heard
BY DEF Heard

(* A batch is heard, by those who are online, where their own queue ends.  *)
LEMMA HeardBatch ==
  ASSUME Inv, NEW batch \in [Handles -> Seq(Msg)], Send(batch),
         Online' = Online, UNCHANGED sent,
         \A u \in Online : user'[u].handle = user[u].handle
  PROVE  Heard' = [u \in Online |-> Heard[u] \o batch[user[u].handle]]
<1> SUFFICES ASSUME NEW u \in Online
             PROVE  sent'[u] \o cout'[user'[u].handle]
                      = Heard[u] \o batch[user[u].handle]
  BY DEF Heard
<1> DEFINE h == user[u].handle
<1>1. u \in Peers /\ h \in Handles
  BY UserFacts DEF Online
<1>2. sent[u] \in Seq(Msg) /\ cout[h] \in Seq(Msg) /\ batch[h] \in Seq(Msg)
  BY <1>1 DEF Inv, TypeOK, SocketTypeOK, NetTypeOK
<1>3. cout'[h] = cout[h] \o batch[h]
  BY <1>1 DEF Send
<1>4. (sent[u] \o cout[h]) \o batch[h] = sent[u] \o (cout[h] \o batch[h])
  <2>1. \A s, t, v \in Seq(Msg) : (s \o t) \o v = s \o (t \o v)
    BY ConcatAssociative
  <2> QED  BY <1>2, <2>1, Zenon
<1> QED  BY <1>3, <1>4 DEF Heard

(* What a batch holds for one user.                                        *)
LEMMA ToAt ==
  ASSUME Inv, NEW users \in SUBSET Users, NEW m, NEW u \in Users
  PROVE  To(users, m)[user[u].handle] = ChatRoom!To(users, m)[u]
<1>1. u \in Peers /\ user[u].handle \in Handles
      /\ \A v \in users : user[v].handle = user[u].handle => v = u
  BY UserFacts
<1> QED  BY <1>1 DEF To, ChatRoom!To

LEMMA TellsAll ==
  ASSUME Inv, NEW users \in SUBSET Users, NEW m \in Msg, Send(To(users, m)),
         Online' = Online, UNCHANGED sent,
         \A u \in Online : user'[u].handle = user[u].handle
  PROVE  ChatRoom!TellAll(users, m)
<1>1. To(users, m) \in [Handles -> Seq(Msg)]
  BY ToType
<1>2. Heard' = [u \in Online |-> Heard[u] \o To(users, m)[user[u].handle]]
  BY <1>1, HeardBatch
<1>3. Online \subseteq Users /\ DOMAIN Heard = Online
  BY DEF Online, Heard
<1>4. \A u \in Online : To(users, m)[user[u].handle] = ChatRoom!To(users, m)[u]
  BY <1>3, ToAt
<1> QED  BY <1>2, <1>3, <1>4 DEF ChatRoom!TellAll

LEMMA Tells ==
  ASSUME Inv, NEW others \in SUBSET Users, NEW notice \in Msg,
         NEW p \in Users, NEW m \in Msg, Announce(others, notice, p, m),
         Online' = Online, UNCHANGED sent,
         \A u \in Online : user'[u].handle = user[u].handle
  PROVE  ChatRoom!Tell(others, notice, p, m)
<1> DEFINE batch == [g \in Handles |-> To(others, notice)[g] \o To({p}, m)[g]]
<1>1. batch \in [Handles -> Seq(Msg)] /\ Send(batch)
  BY ToType DEF Announce
<1>2. Heard' = [u \in Online |-> Heard[u] \o batch[user[u].handle]]
  <2> HIDE DEF batch
  <2> QED  BY <1>1, HeardBatch
<1>3. Online \subseteq Users /\ DOMAIN Heard = Online
  BY DEF Online, Heard
<1>4. ASSUME NEW u \in Online
      PROVE  batch[user[u].handle]
               = ChatRoom!To(others, notice)[u] \o ChatRoom!To({p}, m)[u]
  <2>1. batch[user[u].handle]
          = To(others, notice)[user[u].handle] \o To({p}, m)[user[u].handle]
    BY <1>3, UserFacts
  <2>2. /\ To(others, notice)[user[u].handle] = ChatRoom!To(others, notice)[u]
        /\ To({p}, m)[user[u].handle] = ChatRoom!To({p}, m)[u]
    BY <1>3, ToAt
  <2> QED  BY <2>1, <2>2
<1> HIDE DEF batch
<1> QED  BY <1>2, <1>3, <1>4 DEF ChatRoom!Tell

LEMMA SameMessages ==
  /\ \A kind, name, body : ChatRoom!M(kind, name, body) = M(kind, name, body)
  /\ \A kind : ChatRoom!Plain(kind) = Plain(kind)
BY DEF ChatRoom!M, M, ChatRoom!Plain, Plain

LEMMA SameOnline ==
  ASSUME Inv, UNCHANGED <<cstate, from_handle>>,
         \A u \in Users : user'[u].handle = user[u].handle
  PROVE  Online' = Online /\ \A u \in Online : user'[u].handle = user[u].handle
BY DEF Online, Users

-----------------------------------------------------------------------------
(* One line of a user is one step of the room.                             *)
LEMMA LoginRefusedIsRetry ==
  ASSUME RoomInv, NEW h \in Handles, LoginRefused(h)
  PROVE  ChatRoom!Step
<1> USE DEF RoomInv
<1>1. PICK u \in Peers : LoginRefused(h)!(u)
  BY DEF LoginRefused
<1>2. /\ u \in Users /\ user[u].state = "login"
      /\ UNCHANGED <<sent, cstate, from_handle, user>>
  <2>1. GetLine(h, u, "login")
    BY <1>1
  <2> QED  BY <1>1, <2>1, RemovesOwnClient DEF GetLine, appVars, socketVars
<1>3. Online' = Online /\ \A v \in Online : user'[v].handle = user[v].handle
  BY <1>2, SameOnline
<1>4. ASSUME NEW m \in Msg, Reply(u, m)  PROVE ChatRoom!TellAll({u}, m)
  BY <1>2, <1>3, <1>4, TellsAll DEF Reply
<1>5. {Plain("prompt"), Plain("taken"), Plain("invalid")} \subseteq Msg
  BY MsgType DEF ReplyKinds
<1>6. \/ ChatRoom!TellAll({u}, Plain("prompt"))
      \/ ChatRoom!TellAll({u}, Plain("invalid"))
      \/ ChatRoom!Taken # {} /\ ChatRoom!TellAll({u}, Plain("taken"))
  <2>1. \/ Reply(u, Plain("prompt"))
        \/ Reply(u, Plain("taken")) /\ Registered(Input(u).word)
        \/ Reply(u, Plain("invalid"))
    BY <1>1
  <2>2. Registered(Input(u).word) => ChatRoom!Taken # {}
    <3> SUFFICES ASSUME NEW n \in Names, from_username[n] # NoPeer
                 PROVE  ChatRoom!Taken # {}
      BY DEF Registered
    <3>1. /\ from_username[n] \in Users /\ user[from_username[n]].username = n
          /\ n # NoName
      BY WhisperedIsUser, MessagesAssumption
    <3> QED  BY <3>1, RoomPeople
  <2> QED  BY <1>4, <1>5, <2>1, <2>2
<1>7. ChatRoom!Retry(u)
  BY <1>1, <1>2, <1>6, SameMessages DEF ChatRoom!Retry, appVars
<1> QED  BY <1>1, <1>7 DEF ChatRoom!Step

LEMMA LoginIsEnter ==
  ASSUME RoomInv, NEW h \in Handles, Login(h)
  PROVE  ChatRoom!Step
<1> USE DEF RoomInv
<1>1. PICK u \in Peers : Login(h)!(u)
  BY DEF Login
<1>0. PICK n : n = Input(u).word
  OBVIOUS
<1>2. /\ u \in Users /\ user[u].state = "login" /\ n \in Names
      /\ from_username[n] = NoPeer
      /\ user' = [user EXCEPT ![u] = [@ EXCEPT !.username = n, !.state = "chat"]]
      /\ Announce(InChat \ {u}, M("joined", n, NoName), u, M("welcome", n, NoName))
      /\ UNCHANGED <<sent, cstate, from_handle>>
  <2>1. GetLine(h, u, "login")
    BY <1>1
  <2> QED  BY <1>0, <1>1, <2>1, RemovesOwnClient
           DEF GetLine, socketVars, ValidUsername, Registered
<1>3. user \in [Peers -> UserType]
  BY DEF Inv, TypeOK, AppTypeOK, UserType
<1>4. /\ \A v \in Peers : user'[v].handle = user[v].handle
      /\ [p \in Peers |-> user'[p].state]
           = [[p \in Peers |-> user[p].state] EXCEPT ![u] = "chat"]
      /\ [p \in Peers |-> user'[p].username]
           = [[p \in Peers |-> user[p].username] EXCEPT ![u] = n]
  BY <1>2, <1>3 DEF UserType
<1>5. Online' = Online /\ \A v \in Online : user'[v].handle = user[v].handle
  BY <1>2, <1>4, RoomPeople, SameOnline
<1>6. InChat \ {u} = InChat /\ InChat \in SUBSET Users
  BY <1>2, InChatAreUsers DEF InChat
<1>7. M("joined", n, NoName) \in Msg /\ M("welcome", n, NoName) \in Msg
  BY <1>2, MsgType DEF ReplyKinds, NoticeKinds
<1>8. ChatRoom!Tell(InChat, M("joined", n, NoName), u, M("welcome", n, NoName))
  BY <1>2, <1>5, <1>6, <1>7, Tells
<1>9. ChatRoom!Move(u, "login", "chat")
  BY <1>2, <1>4 DEF ChatRoom!Move
<1>10. n \notin ChatRoom!Taken /\ ChatRoom!Members = InChat
  BY <1>2, RoomPeople
<1>11. ChatRoom!Enter(u, n)
  BY <1>4, <1>8, <1>9, <1>10, SameMessages DEF ChatRoom!Enter
<1> QED  BY <1>1, <1>2, <1>11 DEF ChatRoom!Step

LEMMA SayIsSay ==
  ASSUME RoomInv, NEW h \in Handles, Say(h)
  PROVE  ChatRoom!Step
<1> USE DEF RoomInv
<1>1. PICK u \in Peers : Say(h)!(u)
  BY DEF Say
<1>2. PICK w, n : w = Input(u).word /\ n = user[u].username
  OBVIOUS
<1>3. GetLine(h, u, "chat")
  BY <1>1
<1>4. /\ u \in Users /\ u \in InChat /\ w \in Words /\ n \in Names \cup {NoName}
      /\ Announce(InChat \ {u}, M("said", n, w), u, M("you", NoName, w))
      /\ UNCHANGED <<sent, cstate, from_handle, user>>
  <2>1. u \in Users /\ u \in InChat
    BY <1>3, RemovesOwnClient DEF GetLine, InChat
  <2>2. w \in Words
    BY <1>2, <1>3, GetLineType DEF Inv
  <2>3. n \in Names \cup {NoName}
    BY <1>2 DEF Inv, TypeOK, AppTypeOK
  <2> QED  BY <1>1, <1>2, <2>1, <2>2, <2>3 DEF socketVars, appVars
<1>5. Online' = Online /\ \A v \in Online : user'[v].handle = user[v].handle
  BY <1>4, SameOnline
<1>6. M("said", n, w) \in Msg /\ M("you", NoName, w) \in Msg
  BY <1>4, MsgType DEF ReplyKinds, NoticeKinds
<1>7. ChatRoom!Tell(InChat \ {u}, M("said", n, w), u, M("you", NoName, w))
  BY <1>4, <1>5, <1>6, Tells, InChatAreUsers
<1>8. ChatRoom!Members = InChat
  BY RoomPeople
<1>9. ChatRoom!Say(u, w)
  BY <1>2, <1>4, <1>7, <1>8, SameMessages DEF ChatRoom!Say
<1> QED  BY <1>1, <1>4, <1>9 DEF ChatRoom!Step

LEMMA WhisperIsWhisper ==
  ASSUME RoomInv, NEW h \in Handles, Whisper(h)
  PROVE  ChatRoom!Step
<1> USE DEF RoomInv
<1>1. PICK u \in Peers : Whisper(h)!(u)
  BY DEF Whisper
<1>2. PICK w, n, q : /\ w = Input(u).word /\ n = user[u].username
                     /\ q = from_username[w]
  OBVIOUS
<1>3. GetLine(h, u, "chat") /\ CanWhisper(Input(u))
  BY <1>1
<1>4. u \in Users /\ u \in InChat /\ n \in Names \cup {NoName}
  <2>1. u \in Users /\ u \in InChat
    BY <1>3, RemovesOwnClient DEF GetLine, InChat
  <2> QED  BY <1>2, <2>1 DEF Inv, TypeOK, AppTypeOK
<1>5. q \in InChat /\ user[q].username = w /\ w \in Names /\ q \in Users /\ q \in Peers
  <2>1. w \in Names /\ q # NoPeer /\ user[q].state = "chat"
    BY <1>2, <1>3 DEF CanWhisper, Registered
  <2>2. q \in Users /\ user[q].username = w
    BY <1>2, <2>1, WhisperedIsUser
  <2> QED  BY <2>1, <2>2, UserFacts DEF InChat
<1>6. /\ Announce({q}, M("whispered", n, NoName), u, M("ack", w, NoName))
      /\ UNCHANGED <<sent, cstate, from_handle, user>>
  BY <1>1, <1>2 DEF socketVars, appVars
<1>7. Online' = Online /\ \A v \in Online : user'[v].handle = user[v].handle
  BY <1>6, SameOnline
<1>8. M("whispered", n, NoName) \in Msg /\ M("ack", w, NoName) \in Msg
  BY <1>4, <1>5, MsgType DEF ReplyKinds, NoticeKinds
<1>9. ChatRoom!Tell({q}, M("whispered", n, NoName), u, M("ack", w, NoName))
  BY <1>4, <1>5, <1>6, <1>7, <1>8, Tells
<1>10. ChatRoom!Members = InChat
  BY RoomPeople
<1>11. ChatRoom!Whisper(u, q)
  BY <1>2, <1>4, <1>5, <1>6, <1>9, <1>10, SameMessages DEF ChatRoom!Whisper
<1> QED  BY <1>1, <1>5, <1>11 DEF ChatRoom!Step

LEMMA AnswerIsTrue ==
  ASSUME RoomInv, NEW line \in Line, ~CanWhisper(line),
         line.kind \notin {"text", "exit"}
  PROVE  Answer(line) \in ChatRoom!Answers
<1> USE DEF RoomInv
<1>1. WhisperError(line) \in ChatRoom!Answers
  <2>1. CASE Registered(line.word) /\ user[from_username[line.word]].state # "chat"
    <3> DEFINE v == from_username[line.word]
    <3>1. v \in Users /\ user[v].username = line.word /\ line.word \in Names
      BY <2>1, WhisperedIsUser DEF Registered
    <3>2. user[v].username # NoName
      BY <3>1, MessagesAssumption
    <3>3. user[v].state = "exit"
      BY <2>1, <3>1, <3>2 DEF Inv, NamedInChat
    <3>4. v \in ChatRoom!Present /\ [p \in Peers |-> user[p].state][v] = "exit"
      BY <3>1, <3>3, RoomPeople
    <3>5. Plain("notinchat") \in ChatRoom!Answers
      <4> HIDE DEF v
      <4> QED  BY <3>4, SameMessages DEF ChatRoom!Answers
    <3> QED  BY <2>1, <3>5 DEF WhisperError
  <2>2. CASE ~Registered(line.word) \/ user[from_username[line.word]].state = "chat"
    BY <2>2, SameMessages DEF WhisperError, ChatRoom!Answers
  <2> QED  BY <2>1, <2>2
<1>2. M("list", NoName, {user[v].username : v \in Users}) \in ChatRoom!Answers
  <2>1. {user[v].username : v \in Users}
          = {[p \in Peers |-> user[p].username][v] : v \in ChatRoom!Present}
    BY RoomPeople
  <2> QED  BY <2>1, SameMessages DEF ChatRoom!Answers
<1>3. {Plain("prompt"), Plain("help"), Plain("info")} \subseteq ChatRoom!Answers
  BY SameMessages DEF ChatRoom!Answers
<1> QED  BY <1>1, <1>2, <1>3 DEF Answer

LEMMA AnsweredIsAsk ==
  ASSUME RoomInv, NEW h \in Handles, Answered(h)
  PROVE  ChatRoom!Step
<1> USE DEF RoomInv
<1>1. PICK u \in Peers : Answered(h)!(u)
  BY DEF Answered
<1>2. PICK m : m = Answer(Input(u))
  OBVIOUS
<1>3. /\ GetLine(h, u, "chat") /\ Reply(u, m)
      /\ UNCHANGED <<sent, cstate, from_handle, user>>
  BY <1>1, <1>2 DEF socketVars, appVars
<1>4. u \in Users /\ u \in InChat
  BY <1>3, RemovesOwnClient DEF GetLine, InChat
<1>5. m \in Msg /\ m \in ChatRoom!Answers
  <2>1. Input(u) \in Line /\ TypeOK
    BY <1>3, GetLineType DEF Inv
  <2> QED  BY <1>1, <1>2, <2>1, AnswerType, AnswerIsTrue
<1>6. Online' = Online /\ \A v \in Online : user'[v].handle = user[v].handle
  BY <1>3, SameOnline
<1>7. ChatRoom!TellAll({u}, m)
  BY <1>3, <1>4, <1>5, <1>6, TellsAll DEF Reply
<1>8. ChatRoom!Members = InChat
  BY RoomPeople
<1>9. ChatRoom!Ask(u)
  BY <1>3, <1>4, <1>5, <1>7, <1>8 DEF ChatRoom!Ask
<1> QED  BY <1>1, <1>9 DEF ChatRoom!Step

(* What SwitchTo does to the states and names of all.                      *)
LEMMA Switched ==
  ASSUME Inv, NEW u \in Peers, NEW state \in UserStates, SwitchTo(u, state)
  PROVE  /\ \A v \in Peers : user'[v].handle = user[v].handle
         /\ [p \in Peers |-> user'[p].state]
              = [[p \in Peers |-> user[p].state] EXCEPT ![u] = state]
         /\ [p \in Peers |-> user'[p].username] = [p \in Peers |-> user[p].username]
<1>1. user \in [Peers -> UserType]
  BY DEF Inv, TypeOK, AppTypeOK, UserType
<1>2. user' = [user EXCEPT ![u] = [@ EXCEPT !.state = state]]
  BY DEF SwitchTo
<1> QED  BY <1>1, <1>2 DEF UserType

LEMMA AskExitIsTurnToGo ==
  ASSUME RoomInv, NEW h \in Handles, AskExit(h)
  PROVE  ChatRoom!Step
<1> USE DEF RoomInv
<1>1. PICK u \in Peers : AskExit(h)!(u)
  BY DEF AskExit
<1>2. /\ GetLine(h, u, "chat") /\ Reply(u, Plain("confirm")) /\ SwitchTo(u, "exit")
      /\ UNCHANGED <<sent, cstate, from_handle>>
  BY <1>1 DEF socketVars
<1>3. u \in Users /\ user[u].state = "chat"
  BY <1>2, RemovesOwnClient DEF GetLine
<1>0. /\ \A v \in Peers : user'[v].handle = user[v].handle
      /\ [p \in Peers |-> user'[p].state]
           = [[p \in Peers |-> user[p].state] EXCEPT ![u] = "exit"]
      /\ [p \in Peers |-> user'[p].username] = [p \in Peers |-> user[p].username]
  BY <1>2, Switched DEF UserStates
<1>4. Online' = Online /\ \A v \in Online : user'[v].handle = user[v].handle
  BY <1>0, <1>2, RoomPeople, SameOnline
<1>5. Plain("confirm") \in Msg
  BY MsgType DEF ReplyKinds
<1>6. ChatRoom!TellAll({u}, Plain("confirm"))
  BY <1>2, <1>3, <1>4, <1>5, TellsAll DEF Reply
<1>7. ChatRoom!TurnToGo(u)
  BY <1>0, <1>3, <1>6, SameMessages DEF ChatRoom!TurnToGo, ChatRoom!Move
<1> QED  BY <1>1, <1>7 DEF ChatRoom!Step

LEMMA CancelExitIsReturn ==
  ASSUME RoomInv, NEW h \in Handles, CancelExit(h)
  PROVE  ChatRoom!Step
<1> USE DEF RoomInv
<1>1. PICK u \in Peers : CancelExit(h)!(u)
  BY DEF CancelExit
<1>2. PICK n : n = user[u].username
  OBVIOUS
<1>3. /\ GetLine(h, u, "exit") /\ Reply(u, M("welcome", n, NoName))
      /\ SwitchTo(u, "chat") /\ UNCHANGED <<sent, cstate, from_handle>>
  BY <1>1, <1>2 DEF socketVars
<1>4. u \in Users /\ user[u].state = "exit"
  BY <1>3, RemovesOwnClient DEF GetLine
<1>0. /\ \A v \in Peers : user'[v].handle = user[v].handle
      /\ [p \in Peers |-> user'[p].state]
           = [[p \in Peers |-> user[p].state] EXCEPT ![u] = "chat"]
      /\ [p \in Peers |-> user'[p].username] = [p \in Peers |-> user[p].username]
  BY <1>3, Switched DEF UserStates
<1>5. Online' = Online /\ \A v \in Online : user'[v].handle = user[v].handle
  BY <1>0, <1>3, RoomPeople, SameOnline
<1>6. M("welcome", n, NoName) \in Msg
  <2>1. n \in Names \cup {NoName}
    BY <1>2 DEF Inv, TypeOK, AppTypeOK
  <2> QED  BY <2>1, MsgType DEF ReplyKinds
<1>7. ChatRoom!TellAll({u}, M("welcome", n, NoName))
  BY <1>3, <1>4, <1>5, <1>6, TellsAll DEF Reply
<1>8. ChatRoom!Return(u)
  BY <1>0, <1>2, <1>4, <1>7, SameMessages DEF ChatRoom!Return, ChatRoom!Move
<1> QED  BY <1>1, <1>8 DEF ChatRoom!Step

-----------------------------------------------------------------------------
(* Coming and going.                                                       *)
LEMMA EndIsHangUp ==
  ASSUME RoomInv, NEW h \in Handles, NEW u \in Users, user[u].handle = h,
         cstate' \in {cstate, [cstate EXCEPT ![h] = "removed"]},
         UNCHANGED <<cout, appVars>>,
         \A v \in Peers \ {u} : sent'[v] = sent[v],
         cstate' = cstate => UNCHANGED sent
  PROVE  ChatRoom!Step \/ UNCHANGED ChatRoom!roomVars
<1> USE DEF RoomInv
<1>0. cstate \in [Handles -> ClientStates]
  BY DEF Inv, TypeOK, NetTypeOK
<1>1. UNCHANGED <<user, from_handle, cout>> /\ Users' = Users
  BY DEF appVars, Users
<1>2. CASE cstate' = cstate
  <2>1. Heard' = Heard
    BY <1>1, <1>2, SameOnline, SameHeard
  <2> QED  BY <1>1, <2>1 DEF ChatRoom!roomVars
<1>3. CASE cstate' # cstate
  <2>1. cstate' = [cstate EXCEPT ![h] = "removed"] /\ cstate[h] # "removed"
    BY <1>0, <1>3
  <2>2. u \in Online /\ Online' = Online \ {u}
    <3>1. \A v \in Users : user[v].handle \in Handles
                           /\ (user[v].handle = h => v = u)
      BY UserFacts
    <3> QED  BY <1>0, <1>1, <2>1, <3>1 DEF Online
  <2>3. DOMAIN Heard = Online /\ Online \subseteq Peers
    BY RoomPeople DEF Heard, Online
  <2>4. Heard' = [q \in Online \ {u} |-> Heard[q]]
    BY <1>1, <2>2, <2>3 DEF Heard
  <2>5. ChatRoom!HangUp(u)
    BY <1>1, <2>2, <2>3, <2>4 DEF ChatRoom!HangUp
  <2> QED  BY <2>5, UserFacts DEF ChatRoom!Step
<1> QED  BY <1>2, <1>3

LEMMA ConfirmExitIsHangUp ==
  ASSUME RoomInv, NEW h \in Handles, ConfirmExit(h)
  PROVE  ChatRoom!Step \/ UNCHANGED ChatRoom!roomVars
<1> USE DEF RoomInv
<1>1. PICK u \in Peers : ConfirmExit(h)!(u)
  BY DEF ConfirmExit
<1>2. u \in Users /\ user[u].handle = h /\ csock[h] = u
  BY <1>1, RemovesOwnClient
<1>3. cstate' \in {cstate, [cstate EXCEPT ![h] = "removed"]}
  BY MarkStep
<1>4. UNCHANGED <<cout, appVars>>
  BY <1>1
<1>5. sent \in [Peers -> Seq(Msg)] /\ cstate \in [Handles -> ClientStates]
  BY DEF Inv, TypeOK, SocketTypeOK, NetTypeOK
<1>6. \A v \in Peers \ {u} : sent'[v] = sent[v]
  BY <1>1, <1>2, <1>5 DEF RemoveClient
<1>7. CASE cstate' # cstate
  BY <1>2, <1>3, <1>4, <1>6, <1>7, EndIsHangUp
<1>8. CASE cstate' = cstate
  <2>1. Online' = Online /\ Users' = Users /\ UNCHANGED <<user, cout>>
    BY <1>4, <1>8 DEF Online, Users, appVars
  <2>2. CASE UNCHANGED sent
    BY <1>2, <1>3, <1>4, <1>6, <1>8, <2>2, EndIsHangUp
  <2>3. CASE ~UNCHANGED sent
    <3>1. cstate[h] = "removed"
      <4>1. cstate' = [cstate EXCEPT ![h] = "removed"]
        BY <1>1, <1>2, <2>3 DEF RemoveClient, MarkRemoved
      <4> QED  BY <1>5, <1>8, <4>1
    <3>2. u \notin Online
      BY <1>2, <3>1 DEF Online
    <3>3. \A v \in Online : sent'[v] = sent[v]
      BY <1>6, <3>2, RoomPeople DEF Online
    <3>4. Heard' = Heard
      BY <2>1, <3>3, SameHeard
    <3> QED  BY <2>1, <3>4 DEF ChatRoom!roomVars
  <2> QED  BY <2>2, <2>3
<1> QED  BY <1>7, <1>8

LEMMA RecvEndIsHangUp ==
  ASSUME RoomInv, NEW h \in Handles, RecvEnd(h), UNCHANGED appVars
  PROVE  ChatRoom!Step \/ UNCHANGED ChatRoom!roomVars
<1> USE DEF RoomInv
<1>1. /\ cstate' \in {cstate, [cstate EXCEPT ![h] = "removed"]}
      /\ cstate[h] \notin {"none", "new"}
  BY MarkStep
<1>2. UNCHANGED <<sent, cout>> /\ pc = "recv"
  BY DEF RecvEnd
<1>3. from_handle[h] # NoPeer
  BY <1>1, <1>2 DEF Inv, ClientHasUser, HasUser, Clients, Phases
<1>4. PICK u : u = from_handle[h]
  OBVIOUS
<1>5. u \in Users /\ user[u].handle = h
  BY <1>3, <1>4 DEF Users, Inv, UserHasClient
<1> QED  BY <1>1, <1>2, <1>5, EndIsHangUp

LEMMA CreateUserIsArrive ==
  ASSUME RoomInv, NEW h \in Handles, CreateUser(h)
  PROVE  ChatRoom!Step
<1> USE DEF RoomInv
<1>1. PICK p : p = csock[h]
  OBVIOUS
<1>2. /\ cstate[h] = "new"
      /\ user' = [user EXCEPT ![p] =
                    [handle |-> h, username |-> NoName, state |-> "login"]]
      /\ from_handle' = [from_handle EXCEPT ![h] = p]
      /\ cout' = [cout EXCEPT ![h] = Append(@, Plain("greeting"))]
      /\ UNCHANGED <<sent, cstate, csock>>
  BY <1>1 DEF CreateUser, socketVars
<1>3. p \in Peers /\ from_handle[h] = NoPeer /\ p \notin Users
  BY <1>1, FreshUser
<1>4. /\ user[p].state = "none" /\ user[p].username = NoName
      /\ sent[p] = <<>> /\ cout[h] = <<>>
  <2>1. Unmet(h) /\ NotYet(p)
    BY <1>1, <1>2, <1>3 DEF Unmet, NotYet
  <2> QED  BY <1>3, <2>1 DEF Unknown, Quiet
<1>6. /\ user \in [Peers -> UserType] /\ cout \in [Handles -> Seq(Msg)]
      /\ from_handle \in [Handles -> Peers \cup {NoPeer}]
  BY DEF Inv, TypeOK, AppTypeOK, NetTypeOK, UserType
<1>7. Users' = Users \cup {p}
  BY <1>2, <1>3, <1>6, SocketsAssumption DEF Users
<1>8. \A v \in Users : user'[v] = user[v] /\ user[v].handle # h /\ v \in Peers
  <2>1. \A v \in Users : v \in Peers /\ from_handle[user[v].handle] = v
    BY UserFacts
  <2>2. \A v \in Users : v # NoPeer
    BY DEF Users
  <2> QED  BY <1>2, <1>3, <1>6, <2>1, <2>2
<1>9. Online' = Online \cup {p} /\ user'[p].handle = h /\ p \notin Online
  BY <1>2, <1>3, <1>6, <1>7, <1>8 DEF Online
<1>10. Heard' = [q \in Online \cup {p} |->
                   IF q = p THEN <<Plain("greeting")>> ELSE Heard[q]]
  <2>1. sent'[p] \o cout'[h] = <<Plain("greeting")>>
    <3>1. cout'[h] = <<Plain("greeting")>>
      <4>1. cout'[h] = Append(<<>>, Plain("greeting"))
        BY <1>2, <1>4, <1>6
      <4>2. Append(<<>>, Plain("greeting")) = <<Plain("greeting")>>
        OBVIOUS
      <4> QED  BY <4>1, <4>2
    <3>2. <<Plain("greeting")>> \in Seq(Msg)
      BY MsgType DEF ReplyKinds
    <3> QED  BY <1>2, <1>4, <3>1, <3>2, ConcatEmptySeq
  <2>2. \A v \in Online : sent'[v] \o cout'[user'[v].handle] = Heard[v]
    BY <1>2, <1>6, <1>8, UserFacts DEF Online, Heard
  <2> QED  BY <1>9, <2>1, <2>2 DEF Heard
<1>11. DOMAIN Heard = Online
  BY DEF Heard
<1>12. /\ [q \in Peers |-> user'[q].state]
            = [[q \in Peers |-> user[q].state] EXCEPT ![p] = "login"]
       /\ [q \in Peers |-> user'[q].username] = [q \in Peers |-> user[q].username]
  BY <1>2, <1>3, <1>4, <1>6 DEF UserType
<1>13. ChatRoom!Arrive(p)
  BY <1>3, <1>4, <1>10, <1>11, <1>12, SameMessages DEF ChatRoom!Arrive, ChatRoom!Move
<1> QED  BY <1>3, <1>13 DEF ChatRoom!Step

LEMMA RemoveUserIsLeave ==
  ASSUME RoomInv, NEW h \in Handles, RemoveUser(h)
  PROVE  ChatRoom!Step
<1> USE DEF RoomInv
<1>1. PICK u \in Peers : /\ RemoveUser(h)!(u)
                         /\ user[u].handle = h /\ u = from_handle[h]
                         /\ \A g \in Handles \ {h} : from_handle[g] # u
  BY RemovedUser
<1>2. PICK n : n = user[u].username
  OBVIOUS
<1>3. /\ cstate[h] = "removed"
      /\ from_handle' = [from_handle EXCEPT ![h] = NoPeer]
      /\ user' = [user EXCEPT ![u] =
                    [@ EXCEPT !.username = NoName, !.state = "freed"]]
      /\ Send(To(InChat \ {u}, M("left", n, NoName)))
      /\ UNCHANGED <<sent, cstate>>
  BY <1>1, <1>2 DEF socketVars
<1>4. /\ user \in [Peers -> UserType] /\ n \in Names \cup {NoName}
      /\ from_handle \in [Handles -> Peers \cup {NoPeer}]
  BY <1>2 DEF Inv, TypeOK, AppTypeOK, UserType
<1>5. u \in Users /\ u \notin Online /\ Users' = Users \ {u}
  <2>1. u \in Users
    BY <1>1, SocketsAssumption DEF Users
  <2>2. Users' = Users \ {u}
    BY <1>1, <1>3, <1>4 DEF Users
  <2> QED  BY <1>1, <1>3, <2>1, <2>2 DEF Online
<1>6. \A v \in Peers : user'[v].handle = user[v].handle
  BY <1>3, <1>4 DEF UserType
<1>7. Online' = Online /\ \A v \in Online : user'[v].handle = user[v].handle
  BY <1>3, <1>5, <1>6, RoomPeople DEF Online
<1>8. M("left", n, NoName) \in Msg
  BY <1>4, MsgType DEF NoticeKinds
<1>9. ChatRoom!TellAll(InChat \ {u}, M("left", n, NoName))
  BY <1>3, <1>7, <1>8, TellsAll, InChatAreUsers
<1>10. /\ [q \in Peers |-> user'[q].state]
            = [[q \in Peers |-> user[q].state] EXCEPT ![u] = "freed"]
       /\ [q \in Peers |-> user'[q].username]
            = [[q \in Peers |-> user[q].username] EXCEPT ![u] = NoName]
  BY <1>3, <1>4 DEF UserType
<1>11. u \in ChatRoom!Present \ DOMAIN Heard /\ ChatRoom!Members = InChat
  BY <1>5, RoomPeople DEF Heard
<1>12. ChatRoom!Leave(u)
  BY <1>1, <1>2, <1>9, <1>10, <1>11, SameMessages DEF ChatRoom!Leave
<1> QED  BY <1>1, <1>12 DEF ChatRoom!Step

-----------------------------------------------------------------------------
(* Every other step moves lines that were said already, or none.           *)
LEMMA SameRoom ==
  ASSUME Inv, UNCHANGED appVars,
         \A u \in Users :
           cstate'[user[u].handle] = "removed" <=> cstate[user[u].handle] = "removed",
         \A u \in Online :
           sent'[u] \o cout'[user[u].handle] = sent[u] \o cout[user[u].handle]
  PROVE  UNCHANGED ChatRoom!roomVars
<1>1. UNCHANGED <<user, from_handle>> /\ Users' = Users
  BY DEF appVars, Users
<1>2. Online' = Online
  BY <1>1 DEF Online
<1>3. Heard' = Heard
  BY <1>1, <1>2, SameHeard
<1> QED  BY <1>1, <1>3 DEF ChatRoom!roomVars

LEMMA SweepIsSilent ==
  ASSUME Inv, Sweep, UNCHANGED appVars
  PROVE  UNCHANGED ChatRoom!roomVars
<1>1. ASSUME NEW u \in Users
      PROVE  /\ cstate'[user[u].handle] # "removed" /\ cstate[user[u].handle] # "removed"
             /\ cout'[user[u].handle] = cout[user[u].handle]
  <2> DEFINE h == user[u].handle
  <2>1. h \in Clients /\ h \in Handles /\ from_handle[h] # NoPeer
    BY UserFacts, SocketsAssumption DEF Users
  <2>2. cstate[h] # "removed"
    BY <2>1 DEF Sweep, Inv, ClientHasUser, HasUser, Phases
  <2> HIDE DEF h
  <2>3. cstate'[h] # "removed" /\ cout'[h] = cout[h]
    BY <2>1, <2>2 DEF Sweep
  <2> QED  BY <2>2, <2>3 DEF h
<1>2. UNCHANGED sent
  BY DEF Sweep
<1> QED  BY <1>1, <1>2, SameRoom DEF Online

LEMMA AddClientIsSilent ==
  ASSUME Inv, NEW h \in Handles, AddClient(h), UNCHANGED appVars
  PROVE  UNCHANGED ChatRoom!roomVars
<1>1. \A u \in Users : user[u].handle \in Handles /\ user[u].handle # h
  BY UserFacts DEF AddClient, LowestFree
<1>2. /\ cstate' = [cstate EXCEPT ![h] = "new"] /\ cout' = [cout EXCEPT ![h] = <<>>]
      /\ cstate \in [Handles -> ClientStates] /\ cout \in [Handles -> Seq(Msg)]
      /\ UNCHANGED sent
  BY DEF AddClient, Inv, TypeOK, NetTypeOK
<1>3. \A u \in Users : /\ cstate'[user[u].handle] = cstate[user[u].handle]
                       /\ cout'[user[u].handle] = cout[user[u].handle]
  BY <1>1, <1>2
<1> QED  BY <1>2, <1>3, SameRoom DEF Online

(* The refusal goes to a connection without a user.                        *)
LEMMA RefuseIsSilent ==
  ASSUME Inv, Refuse, UNCHANGED appVars
  PROVE  UNCHANGED ChatRoom!roomVars
<1>1. PICK q : q = Head(backlog)
  OBVIOUS
<1>2. backlog \in Seq(Peers) /\ backlog # <<>> /\ sent \in [Peers -> Seq(Msg)]
  BY DEF Refuse, Inv, TypeOK, SocketTypeOK
<1>3. Waiting(q) /\ q \in Peers
  <2>1. q = backlog[1] /\ 1 \in DOMAIN backlog /\ q \in Peers
    BY <1>1, <1>2
  <2> QED  BY <2>1 DEF Waiting
<1>4. \A u \in Users : u \in Peers /\ u # q
  BY <1>3, UsersAreMet, UserFacts DEF NotYet
<1>5. /\ sent' \in {sent, [sent EXCEPT ![q] = Append(@, Plain("refused"))]}
      /\ UNCHANGED <<cstate, cout>>
  BY <1>1 DEF Refuse
<1>6. \A u \in Users : sent'[u] = sent[u]
  BY <1>2, <1>4, <1>5
<1> QED  BY <1>5, <1>6, SameRoom DEF Online

(* send() moves a user's lines from the queue to the kernel, as many as it *)
(* takes and in their order.                                               *)
LEMMA FlushIsSilent ==
  ASSUME Inv, NEW h \in Handles, FlushSome(h), UNCHANGED appVars
  PROVE  UNCHANGED ChatRoom!roomVars
<1>1. PICK q : q = csock[h]
  OBVIOUS
<1>2. h \in Clients /\ q \in Peers
  BY <1>1 DEF FlushSome, Visit, Inv, LoopsOK
<1>3. /\ sent \in [Peers -> Seq(Msg)] /\ cout \in [Handles -> Seq(Msg)]
  BY DEF Inv, TypeOK, SocketTypeOK, NetTypeOK
<1>4. PICK n \in 0 .. Len(cout[h]) :
        /\ sent' = [sent EXCEPT ![q] = @ \o SubSeq(cout[h], 1, n)]
        /\ cout' = [cout EXCEPT ![h] = Unsent(@, n)]
  BY <1>1 DEF FlushSome
<1>5. UNCHANGED cstate
  BY DEF FlushSome
<1>6. ASSUME NEW u \in Users
      PROVE  sent'[u] \o cout'[user[u].handle] = sent[u] \o cout[user[u].handle]
  <2>1. PICK g : g = user[u].handle
    OBVIOUS
  <2>2. u \in Peers /\ g \in Handles /\ csock[g] = u /\ g \in Clients
    BY <2>1, UserFacts
  <2>3. CASE g = h
    <3>1. u = q
      BY <1>1, <2>2, <2>3
    <3>2. PICK s, c : s = sent[q] /\ c = cout[h]
      OBVIOUS
    <3>3. s \in Seq(Msg) /\ c \in Seq(Msg) /\ n \in 0 .. Len(c)
      BY <1>2, <1>3, <1>4, <3>2
    <3>4. PICK x, y : x = SubSeq(c, 1, n) /\ y = SubSeq(c, n + 1, Len(c))
      OBVIOUS
    <3>5. x \in Seq(Msg) /\ y \in Seq(Msg) /\ x \o y = c
      BY <3>3, <3>4, CutInTwo
    <3>6. sent'[u] = s \o x /\ cout'[g] = y
      BY <1>2, <1>3, <1>4, <2>3, <3>1, <3>2, <3>4 DEF Unsent
    <3>7. (s \o x) \o y = s \o (x \o y)
      <4>1. \A i, j, k \in Seq(Msg) : (i \o j) \o k = i \o (j \o k)
        BY ConcatAssociative
      <4> QED  BY <3>3, <3>5, <4>1, ZenonT(30)
    <3> QED  BY <2>1, <2>3, <3>1, <3>2, <3>5, <3>6, <3>7, Zenon
  <2>4. CASE g # h
    <3>1. u # q
      BY <1>1, <1>2, <2>2, <2>4 DEF Inv, SocketsAccounted
    <3> QED  BY <1>2, <1>3, <1>4, <2>1, <2>2, <2>4, <3>1
  <2> QED  BY <2>3, <2>4
<1> QED  BY <1>5, <1>6, SameRoom DEF Online

LEMMA IdleIsSilent ==
  ASSUME Inv, UNCHANGED <<sent, cstate, cout, appVars>>
  PROVE  UNCHANGED ChatRoom!roomVars
BY SameRoom DEF Online

-----------------------------------------------------------------------------
LEMMA RoomInit == Init => ChatRoom!Init
<1> SUFFICES ASSUME Init  PROVE ChatRoom!Init
  OBVIOUS
<1>1. Users = {} /\ Online = {}
  BY DEF Init, AppInit, Users, Online
<1>2. Heard = [u \in {} |-> <<>>]
  BY <1>1 DEF Heard
<1>3. /\ [p \in Peers |-> user[p].state] = [p \in Peers |-> "none"]
      /\ [p \in Peers |-> user[p].username] = [p \in Peers |-> NoName]
  BY DEF Init, AppInit
<1> QED  BY <1>2, <1>3 DEF ChatRoom!Init

LEMMA RoomStep ==
  RoomInv /\ [Next]_vars => [ChatRoom!Next]_(ChatRoom!roomVars)
<1> SUFFICES ASSUME RoomInv, [Next]_vars
             PROVE  ChatRoom!Step \/ UNCHANGED ChatRoom!roomVars
  BY DEF ChatRoom!Next
<1> DEFINE Goal == ChatRoom!Step \/ UNCHANGED ChatRoom!roomVars
<1>0. Inv
  BY DEF RoomInv
<1>1. CASE UNCHANGED vars
  BY <1>0, <1>1, IdleIsSilent DEF vars, socketVars, netVars
<1>2. CASE PeerStep /\ UNCHANGED <<netVars, appVars>>
  <2>1. UNCHANGED sent
    BY <1>2 DEF PeerStep, Connect, Type, Close, Reset, Abort
  <2> QED  BY <1>0, <1>2, <2>1, IdleIsSilent DEF netVars
<1>3. CASE EndFlush \/ EndUpdate \/ EndReap
  <2>1. UNCHANGED <<sent, cstate, cout, appVars>>
    BY <1>3 DEF EndFlush, EndUpdate, EndReap, socketVars
  <2> QED  BY <1>0, <2>1, IdleIsSilent
<1>4. CASE PollStep /\ UNCHANGED appVars
  <2>1. ASSUME \/ Listen \/ ListenFails \/ Poll \/ PollFails \/ AcceptFails
               \/ RefuseKilled \/ EndRecv \/ ReadFreedBucket
               \/ \E h \in Handles : \/ RecvData(h) \/ RecvNothing(h)
                                     \/ FlushFails(h) \/ FlushKilled(h)
        PROVE  Goal
    <3>1. UNCHANGED <<sent, cstate, cout>>
      BY <2>1 DEF Listen, ListenFails, Poll, PollFails, AcceptFails, RefuseKilled,
         EndRecv, ReadFreedBucket, RecvData, RecvNothing, FlushFails, FlushKilled,
         socketVars
    <3> QED  BY <1>0, <1>4, <3>1, IdleIsSilent
  <2> QED  BY <1>0, <1>4, <2>1, SweepIsSilent, AddClientIsSilent, RefuseIsSilent,
              FlushIsSilent, RecvEndIsHangUp DEF PollStep
<1>5. CASE UpdateStep
  BY <1>5, LoginRefusedIsRetry, LoginIsEnter, AnsweredIsAsk, WhisperIsWhisper,
     SayIsSay, AskExitIsTurnToGo, ConfirmExitIsHangUp, CancelExitIsReturn,
     CreateUserIsArrive, RemoveUserIsLeave DEF UpdateStep
<1> QED  BY <1>1, <1>2, <1>3, <1>4, <1>5 DEF Next, ServerStep

(* The server implements the room: for any peers, scripts, names and       *)
(* faults, whatever the order in which rounds, peers and kernel act.       *)
THEOREM ServerIsChatRoom == Spec => IsChatRoom
<1>1. Init => ChatRoom!Init
  BY RoomInit
<1>2. RoomInv /\ [Next]_vars => [ChatRoom!Next]_(ChatRoom!roomVars)
  BY RoomStep
<1> QED  BY <1>1, <1>2, RoomInvHolds, PTL DEF Spec, IsChatRoom, ChatRoom!Spec

=============================================================================
