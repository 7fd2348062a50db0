---------------------------- MODULE ServerProofs ----------------------------
(***************************************************************************)
(* Proofs about Server, for any peers, names, scripts of lines, faults,    *)
(* AC_CLIENTS_MAX and first descriptor.                                    *)
(***************************************************************************)
EXTENDS Server, SeqFacts

USE DEF SockStates, Phases, Ends, ClientStates, UserStates

(* Messages built by App and Net are messages.                             *)
LEMMA MsgType ==
  /\ \A kind \in ReplyKinds \cup NoticeKinds,
        name \in Names \cup {NoName},
        body \in Words \cup {NoName} \cup SUBSET (Names \cup {NoName}) :
       M(kind, name, body) \in Msg
  /\ \A kind \in ReplyKinds : Plain(kind) \in Msg
BY SMT DEF M, Plain, Msg

(* A batch keeps the queues sequences of messages.                         *)
LEMMA SendType ==
  ASSUME TypeOK, NEW batch \in [Handles -> Seq(Msg)], Send(batch)
  PROVE  cout' \in [Handles -> Seq(Msg)]
BY DEF Send, TypeOK, NetTypeOK

LEMMA ToType ==
  ASSUME NEW users, NEW m \in Msg
  PROVE  To(users, m) \in [Handles -> Seq(Msg)]
BY DEF To

LEMMA ReplyType ==
  ASSUME TypeOK, NEW u, NEW m \in Msg, Reply(u, m)
  PROVE  cout' \in [Handles -> Seq(Msg)]
BY SendType, ToType DEF Reply

LEMMA AnnounceType ==
  ASSUME TypeOK, NEW others, NEW notice \in Msg, NEW u, NEW m \in Msg,
         Announce(others, notice, u, m)
  PROVE  cout' \in [Handles -> Seq(Msg)]
<1> DEFINE batch == [g \in Handles |-> To(others, notice)[g] \o To({u}, m)[g]]
<1>1. batch \in [Handles -> Seq(Msg)]
  BY ToType
<1>2. Send(batch)
  BY DEF Announce
<1> QED  BY <1>1, <1>2, SendType

(* GetLine takes a line of the kind Line from the client of a user.        *)
LEMMA GetLineType ==
  ASSUME TypeOK, NEW h, NEW u \in Peers, NEW state, GetLine(h, u, state)
  PROVE  /\ Input(u) \in Line
         /\ Input(u).kind \in LineKinds
         /\ Input(u).word \in Words
         /\ cin' \in [Handles -> Seq(Line)]
         /\ todo' \in SUBSET Handles
<1> DEFINE c == user[u].handle
<1>1. c \in Handles
  BY DEF TypeOK, AppTypeOK
<1>2. cin[c] \in Seq(Line) /\ cin[c] # <<>>
  BY <1>1 DEF GetLine, TypeOK, NetTypeOK
<1>3. Head(cin[c]) \in Line /\ Tail(cin[c]) \in Seq(Line)
  BY <1>2
<1>4. cin' \in [Handles -> Seq(Line)]
  BY <1>1, <1>3 DEF GetLine, TypeOK, NetTypeOK
<1>5. todo' \in SUBSET Handles
  BY DEF GetLine, Visit, TypeOK, NetTypeOK
<1> QED  BY <1>3, <1>4, <1>5 DEF Input, Line

LEMMA AnswerType ==
  ASSUME TypeOK, NEW line \in Line, ~CanWhisper(line),
         line.kind \notin {"text", "exit"}
  PROVE  Answer(line) \in Msg
<1>1. WhisperError(line) \in Msg
  BY MsgType DEF WhisperError, ReplyKinds
<1>2. {user[v].username : v \in Users} \subseteq Names \cup {NoName}
  BY DEF TypeOK, AppTypeOK, Users
<1>3. M("list", NoName, {user[v].username : v \in Users}) \in Msg
  BY <1>2, MsgType DEF ReplyKinds
<1>4. \A kind \in {"prompt", "help", "info"} : Plain(kind) \in Msg
  BY MsgType DEF ReplyKinds
<1> QED  BY <1>1, <1>3, <1>4 DEF Answer

-----------------------------------------------------------------------------
LEMMA PeerStepType ==
  ASSUME TypeOK, PeerStep, UNCHANGED <<netVars, appVars>>
  PROVE  TypeOK'
<1>1. NetTypeOK' /\ AppTypeOK'
  BY DEF TypeOK, NetTypeOK, AppTypeOK, netVars, appVars, Clients
<1>2. ASSUME NEW p \in Peers, Connect(p)  PROVE SocketTypeOK'
  BY <1>2 DEF Connect, TypeOK, SocketTypeOK
<1>3. ASSUME NEW p \in Peers, NEW l \in Line, Type(p, l)  PROVE SocketTypeOK'
  BY <1>3 DEF Type, TypeOK, SocketTypeOK
<1>4. ASSUME NEW p \in Peers, Close(p)  PROVE SocketTypeOK'
  BY <1>4 DEF Close, TypeOK, SocketTypeOK
<1>5. ASSUME NEW p \in Peers, Reset(p)  PROVE SocketTypeOK'
  BY <1>5 DEF Reset, TypeOK, SocketTypeOK
<1>6. ASSUME NEW i \in DOMAIN backlog, Abort(i)  PROVE SocketTypeOK'
  <2>1. backlog \in Seq(Peers)
    BY DEF TypeOK, SocketTypeOK
  <2>2. backlog[i] \in Peers /\ backlog' \in Seq(Peers)
    <3>1. /\ SubSeq(backlog, 1, i - 1) \o SubSeq(backlog, i + 1, Len(backlog))
               \in Seq(Peers)
          /\ backlog[i] \in Peers
      BY <2>1, WithoutOne, Zenon
    <3> QED  BY <1>6, <3>1 DEF Abort
  <2>3. sock' \in [Peers -> SockStates] /\ inq' \in [Peers -> Seq(Line)]
    <3> DEFINE q == backlog[i]
    <3>1. /\ sock' = [sock EXCEPT ![q] = "closed"] /\ inq' = [inq EXCEPT ![q] = <<>>]
          /\ q \in Peers
      BY <1>6, <2>2 DEF Abort
    <3>2. sock \in [Peers -> SockStates] /\ inq \in [Peers -> Seq(Line)]
      BY DEF TypeOK, SocketTypeOK
    <3>3. <<>> \in Seq(Line) /\ "closed" \in SockStates
      OBVIOUS
    <3> HIDE DEF q
    <3>4. [sock EXCEPT ![q] = "closed"] \in [Peers -> SockStates]
      BY <3>1, <3>2, <3>3
    <3>5. [inq EXCEPT ![q] = <<>>] \in [Peers -> Seq(Line)]
      BY <3>1, <3>2, <3>3
    <3> QED  BY <3>1, <3>4, <3>5
  <2>4. UNCHANGED <<listener, sent, typed>>
    BY <1>6 DEF Abort
  <2> QED  BY <2>2, <2>3, <2>4 DEF TypeOK, SocketTypeOK
<1> QED  BY <1>1, <1>2, <1>3, <1>4, <1>5, <1>6 DEF PeerStep, TypeOK

LEMMA PollStepType ==
  ASSUME TypeOK, LoopsOK, PollStep, UNCHANGED appVars
  PROVE  TypeOK'
<1> USE DEF TypeOK, SocketTypeOK, NetTypeOK, socketVars
<1>0. AppTypeOK'
  BY DEF AppTypeOK, appVars
<1>1. CASE Listen \/ ListenFails
  BY <1>0, <1>1 DEF Listen, ListenFails, Mode
<1>1a. CASE Sweep
  BY <1>0, <1>1a DEF Sweep, CloseSockets
<1>2. CASE Poll
  BY <1>0, <1>2 DEF Poll, Clients
<1>3. CASE PollFails
  BY <1>0, <1>3 DEF PollFails
<1>4. CASE AcceptFails
  BY <1>0, <1>4 DEF AcceptFails
<1>5. CASE Refuse
  <2>1. backlog # <<>> /\ Tail(backlog) \in Seq(Peers) /\ Head(backlog) \in Peers
    BY <1>5 DEF Refuse, LoopsOK
  <2>2. sent' \in [Peers -> Seq(Msg)]
    <3>1. Append(sent[Head(backlog)], Plain("refused")) \in Seq(Msg)
      BY <2>1, MsgType DEF ReplyKinds
    <3> QED  BY <1>5, <2>1, <3>1 DEF Refuse
  <2>3. sock' \in [Peers -> SockStates] /\ inq' \in [Peers -> Seq(Line)]
    BY <1>5 DEF Refuse, CloseSockets
  <2>4. SocketTypeOK'
    BY <1>5, <2>1, <2>2, <2>3 DEF Refuse
  <2>5. NetTypeOK'
    BY <1>5 DEF Refuse
  <2> QED  BY <1>0, <2>4, <2>5
<1>6. CASE EndRecv
  BY <1>0, <1>6 DEF EndRecv, Unflushed, Clients
<1>7. CASE ReadFreedBucket
  BY <1>0, <1>7 DEF ReadFreedBucket
<1>8. ASSUME NEW h \in Handles, AddClient(h)  PROVE TypeOK'
  <2>1. backlog # <<>> /\ Tail(backlog) \in Seq(Peers) /\ Head(backlog) \in Peers
    BY <1>8 DEF AddClient, LoopsOK
  <2>2. backlog' \in Seq(Peers) /\ UNCHANGED <<sock, sent, inq>>
    BY <1>8, <2>1 DEF AddClient
  <2>3. SocketTypeOK'
    BY <1>8, <2>2 DEF AddClient
  <2>4. NetTypeOK'
    BY <1>8, <2>1 DEF AddClient, Grow
  <2> QED  BY <1>0, <2>3, <2>4
<1>9. ASSUME NEW h \in Handles, RecvData(h)  PROVE TypeOK'
  <2>1. csock[h] \in Peers
    BY <1>9 DEF RecvData, ReadSocket, LoopsOK, Clients
  <2>2. inq[csock[h]] \in Seq(Line)
    BY <2>1
  <2>3. \A n \in 1 .. Len(inq[csock[h]]) :
          /\ cin[h] \o SubSeq(inq[csock[h]], 1, n) \in Seq(Line)
          /\ SubSeq(inq[csock[h]], n + 1, Len(inq[csock[h]])) \in Seq(Line)
    BY <2>2
  <2> QED  BY <1>0, <1>9, <2>1, <2>3 DEF RecvData, ReadSocket
<1>10. ASSUME NEW h \in Handles, RecvNothing(h)  PROVE TypeOK'
  BY <1>0, <1>10 DEF RecvNothing, ReadSocket
<1>11. ASSUME NEW h \in Handles, RecvEnd(h)  PROVE TypeOK'
  BY <1>0, <1>11 DEF RecvEnd, ReadSocket, MarkRemoved
<1>12. ASSUME NEW h \in Handles, FlushSome(h)  PROVE TypeOK'
  <2>1. csock[h] \in Peers
    BY <1>12 DEF FlushSome, Visit, LoopsOK, Clients
  <2>2. cout[h] \in Seq(Msg) /\ sent[csock[h]] \in Seq(Msg)
    BY <2>1
  <2>3. \A n \in 0 .. Len(cout[h]) :
          /\ sent[csock[h]] \o SubSeq(cout[h], 1, n) \in Seq(Msg)
          /\ SubSeq(cout[h], n + 1, Len(cout[h])) \in Seq(Msg)
    BY <2>2
  <2> QED  BY <1>0, <1>12, <2>1, <2>3 DEF FlushSome, Visit, Unsent
<1>13. ASSUME NEW h \in Handles, FlushFails(h)  PROVE TypeOK'
  BY <1>0, <1>13 DEF FlushFails, Visit
<1>14. ASSUME NEW h \in Handles, FlushKilled(h)  PROVE TypeOK'
  BY <1>0, <1>14 DEF FlushKilled, Visit
<1>15. CASE RefuseKilled
  BY <1>0, <1>15 DEF RefuseKilled, Ends
<1> QED  BY <1>1, <1>1a, <1>2, <1>3, <1>4, <1>5, <1>6, <1>7, <1>8, <1>9, <1>10,
            <1>11, <1>12, <1>13, <1>14, <1>15 DEF PollStep

UserType ==
  [handle : Handles, username : Names \cup {NoName}, state : UserStates]

(* What Login and RemoveUser do to a user object.                          *)
LEMMA UserUpdateType ==
  ASSUME AppTypeOK, NEW u \in Peers, NEW name \in Names \cup {NoName},
         NEW state \in UserStates,
         user' = [user EXCEPT ![u] =
                    [@ EXCEPT !.username = name, !.state = state]]
  PROVE  user' \in [Peers -> UserType]
<1>1. user[u] \in UserType
  BY DEF AppTypeOK, UserType
<1>2. [user[u] EXCEPT !.username = name, !.state = state] \in UserType
  BY <1>1 DEF UserType
<1> QED  BY <1>2 DEF AppTypeOK, UserType

(* What AskExit and CancelExit do to a user object.                        *)
LEMMA SwitchType ==
  ASSUME AppTypeOK, NEW u \in Peers, NEW state \in UserStates,
         SwitchTo(u, state)
  PROVE  user' \in [Peers -> UserType]
<1>1. user[u] \in UserType
  BY DEF AppTypeOK, UserType
<1>2. [user[u] EXCEPT !.state = state] \in UserType
  BY <1>1 DEF UserType
<1> QED  BY <1>2 DEF AppTypeOK, UserType, SwitchTo

LEMMA UpdateStepType ==
  ASSUME TypeOK, LoopsOK, UpdateStep
  PROVE  TypeOK'
<1> USE DEF TypeOK, SocketTypeOK, NetTypeOK, AppTypeOK, socketVars, appVars
<1> SUFFICES ASSUME NEW h \in Handles,
                    \/ LoginRefused(h) \/ Login(h)
                    \/ Answered(h) \/ Whisper(h) \/ Say(h)
                    \/ AskExit(h) \/ ConfirmExit(h) \/ CancelExit(h)
                    \/ CreateUser(h) \/ RemoveUser(h)
             PROVE  TypeOK'
  BY DEF UpdateStep
<1>1. CASE LoginRefused(h)
  <2> PICK u \in Peers : LoginRefused(h)!(u)
    BY <1>1 DEF LoginRefused
  <2>1. cout' \in [Handles -> Seq(Msg)]
    BY ReplyType, MsgType DEF ReplyKinds
  <2> QED  BY <2>1, GetLineType
<1>2. CASE Login(h)
  <2> PICK u \in Peers : Login(h)!(u)
    BY <1>2 DEF Login
  <2>1. Input(u).word \in Names
    BY DEF ValidUsername
  <2>2. cout' \in [Handles -> Seq(Msg)]
    BY <2>1, AnnounceType, MsgType DEF ReplyKinds, NoticeKinds
  <2>3. cin' \in [Handles -> Seq(Line)] /\ todo' \in SUBSET Handles
    BY GetLineType
  <2>4. AppTypeOK'
    <3>1. user' \in [Peers -> UserType]
      BY <2>1, UserUpdateType
    <3>2. from_username' \in [Names -> Peers \cup {NoPeer}]
      BY <2>1
    <3> QED  BY <3>1, <3>2 DEF UserType
  <2> QED  BY <2>2, <2>3, <2>4
<1>3. CASE Answered(h)
  <2> PICK u \in Peers : Answered(h)!(u)
    BY <1>3 DEF Answered
  <2>1. Input(u) \in Line
    BY GetLineType
  <2>2. cout' \in [Handles -> Seq(Msg)]
    BY <2>1, ReplyType, AnswerType
  <2> QED  BY <2>2, GetLineType
<1>4. CASE Whisper(h)
  <2> PICK u \in Peers : Whisper(h)!(u)
    BY <1>4 DEF Whisper
  <2>1. Input(u).word \in Names /\ user[u].username \in Names \cup {NoName}
    BY DEF CanWhisper, Registered
  <2>2. cout' \in [Handles -> Seq(Msg)]
    BY <2>1, AnnounceType, MsgType DEF ReplyKinds, NoticeKinds
  <2> QED  BY <2>2, GetLineType
<1>5. CASE Say(h)
  <2> PICK u \in Peers : Say(h)!(u)
    BY <1>5 DEF Say
  <2>1. Input(u).word \in Words /\ user[u].username \in Names \cup {NoName}
    BY GetLineType
  <2>2. cout' \in [Handles -> Seq(Msg)]
    BY <2>1, AnnounceType, MsgType DEF ReplyKinds, NoticeKinds
  <2> QED  BY <2>2, GetLineType
<1>6. CASE AskExit(h)
  <2> PICK u \in Peers : AskExit(h)!(u)
    BY <1>6 DEF AskExit
  <2>1. cout' \in [Handles -> Seq(Msg)]
    BY ReplyType, MsgType DEF ReplyKinds
  <2>2. user' \in [Peers -> UserType]
    BY SwitchType
  <2> QED  BY <2>1, <2>2, GetLineType DEF UserType
<1>7. CASE ConfirmExit(h)
  <2> PICK u \in Peers : ConfirmExit(h)!(u)
    BY <1>7 DEF ConfirmExit
  <2>1. Plain("goodbye") \in Msg
    BY MsgType DEF ReplyKinds
  <2>2. cin' \in [Handles -> Seq(Line)] /\ todo' \in SUBSET Handles
    BY GetLineType
  <2>3. RemoveClient(user[u].handle)
    OBVIOUS
  <2>4. sent' \in [Peers -> Seq(Msg)]
    <3> DEFINE p == csock[user[u].handle]
    <3>1. CASE p \in Peers
      <4>1. Append(sent[p], Plain("goodbye")) \in Seq(Msg)
        BY <2>1, <3>1
      <4> QED  BY <2>3, <3>1, <4>1 DEF RemoveClient
    <3>2. CASE p \notin Peers
      BY <2>3, <3>2 DEF RemoveClient
    <3> QED  BY <3>1, <3>2
  <2>5. sock' \in [Peers -> SockStates]
    BY <2>3 DEF RemoveClient
  <2>6. cstate' \in [Handles -> ClientStates] /\ pc' \in Phases \cup Ends
    BY <2>3 DEF RemoveClient, MarkRemoved
  <2> QED  BY <2>2, <2>4, <2>5, <2>6
<1>8. CASE CancelExit(h)
  <2> PICK u \in Peers : CancelExit(h)!(u)
    BY <1>8 DEF CancelExit
  <2>1. cout' \in [Handles -> Seq(Msg)]
    BY ReplyType, MsgType DEF ReplyKinds
  <2>2. cin' \in [Handles -> Seq(Line)] /\ todo' \in SUBSET Handles
    BY GetLineType
  <2>3. user' \in [Peers -> UserType]
    BY SwitchType
  <2>4. SocketTypeOK'
    OBVIOUS
  <2>5. NetTypeOK'
    BY <2>1, <2>2
  <2>6. AppTypeOK'
    BY <2>3 DEF UserType
  <2> QED  BY <2>4, <2>5, <2>6
<1>9. CASE CreateUser(h)
  <2>1. csock[h] \in Peers
    BY <1>9 DEF CreateUser, LoopsOK, Clients
  <2>2. Plain("greeting") \in Msg
    BY MsgType DEF ReplyKinds
  <2> QED  BY <1>9, <2>1, <2>2 DEF CreateUser, Visit, Grow
<1>10. CASE RemoveUser(h)
  <2> PICK u \in Peers : RemoveUser(h)!(u)
    BY <1>10 DEF RemoveUser
  <2>1. M("left", user[u].username, NoName) \in Msg
    BY MsgType DEF NoticeKinds
  <2>2. cout' \in [Handles -> Seq(Msg)]
    BY <2>1, SendType, ToType
  <2>3. from_username' \in [Names -> Peers \cup {NoPeer}]
    BY DEF FreeName
  <2>4. user' \in [Peers -> UserType]
    BY UserUpdateType
  <2>5. from_handle' \in [Handles -> Peers \cup {NoPeer}]
    OBVIOUS
  <2> QED  BY <2>2, <2>3, <2>4, <2>5 DEF Visit, UserType
<1> QED  BY <1>1, <1>2, <1>3, <1>4, <1>5, <1>6, <1>7, <1>8, <1>9, <1>10

LEMMA StepType ==
  ASSUME TypeOK, LoopsOK, [Next]_vars
  PROVE  TypeOK'
<1>1. CASE UNCHANGED vars
  BY <1>1 DEF vars, socketVars, netVars, appVars, TypeOK, SocketTypeOK,
              NetTypeOK, AppTypeOK
<1>2. CASE EndFlush \/ EndUpdate \/ EndReap
  BY <1>2 DEF EndFlush, EndUpdate, EndReap, WithLine, CameOrGone, socketVars,
              appVars, TypeOK, SocketTypeOK, NetTypeOK, AppTypeOK
<1> QED  BY <1>1, <1>2, PeerStepType, PollStepType, UpdateStepType
         DEF Next, ServerStep

-----------------------------------------------------------------------------
(* A user of the map reaches its own client, so ac_server_remove_client    *)
(* marks a client that is there.                                           *)
LEMMA RemovesOwnClient ==
  ASSUME Inv, NEW h, NEW u \in Peers, NEW state, GetLine(h, u, state)
  PROVE  /\ h \in Handles /\ from_handle[h] = u /\ u \in Users
         /\ user[u].handle = h /\ csock[h] = u /\ cstate[h] # "none"
<1>1. h \in Handles /\ from_handle[h] = u
  BY DEF Inv, TypeOK, NetTypeOK, GetLine, Visit
<1>2. u # NoPeer
  BY SocketsAssumption
<1>3. u \in Users
  BY <1>1, <1>2 DEF Users
<1> QED  BY <1>1, <1>2, <1>3 DEF Inv, UserHasClient

LEMMA LoopsStep ==
  ASSUME Inv, Next
  PROVE  LoopsOK'
<1> USE DEF Inv, TypeOK, SocketTypeOK, NetTypeOK, AppTypeOK, LoopsOK, Clients,
            socketVars, netVars, appVars
<1>1. CASE PeerStep /\ UNCHANGED <<netVars, appVars>>
  BY <1>1 DEF CameOrGone
<1>2. CASE PollStep /\ UNCHANGED appVars
  <2>1. CASE Sweep
    BY <2>1 DEF Sweep
  <2>1a. CASE Listen \/ ListenFails
    BY <2>1a DEF Listen, ListenFails
  <2>2. CASE Poll
    BY <2>2 DEF Poll
  <2>3. CASE PollFails \/ AcceptFails \/ Refuse \/ RefuseKilled \/ ReadFreedBucket
    BY <2>3 DEF PollFails, AcceptFails, Refuse, RefuseKilled, ReadFreedBucket
  <2>4. CASE EndRecv
    BY <2>4 DEF EndRecv, Unflushed
  <2>5. ASSUME NEW h \in Handles, AddClient(h)  PROVE LoopsOK'
    BY <2>5, SMTT(30) DEF AddClient, LowestFree
  <2>6. ASSUME NEW h \in Handles, RecvData(h) \/ RecvNothing(h)  PROVE LoopsOK'
    BY <2>6, SMTT(30) DEF RecvData, RecvNothing, ReadSocket
  <2>7. ASSUME NEW h \in Handles, RecvEnd(h)  PROVE LoopsOK'
    BY <2>7 DEF RecvEnd, ReadSocket, MarkRemoved
  <2>8. ASSUME NEW h \in Handles, FlushSome(h) \/ FlushFails(h) \/ FlushKilled(h)
        PROVE  LoopsOK'
    BY <2>8 DEF FlushSome, FlushFails, FlushKilled, Visit
  <2> QED  BY <1>2, <2>1, <2>1a, <2>2, <2>3, <2>4, <2>5, <2>6, <2>7, <2>8 DEF PollStep
<1>3. CASE UpdateStep
  <2> SUFFICES ASSUME NEW h \in Handles,
                      \/ LoginRefused(h) \/ Login(h)
                      \/ Answered(h) \/ Whisper(h) \/ Say(h)
                      \/ AskExit(h) \/ ConfirmExit(h) \/ CancelExit(h)
                      \/ CreateUser(h) \/ RemoveUser(h)
               PROVE  LoopsOK'
    BY <1>3 DEF UpdateStep
  <2>1. CASE \/ LoginRefused(h) \/ Login(h) \/ Answered(h) \/ Whisper(h)
             \/ Say(h) \/ AskExit(h) \/ CancelExit(h)
    BY <2>1 DEF LoginRefused, Login, Answered, Whisper, Say, AskExit, CancelExit,
                GetLine, Visit
  <2>2. CASE ConfirmExit(h)
    <3> PICK u \in Peers : ConfirmExit(h)!(u)
      BY <2>2 DEF ConfirmExit
    <3>1. user[u].handle = h /\ csock[h] \in Peers
      BY RemovesOwnClient
    <3>2. todo' \subseteq todo /\ pc = "update"
      BY DEF GetLine, Visit
    <3>3. cstate' = cstate \/ cstate' = [cstate EXCEPT ![h] = "removed"]
      BY <3>1 DEF RemoveClient, MarkRemoved
    <3>4. pc' \in {"update", "sigpipe"}
      BY <3>2 DEF RemoveClient
    <3> QED  BY <3>1, <3>2, <3>3, <3>4
  <2>3. CASE CreateUser(h)
    BY <2>3 DEF CreateUser, Visit, CameOrGone
  <2>4. CASE RemoveUser(h)
    BY <2>4 DEF RemoveUser, Visit, CameOrGone
  <2> QED  BY <2>1, <2>2, <2>3, <2>4
<1>4. CASE EndFlush \/ EndUpdate \/ EndReap
  BY <1>4 DEF EndFlush, EndUpdate, EndReap, WithLine, CameOrGone
<1> QED  BY <1>1, <1>2, <1>3, <1>4 DEF Next, ServerStep

-----------------------------------------------------------------------------
(* The tables, and the steps that touch them.                              *)
tables == <<cstate, csock, from_handle, from_username, user>>

LEMMA TableSteps ==
  ASSUME Inv, Next
  PROVE  \/ UNCHANGED tables
         \/ Sweep /\ UNCHANGED appVars
         \/ \E h \in Handles :
              \/ AddClient(h) /\ UNCHANGED appVars
              \/ RecvEnd(h) /\ UNCHANGED appVars
              \/ Login(h)
              \/ AskExit(h) \/ ConfirmExit(h) \/ CancelExit(h)
              \/ CreateUser(h) \/ RemoveUser(h)
<1> USE DEF tables, netVars, appVars
<1>1. CASE PollStep /\ UNCHANGED appVars
  BY <1>1 DEF PollStep, Listen, ListenFails, Poll, PollFails, AcceptFails, Refuse, RefuseKilled,
     EndRecv, ReadFreedBucket, RecvData, RecvNothing, FlushSome, FlushFails, FlushKilled
<1>2. CASE UpdateStep
  BY <1>2 DEF UpdateStep, LoginRefused, Answered, Whisper, Say
<1>3. CASE EndFlush \/ EndUpdate \/ EndReap
  BY <1>3 DEF EndFlush, EndUpdate, EndReap
<1> QED  BY <1>1, <1>2, <1>3 DEF Next, ServerStep

(* What the two steps that end a client's life do to its state.            *)
LEMMA MarkStep ==
  ASSUME Inv, NEW h \in Handles, RecvEnd(h) \/ ConfirmExit(h)
  PROVE  /\ cstate' \in {cstate, [cstate EXCEPT ![h] = "removed"]}
         /\ cstate[h] \notin {"none", "new"}
         /\ UNCHANGED csock
<1>1. CASE RecvEnd(h)
  BY <1>1 DEF RecvEnd, ReadSocket, MarkRemoved, Inv, LoopsOK, Clients
<1>2. CASE ConfirmExit(h)
  <2> PICK u \in Peers : ConfirmExit(h)!(u)
    BY <1>2 DEF ConfirmExit
  <2>1. user[u].handle = h /\ cstate[h] # "none" /\ from_handle[h] # NoPeer
    BY RemovesOwnClient, SocketsAssumption
  <2>2. pc = "update"
    BY DEF GetLine
  <2>3. cstate[h] # "new"
    BY <2>1, <2>2 DEF Inv, ClientHasUser, HasUser, Clients, Phases
  <2>4. cstate' \in {cstate, [cstate EXCEPT ![h] = "removed"]}
    BY <2>1 DEF RemoveClient, MarkRemoved
  <2> QED  BY <2>1, <2>3, <2>4 DEF appVars
<1> QED  BY <1>1, <1>2

(* A client without a user yet has a connection no user has.               *)
LEMMA FreshUser ==
  ASSUME Inv, NEW h \in Handles, CreateUser(h)
  PROVE  /\ csock[h] \in Peers
         /\ from_handle[h] = NoPeer
         /\ csock[h] \notin Users
         /\ \A g \in Handles \ {h} : from_handle[g] # csock[h]
<1>1. csock[h] \in Peers
  BY DEF CreateUser, Inv, LoopsOK, Clients
<1>2. from_handle[h] = NoPeer
  BY DEF CreateUser, Visit, Inv, ClientHasUser, HasUser, Clients, Phases
<1>3. \A g \in Handles \ {h} : from_handle[g] # csock[h]
  BY <1>1, SocketsAssumption
     DEF CreateUser, Inv, UserHasClient, SocketsAccounted, Clients
<1> QED  BY <1>1, <1>2, <1>3, SocketsAssumption DEF Users

(* RemoveUser takes the entry of its own client out of from_handle.        *)
LEMMA RemovedUser ==
  ASSUME Inv, NEW h \in Handles, RemoveUser(h)
  PROVE  \E u \in Peers :
           /\ RemoveUser(h)!(u)
           /\ user[u].handle = h /\ u = from_handle[h]
           /\ \A g \in Handles \ {h} : from_handle[g] # u
<1> PICK u \in Peers : RemoveUser(h)!(u)
  BY DEF RemoveUser
<1>1. u = from_handle[h] /\ u # NoPeer
  BY SocketsAssumption
<1>2. user[u].handle = h
  BY <1>1 DEF Inv, UserHasClient
<1>3. \A g \in Handles \ {h} : from_handle[g] # u
  BY <1>1, <1>2 DEF Inv, UserHasClient
<1> QED  BY <1>1, <1>2, <1>3

LEMMA UserHasClientStep ==
  ASSUME Inv, Next
  PROVE  UserHasClient'
<1> USE DEF Inv, TypeOK, NetTypeOK, AppTypeOK, UserHasClient
<1>1. CASE UNCHANGED tables
  BY <1>1 DEF tables
<1>2. CASE Sweep /\ UNCHANGED appVars
  BY <1>2 DEF Sweep, appVars, ClientHasUser, HasUser, Clients
<1>3. ASSUME NEW h \in Handles, AddClient(h), UNCHANGED appVars
      PROVE  UserHasClient'
  <2>1. cstate[h] = "none"
    BY <1>3 DEF AddClient, LowestFree, Clients
  <2>2. /\ \A g \in Handles \ {h} : cstate'[g] = cstate[g] /\ csock'[g] = csock[g]
        /\ from_handle' = from_handle /\ user' = user
    BY <1>3 DEF AddClient, appVars
  <2>3. UserHasClient /\ cstate \in [Handles -> ClientStates]
    OBVIOUS
  <2> HIDE DEF Inv
  <2> QED  BY <2>1, <2>2, <2>3
<1>4. ASSUME NEW h \in Handles, RecvEnd(h), UNCHANGED appVars
      PROVE  UserHasClient'
  <2>1. /\ cstate' \in {cstate, [cstate EXCEPT ![h] = "removed"]}
        /\ csock' = csock
    BY <1>4, MarkStep
  <2>2. from_handle' = from_handle /\ user' = user
    BY <1>4 DEF appVars
  <2>3. UserHasClient /\ cstate \in [Handles -> ClientStates]
    OBVIOUS
  <2> HIDE DEF Inv
  <2> QED  BY <2>1, <2>2, <2>3
<1>5. ASSUME NEW h \in Handles, ConfirmExit(h)  PROVE UserHasClient'
  <2>1. UNCHANGED appVars
    BY <1>5 DEF ConfirmExit
  <2>2. /\ cstate' \in {cstate, [cstate EXCEPT ![h] = "removed"]}
        /\ csock' = csock
    BY <1>5, MarkStep
  <2>3. UserHasClient /\ cstate \in [Handles -> ClientStates]
    OBVIOUS
  <2> HIDE DEF Inv
  <2> QED  BY <2>1, <2>2, <2>3 DEF appVars
<1>6. ASSUME NEW h \in Handles, Login(h)  PROVE UserHasClient'
  <2> PICK u \in Peers : Login(h)!(u)
    BY <1>6 DEF Login
  <2>1. \A v \in Peers : user'[v].handle = user[v].handle
    OBVIOUS
  <2> QED  BY <2>1
<1>7. ASSUME NEW h \in Handles, AskExit(h) \/ CancelExit(h)  PROVE UserHasClient'
  <2>1. \A v \in Peers : user'[v].handle = user[v].handle
    <3>1. PICK u \in Peers, state \in UserStates : SwitchTo(u, state)
      BY <1>7 DEF AskExit, CancelExit
    <3> QED  BY <3>1 DEF SwitchTo
  <2>2. UNCHANGED <<from_handle, csock, cstate>>
    BY <1>7 DEF AskExit, CancelExit
  <2> QED  BY <2>1, <2>2
<1>8. ASSUME NEW h \in Handles, CreateUser(h)  PROVE UserHasClient'
  <2>1. /\ from_handle' = [from_handle EXCEPT ![h] = csock[h]]
        /\ user' = [user EXCEPT ![csock[h]] =
                      [handle |-> h, username |-> NoName, state |-> "login"]]
        /\ UNCHANGED <<csock, cstate>> /\ cstate[h] = "new"
    BY <1>8 DEF CreateUser
  <2>2. \A g \in Handles \ {h} : from_handle'[g] # NoPeer =>
          from_handle'[g] \in Peers /\ user'[from_handle'[g]] = user[from_handle[g]]
    BY <1>8, <2>1, FreshUser
  <2>3. user'[csock[h]].handle = h /\ from_handle'[h] = csock[h]
    BY <1>8, <2>1, FreshUser
  <2> QED  BY <2>1, <2>2, <2>3
<1>9. ASSUME NEW h \in Handles, RemoveUser(h)  PROVE UserHasClient'
  <2> PICK u \in Peers : /\ RemoveUser(h)!(u)
                         /\ user[u].handle = h /\ u = from_handle[h]
                         /\ \A g \in Handles \ {h} : from_handle[g] # u
    BY <1>9, RemovedUser
  <2>1. \A v \in Peers : user'[v].handle = user[v].handle
    OBVIOUS
  <2> QED  BY <2>1
<1> QED  BY <1>1, <1>2, <1>3, <1>4, <1>5, <1>6, <1>7, <1>8, <1>9, TableSteps

LEMMA ClientHasUserStep ==
  ASSUME Inv, Next
  PROVE  ClientHasUser'
<1> USE DEF Inv, TypeOK, NetTypeOK, AppTypeOK, ClientHasUser, HasUser, Clients
<1> DEFINE Middle == {"poll", "accept", "recv", "flush", "update"}
<1>1. CASE PeerStep /\ UNCHANGED <<netVars, appVars>>
  BY <1>1 DEF netVars, appVars
<1>2. CASE PollStep /\ UNCHANGED appVars
  <2> USE DEF appVars
  <2>1. CASE Sweep
    BY <1>2, <2>1 DEF Sweep
  <2>1a. CASE Listen \/ ListenFails
    <3>1. Clients = {}
      BY <2>1a DEF Listen, ListenFails, LoopsOK
    <3> QED  BY <1>2, <2>1a, <3>1 DEF Listen, ListenFails
  <2>2. CASE \/ Poll \/ PollFails \/ AcceptFails \/ Refuse \/ EndRecv
             \/ \E h \in Handles :
                  \/ RecvData(h) \/ RecvNothing(h)
                  \/ FlushSome(h) \/ FlushFails(h) \/ FlushKilled(h)
    <3>1. UNCHANGED tables /\ pc \in Middle /\ pc' \in Middle \cup Ends
      BY <1>2, <2>2 DEF tables, Poll, PollFails, AcceptFails, Refuse, EndRecv,
         RecvData, RecvNothing, FlushSome, FlushFails, FlushKilled
    <3> QED  BY <3>1 DEF tables
  <2>3. CASE RefuseKilled \/ ReadFreedBucket
    BY <2>3 DEF RefuseKilled, ReadFreedBucket
  <2>4. ASSUME NEW h \in Handles, AddClient(h)  PROVE ClientHasUser'
    BY <1>2, <2>4 DEF AddClient, LowestFree, UserHasClient
  <2>5. ASSUME NEW h \in Handles, RecvEnd(h)  PROVE ClientHasUser'
    <3>1. pc = "recv" /\ pc' = "recv"
      BY <2>5 DEF RecvEnd
    <3>2. /\ cstate' \in {cstate, [cstate EXCEPT ![h] = "removed"]}
          /\ cstate[h] \notin {"none", "new"}
      BY <2>5, MarkStep
    <3> QED  BY <1>2, <3>1, <3>2
  <2> QED  BY <1>2, <2>1, <2>1a, <2>2, <2>3, <2>4, <2>5 DEF PollStep
<1>3. CASE UpdateStep
  <2> SUFFICES ASSUME NEW h \in Handles,
                      \/ LoginRefused(h) \/ Login(h)
                      \/ Answered(h) \/ Whisper(h) \/ Say(h)
                      \/ AskExit(h) \/ ConfirmExit(h) \/ CancelExit(h)
                      \/ CreateUser(h) \/ RemoveUser(h)
               PROVE  ClientHasUser'
    BY <1>3 DEF UpdateStep
  <2>1. CASE \/ LoginRefused(h) \/ Login(h) \/ Answered(h) \/ Whisper(h)
             \/ Say(h) \/ AskExit(h) \/ CancelExit(h)
    <3>1. pc = "update" /\ UNCHANGED <<pc, cstate, from_handle>>
      BY <2>1 DEF LoginRefused, Login, Answered, Whisper, Say, AskExit,
                  CancelExit, GetLine, appVars
    <3> QED  BY <3>1
  <2>2. CASE ConfirmExit(h)
    <3>1. pc = "update" /\ pc' \in {"update", "sigpipe"} /\ UNCHANGED from_handle
      BY <2>2 DEF ConfirmExit, GetLine, RemoveClient, appVars
    <3>2. /\ cstate' \in {cstate, [cstate EXCEPT ![h] = "removed"]}
          /\ cstate[h] \notin {"none", "new"}
      BY <2>2, MarkStep
    <3> QED  BY <3>1, <3>2
  <2>3. CASE CreateUser(h)
    <3>1. csock[h] # NoPeer
      BY <2>3, FreshUser, SocketsAssumption
    <3> QED  BY <2>3, <3>1 DEF CreateUser, Visit
  <2>4. CASE RemoveUser(h)
    <3> PICK u \in Peers : /\ RemoveUser(h)!(u)
                           /\ user[u].handle = h /\ u = from_handle[h]
                           /\ \A g \in Handles \ {h} : from_handle[g] # u
      BY <2>4, RemovedUser
    <3>1. /\ pc = "reap" /\ UNCHANGED <<pc, cstate>>
          /\ cstate[h] = "removed" /\ todo' = todo \ {h}
          /\ from_handle' = [from_handle EXCEPT ![h] = NoPeer]
      BY DEF Visit
    <3> QED  BY <3>1
  <2> QED  BY <2>1, <2>2, <2>3, <2>4
<1>4. CASE EndFlush
  BY <1>4 DEF EndFlush, appVars
<1>5. CASE EndUpdate
  BY <1>5 DEF EndUpdate, CameOrGone, appVars
<1>6. CASE EndReap
  BY <1>6 DEF EndReap, appVars
<1> QED  BY <1>1, <1>2, <1>3, <1>4, <1>5, <1>6 DEF Next, ServerStep

(* No step gives a name that a user has to another one, and a user that is *)
(* removed takes its name along.                                           *)
LEMMA NamesStep ==
  ASSUME Inv, Next
  PROVE  NamesExact' /\ NamedInChat'
<1> USE DEF Inv, TypeOK, NetTypeOK, AppTypeOK, NamesExact, NamedInChat
<1>0. Users \subseteq Peers
  BY DEF Users
<1>1. CASE UNCHANGED <<from_handle, from_username, user>>
  BY <1>1 DEF Users
<1>2. ASSUME NEW h \in Handles, Login(h)  PROVE NamesExact' /\ NamedInChat'
  <2> PICK u \in Peers : Login(h)!(u)
    BY <1>2 DEF Login
  <2> DEFINE name == Input(u).word
  <2>1. u \in Users /\ user[u].state = "login" /\ Users' = Users
    <3>1. u \in Users
      BY RemovesOwnClient
    <3>2. user[u].state = "login"
      BY DEF GetLine
    <3> QED  BY <3>1, <3>2 DEF Users
  <2>2. name \in Names /\ name # NoName
    BY MessagesAssumption DEF ValidUsername
  <2>3. from_username[name] = NoPeer
    BY <2>2 DEF Registered
  <2>4. \A v \in Users : user[v].username # name
    BY <2>2, <2>3, SocketsAssumption DEF Users
  <2>5. /\ user'[u].username = name /\ user'[u].state = "chat"
        /\ \A v \in Peers \ {u} : user'[v] = user[v]
    OBVIOUS
  <2>6. /\ from_username'[name] = u
        /\ \A n \in Names \ {name} : from_username'[n] = from_username[n]
    BY <2>2
  <2>7. \A n \in Names : from_username[n] # u
    BY <2>1, MessagesAssumption
  <2>8. NamesExact'
    BY <2>1, <2>2, <2>4, <2>5, <2>6, <2>7
  <2>9. NamedInChat'
    BY <2>1, <2>2, <2>5 DEF Users
  <2> QED  BY <2>8, <2>9
<1>3. ASSUME NEW h \in Handles, AskExit(h) \/ CancelExit(h)
      PROVE  NamesExact' /\ NamedInChat'
  <2>1. PICK u \in Peers, from \in {"chat", "exit"}, to \in {"chat", "exit"} :
          GetLine(h, u, from) /\ SwitchTo(u, to)
          /\ UNCHANGED <<from_handle, from_username>>
    BY <1>3, SMTT(30) DEF AskExit, CancelExit
  <2>2. u \in Users /\ user[u].state = from /\ Users' = Users
    <3>1. u \in Users
      BY <2>1, RemovesOwnClient
    <3>2. user[u].state = from
      BY <2>1, SMTT(30) DEF GetLine
    <3> QED  BY <2>1, <3>1, <3>2 DEF Users
  <2>3. /\ user'[u].state = to
        /\ \A v \in Peers : user'[v].username = user[v].username
        /\ \A v \in Peers \ {u} : user'[v] = user[v]
    BY <2>1 DEF SwitchTo
  <2>4. NamesExact'
    BY <2>1, <2>2, <2>3
  <2>5. NamedInChat'
    BY <1>0, <2>2, <2>3
  <2> QED  BY <2>4, <2>5
<1>4. ASSUME NEW h \in Handles, CreateUser(h)  PROVE NamesExact' /\ NamedInChat'
  <2> DEFINE u == csock[h]
  <2>1. u \in Peers /\ from_handle[h] = NoPeer /\ u \notin Users
    BY <1>4, FreshUser
  <2>2. Users' = Users \cup {u}
    <3>1. from_handle' = [from_handle EXCEPT ![h] = u]
      BY <1>4 DEF CreateUser
    <3> QED  BY <2>1, <3>1, SocketsAssumption DEF Users
  <2>3. /\ user'[u].username = NoName /\ user'[u].state = "login"
        /\ \A v \in Peers \ {u} : user'[v] = user[v]
        /\ UNCHANGED from_username
    BY <1>4, <2>1 DEF CreateUser
  <2>4. NamesExact'
    BY <2>1, <2>2, <2>3, MessagesAssumption
  <2>5. NamedInChat'
    BY <1>0, <2>1, <2>2, <2>3
  <2> QED  BY <2>4, <2>5
<1>5. ASSUME NEW h \in Handles, RemoveUser(h)  PROVE NamesExact' /\ NamedInChat'
  <2> PICK u \in Peers : /\ RemoveUser(h)!(u)
                         /\ user[u].handle = h /\ u = from_handle[h]
                         /\ \A g \in Handles \ {h} : from_handle[g] # u
    BY <1>5, RemovedUser
  <2> DEFINE name == user[u].username
  <2>1. u \in Users
    BY SocketsAssumption DEF Users
  <2>2. Users' = Users \ {u}
    <3>1. from_handle' = [from_handle EXCEPT ![h] = NoPeer]
      OBVIOUS
    <3> QED  BY <3>1 DEF Users
  <2>3. \A n \in Names :
          from_username'[n] = IF n = name THEN NoPeer ELSE from_username[n]
    BY DEF FreeName
  <2>4. \A v \in Peers \ {u} : user'[v] = user[v]
    OBVIOUS
  <2>5. NamesExact'
    <3> SUFFICES ASSUME NEW v \in Peers, NEW n \in Names
                 PROVE  from_username'[n] = v <=> v \in Users' /\ user'[v].username = n
      OBVIOUS
    <3>1. CASE n = name
      BY <2>1, <2>2, <2>3, <2>4, <3>1, SocketsAssumption
    <3>2. CASE n # name
      BY <2>1, <2>2, <2>3, <2>4, <3>2
    <3> QED  BY <3>1, <3>2
  <2>6. NamedInChat'
    BY <2>2, <2>4 DEF Users
  <2> QED  BY <2>5, <2>6
<1> QED
  BY <1>1, <1>2, <1>3, <1>4, <1>5, TableSteps DEF tables, appVars, ConfirmExit

-----------------------------------------------------------------------------
(* A step that keeps backlog, clients and open descriptors.                *)
LEMMA SameSockets ==
  ASSUME Inv, Clients' = Clients, UNCHANGED <<backlog, csock>>,
         \A p \in Peers : HasDescriptor(p)' <=> HasDescriptor(p)
  PROVE  SocketsAccounted'
<1>1. \A p : Waiting(p)' <=> Waiting(p)
  BY DEF Waiting
<1> QED  BY <1>1 DEF Inv, SocketsAccounted

LEMMA SocketsStep ==
  ASSUME Inv, Next
  PROVE  SocketsAccounted'
<1> USE DEF Inv, TypeOK, SocketTypeOK, NetTypeOK
<1>1. ASSUME NEW p \in Peers, Connect(p), UNCHANGED <<netVars, appVars>>
      PROVE  SocketsAccounted'
  <2>1. ~HasDescriptor(p) /\ ~Waiting(p) /\ \A h \in Clients : csock[h] # p
    BY <1>1 DEF Connect, HasDescriptor, SocketsAccounted
  <2>2. \A q \in Peers : HasDescriptor(q)' <=> HasDescriptor(q) \/ q = p
    BY <1>1 DEF Connect, HasDescriptor
  <2> DEFINE more == Append(backlog, p)
  <2>3. /\ Distinct(backlog')
        /\ \A q : Waiting(q)' <=> q = p \/ Waiting(q)
    <3>1. Distinct(backlog)
      BY DEF SocketsAccounted, Distinct
    <3>2. \A i \in DOMAIN backlog : backlog[i] # p
      BY <2>1 DEF Waiting
    <3>3. /\ DOMAIN more = 1 .. Len(backlog) + 1 /\ Len(backlog) \in Nat
          /\ DOMAIN backlog = 1 .. Len(backlog)
          /\ more[Len(backlog) + 1] = p
          /\ \A i \in 1 .. Len(backlog) : more[i] = backlog[i]
      BY SMTT(30)
    <3>4. backlog' = more
      BY <1>1 DEF Connect
    <3> HIDE DEF more, Inv
    <3> QED  BY <3>1, <3>2, <3>3, <3>4 DEF Waiting, Distinct
  <2>4. Clients' = Clients /\ csock' = csock
    BY <1>1 DEF netVars, Clients
  <2> QED  BY <2>1, <2>2, <2>3, <2>4 DEF SocketsAccounted, Distinct
<1>2. ASSUME NEW p \in Peers, UNCHANGED <<netVars, appVars>>,
             (\E l \in Line : Type(p, l)) \/ Close(p) \/ Reset(p)
      PROVE  SocketsAccounted'
  BY <1>2, SameSockets DEF Type, Close, Reset, HasDescriptor, netVars, Clients
<1>0. ASSUME NEW i \in DOMAIN backlog, Abort(i), UNCHANGED <<netVars, appVars>>
      PROVE  SocketsAccounted'
  <2> DEFINE p == backlog[i]
             rest == Without(backlog, i)
  <2>1. p \in Peers /\ Waiting(p)
    BY DEF Waiting
  <2>2. /\ Distinct(backlog')
        /\ \A q : Waiting(q)' <=> q # p /\ Waiting(q)
    <3>1. Distinct(backlog) /\ backlog \in Seq(Peers)
      BY SMTT(30) DEF SocketsAccounted, Distinct
    <3>2. /\ Distinct(rest)
          /\ \A q : (\E k \in DOMAIN rest : rest[k] = q)
                     <=> q # p /\ \E k \in DOMAIN backlog : backlog[k] = q
      <4> HIDE DEF Inv
      <4> QED  BY <3>1, WithoutDistinct, ZenonT(30)
    <3>3. backlog' = rest
      BY <1>0 DEF Abort, Without
    <3> HIDE DEF rest, p
    <3> QED  BY <3>2, <3>3 DEF Waiting
  <2>3. \A q \in Peers : HasDescriptor(q)' <=> q # p /\ HasDescriptor(q)
    BY <1>0, SMTT(30) DEF Abort, HasDescriptor
  <2>4. Clients' = Clients /\ csock' = csock
    BY <1>0 DEF netVars, Clients
  <2> HIDE DEF p, rest
  <2> QED  BY <2>1, <2>2, <2>3, <2>4, SMTT(30) DEF SocketsAccounted, Distinct
<1>3. CASE Sweep
  <2> DEFINE gone == {h \in Handles : cstate[h] = "removed"}
  <2>1. Clients' = Clients \ gone
    BY <1>3 DEF Sweep, Clients
  <2>2. \A h \in Clients' : csock'[h] = csock[h]
    BY <1>3, <2>1 DEF Sweep, Clients
  <2>3. \A p \in Peers :
          HasDescriptor(p)' <=> HasDescriptor(p) /\ \A h \in gone : csock[h] # p
    BY <1>3 DEF Sweep, CloseSockets, HasDescriptor
  <2>4. \A p : Waiting(p)' <=> Waiting(p)
    BY <1>3 DEF Sweep, Waiting
  <2>5. gone \subseteq Clients /\ backlog' = backlog
    BY <1>3 DEF Sweep, Clients
  <2> HIDE DEF gone, Clients, Inv, Waiting, HasDescriptor
  <2>6. /\ \A p \in Peers :
             HasDescriptor(p) <=> Waiting(p) \/ \E h \in Clients : csock[h] = p
        /\ \A h \in Clients : ~Waiting(csock[h])
        /\ \A g, h \in Clients : csock[g] = csock[h] => g = h
        /\ \A i, j \in DOMAIN backlog : backlog[i] = backlog[j] => i = j
    BY DEF Inv, SocketsAccounted
  <2>7. \A p \in Peers :
          HasDescriptor(p)' <=> Waiting(p)' \/ \E h \in Clients' : csock'[h] = p
    BY <2>1, <2>2, <2>3, <2>4, <2>5, <2>6
  <2>8. /\ (\A h \in Clients : ~Waiting(csock[h]))'
        /\ (\A g, h \in Clients : csock[g] = csock[h] => g = h)'
    <3>1. \A h \in Clients : \A i \in DOMAIN backlog : backlog[i] # csock[h]
      BY <2>6 DEF Waiting
    <3>2. (\A h \in Clients : ~Waiting(csock[h]))'
      BY <2>1, <2>2, <2>5, <3>1 DEF Waiting
    <3> QED  BY <2>1, <2>2, <2>6, <3>2
  <2> QED  BY <2>5, <2>6, <2>7, <2>8 DEF SocketsAccounted
<1>4. CASE Refuse
  <2> DEFINE p == Head(backlog)
            rest == Tail(backlog)
  <2>1. backlog # <<>> /\ p \in Peers
    BY <1>4 DEF Refuse, LoopsOK
  <2>2. /\ Distinct(backlog')
        /\ \A q : Waiting(q)' <=> q # p /\ Waiting(q)
    <3>1. Distinct(backlog)
      BY DEF SocketsAccounted, Distinct
    <3>2. /\ Distinct(rest)
          /\ \A q : (\E i \in DOMAIN rest : rest[i] = q)
                     <=> q # p /\ \E i \in DOMAIN backlog : backlog[i] = q
      <4> HIDE DEF Inv
      <4>1. backlog \in Seq(Peers)
        BY DEF Inv
      <4> QED  BY <2>1, <3>1, <4>1, TailDistinct, Zenon
    <3>3. backlog' = rest
      BY <1>4 DEF Refuse
    <3> HIDE DEF rest, p
    <3> QED  BY <3>2, <3>3 DEF Waiting
  <2>3. \A q \in Peers : HasDescriptor(q)' <=> q # p /\ HasDescriptor(q)
    BY <1>4 DEF Refuse, CloseSockets, HasDescriptor
  <2>4. Clients' = Clients /\ csock' = csock
    BY <1>4 DEF Refuse, Clients
  <2>5. Waiting(p)
    BY <2>1 DEF Waiting
  <2> QED  BY <2>1, <2>2, <2>3, <2>4, <2>5 DEF SocketsAccounted, Distinct
<1>5. ASSUME NEW h \in Handles, AddClient(h)  PROVE SocketsAccounted'
  <2> DEFINE p == Head(backlog)
            rest == Tail(backlog)
  <2>1. backlog # <<>> /\ p \in Peers
    BY <1>5 DEF AddClient, LoopsOK
  <2>2. /\ Distinct(backlog')
        /\ \A q : Waiting(q)' <=> q # p /\ Waiting(q)
    <3>1. Distinct(backlog)
      BY DEF SocketsAccounted, Distinct
    <3>2. /\ Distinct(rest)
          /\ \A q : (\E i \in DOMAIN rest : rest[i] = q)
                     <=> q # p /\ \E i \in DOMAIN backlog : backlog[i] = q
      <4> HIDE DEF Inv
      <4>1. backlog \in Seq(Peers)
        BY DEF Inv
      <4> QED  BY <2>1, <3>1, <4>1, TailDistinct, Zenon
    <3>3. backlog' = rest
      BY <1>5 DEF AddClient
    <3> HIDE DEF rest, p
    <3> QED  BY <3>2, <3>3 DEF Waiting
  <2>3. \A q \in Peers : HasDescriptor(q)' <=> HasDescriptor(q)
    BY <1>5 DEF AddClient, HasDescriptor
  <2>4. /\ Clients' = Clients \cup {h} /\ h \notin Clients
        /\ csock'[h] = p /\ \A g \in Clients : csock'[g] = csock[g]
    BY <1>5 DEF AddClient, LowestFree, Clients
  <2>5. Waiting(p)
    BY <2>1 DEF Waiting
  <2>6. \A g \in Clients : csock[g] # p
    BY <2>5 DEF SocketsAccounted
  <2>7. (\A q \in Peers :
           HasDescriptor(q) <=> Waiting(q) \/ \E g \in Clients : csock[g] = q)'
    BY <2>1, <2>2, <2>3, <2>4, <2>5 DEF SocketsAccounted
  <2>8. (\A g \in Clients : ~Waiting(csock[g]))'
    <3>1. /\ \A g \in Clients : ~Waiting(csock[g])
          /\ \A q : (\E i \in DOMAIN backlog' : backlog'[i] = q)
                     => q # p /\ Waiting(q)
      BY <2>2 DEF SocketsAccounted, Waiting
    <3> HIDE DEF Inv, p, Clients
    <3>2. ASSUME NEW g \in Clients', NEW i \in DOMAIN backlog',
                 backlog'[i] = csock'[g]
          PROVE  FALSE
      BY <2>4, <2>6, <3>1, <3>2
    <3> QED  BY <3>2 DEF Waiting
  <2>9. (\A f, g \in Clients : csock[f] = csock[g] => f = g)'
    BY <2>4, <2>6 DEF SocketsAccounted
  <2> QED  BY <2>2, <2>7, <2>8, <2>9 DEF SocketsAccounted, Distinct
<1>6. ASSUME NEW h \in Handles, RecvEnd(h)  PROVE SocketsAccounted'
  <2>1. Clients' = Clients
    BY <1>6, MarkStep DEF Clients
  <2> QED  BY <1>6, <2>1, SameSockets DEF RecvEnd, HasDescriptor
<1>7. ASSUME NEW h \in Handles, ConfirmExit(h)  PROVE SocketsAccounted'
  <2>1. Clients' = Clients
    BY <1>7, MarkStep DEF Clients
  <2>2. \A p \in Peers : HasDescriptor(p)' <=> HasDescriptor(p)
    BY <1>7 DEF ConfirmExit, RemoveClient, HasDescriptor, SendFails
  <2> QED  BY <1>7, <2>1, <2>2, SameSockets DEF ConfirmExit
<1>8. ASSUME NEW h \in Handles, FlushFails(h)  PROVE SocketsAccounted'
  BY <1>8, SameSockets DEF FlushFails, SendFails, HasDescriptor, Clients
<1>9. CASE UNCHANGED <<sock, backlog, cstate, csock>>
  BY <1>9, SameSockets DEF HasDescriptor, Clients
<1>10. CASE PollStep
  BY <1>3, <1>4, <1>5, <1>6, <1>8, <1>9, <1>10
     DEF PollStep, Listen, ListenFails, Poll, PollFails, AcceptFails, RefuseKilled,
         EndRecv, ReadFreedBucket, RecvData, RecvNothing, FlushSome, FlushKilled, socketVars
<1>11. CASE UpdateStep
  BY <1>7, <1>9, <1>11
     DEF UpdateStep, LoginRefused, Login, Answered, Whisper, Say, AskExit,
         CancelExit, CreateUser, RemoveUser, socketVars
<1>12. CASE EndFlush \/ EndUpdate \/ EndReap
  BY <1>9, <1>12 DEF EndFlush, EndUpdate, EndReap, socketVars
<1> QED  BY <1>0, <1>1, <1>2, <1>10, <1>11, <1>12 DEF Next, ServerStep, PeerStep

-----------------------------------------------------------------------------
LEMMA InitInv == Init => Inv
<1> SUFFICES ASSUME Init PROVE Inv
  OBVIOUS
<1> USE DEF Init, SocketInit, NetInit, AppInit
<1>1. Clients = {} /\ Users = {}
  BY DEF Clients, Users
<1>2. FirstFd \in Handles
  BY NetAssumption DEF Handles
<1>3. TypeOK
  BY <1>2 DEF TypeOK, SocketTypeOK, NetTypeOK, AppTypeOK
<1>4. LoopsOK /\ ClientHasUser /\ UserHasClient
  BY <1>1 DEF LoopsOK, ClientHasUser, UserHasClient
<1>5. SocketsAccounted
  BY <1>1 DEF SocketsAccounted, HasDescriptor, Waiting
<1>6. NamesExact /\ NamedInChat
  BY <1>1, SocketsAssumption DEF NamesExact, NamedInChat
<1> QED  BY <1>3, <1>4, <1>5, <1>6 DEF Inv

LEMMA StepInv == Inv /\ [Next]_vars => Inv'
<1> SUFFICES ASSUME Inv, [Next]_vars PROVE Inv'
  OBVIOUS
<1>1. TypeOK'
  BY StepType DEF Inv
<1>2. CASE Next
  BY <1>1, <1>2, LoopsStep, SocketsStep, UserHasClientStep, ClientHasUserStep,
     NamesStep DEF Inv
<1>3. CASE UNCHANGED vars
  BY <1>1, <1>3
     DEF vars, socketVars, netVars, appVars, Inv, LoopsOK, SocketsAccounted,
         UserHasClient, ClientHasUser, NamesExact, NamedInChat, Clients, Users,
         HasUser, CameOrGone, HasDescriptor, Waiting
<1> QED  BY <1>2, <1>3

-----------------------------------------------------------------------------
(* Numbers less than n apart differ modulo n.                              *)
LEMMA ModDiffers ==
  ASSUME NEW n \in Nat \ {0}, NEW a \in Nat, NEW b \in Nat, a < b, b < a + n
  PROVE  a % n # b % n
<1> SUFFICES ASSUME a % n = b % n  PROVE FALSE
  OBVIOUS
<1> DEFINE q == a \div n
           r == b \div n
           m == a % n
<1>1. /\ q \in Int /\ r \in Int /\ m \in 0 .. n - 1
      /\ a = n * q + m /\ b = n * r + m
  <2>1. \A c \in Nat : c \div n \in Int /\ c % n \in 0 .. n - 1
    OBVIOUS
  <2>2. \A c \in Nat : c = n * (c \div n) + (c % n)
    OBVIOUS
  <2> QED  BY <2>1, <2>2
<1>2. n * q \in Int /\ n * r \in Int
  BY <1>1
<1> HIDE DEF q, r, m
<1>3. n * q < n * r /\ n * r < n * q + n
  BY <1>1, <1>2
<1>4. ~(r <= q)
  <2> SUFFICES ASSUME r <= q  PROVE FALSE
    OBVIOUS
  <2>1. PICK d \in Nat : q = r + d
    <3>1. q - r \in Nat /\ q = r + (q - r)
      BY <1>1
    <3> QED  BY <3>1
  <2>2. n * q = n * r + n * d /\ n * d >= 0 /\ n * d \in Int
    BY <1>1, <2>1
  <2> QED  BY <1>2, <1>3, <2>2
<1>5. ~(q + 1 <= r)
  <2> SUFFICES ASSUME q + 1 <= r  PROVE FALSE
    OBVIOUS
  <2>1. PICK d \in Nat : r = q + 1 + d
    <3>1. r - q - 1 \in Nat /\ r = q + 1 + (r - q - 1)
      BY <1>1
    <3> QED  BY <3>1
  <2>2. n * r = n * q + n + n * d /\ n * d >= 0 /\ n * d \in Int
    BY <1>1, <2>1
  <2> QED  BY <1>2, <1>3, <2>2
<1> QED  BY <1>1, <1>4, <1>5

(* Descriptors of clients never share a bucket of a map keyed by them,     *)
(* before or after its growth: what a loop of net.c or app.c removes is    *)
(* alone in its bucket, so the loop skips nobody (net.c:181) and the       *)
(* pointer into the bucket stays good (app.c:76).                          *)
THEOREM HandlesDistinct ==
  ASSUME NEW g \in Handles, NEW h \in Handles, g # h, NEW map
  PROVE  Bucket(map, g) # Bucket(map, h)
<1> DEFINE n == IF map \in grown THEN 2 * AC_CLIENTS_MAX ELSE AC_CLIENTS_MAX
<1>1. n \in Nat \ {0} /\ n >= AC_CLIENTS_MAX
  BY NetAssumption
<1>2. g \in Nat /\ h \in Nat /\ g < h + n /\ h < g + n
  BY <1>1, NetAssumption DEF Handles
<1>3. g % n # h % n
  <2> HIDE DEF n
  <2>1. CASE g < h
    BY <1>1, <1>2, <2>1, ModDiffers
  <2>2. CASE h < g
    BY <1>1, <1>2, <2>2, ModDiffers
  <2> QED  BY <1>2, <2>1, <2>2
<1> QED  BY <1>3 DEF Bucket

-----------------------------------------------------------------------------
(* The inductive invariant holds: see Server for what its parts say.       *)
THEOREM InvHolds == Spec => []Inv
BY InitInv, StepInv, PTL DEF Spec

(* Every variable keeps its type, in any run of the server.                *)
THEOREM TypeCorrect == Spec => []TypeOK
<1>1. Inv => TypeOK
  BY DEF Inv
<1> QED  BY <1>1, InvHolds, PTL

(* No user ever reads from or writes to another connection that got the    *)
(* number of a descriptor closed before.                                   *)
THEOREM UsersReachTheirClients == Spec => []UserHasClient
<1>1. Inv => UserHasClient
  BY DEF Inv
<1> QED  BY <1>1, InvHolds, PTL

(* A client has a user exactly from the round that accepted it to the      *)
(* round that removes it.                                                  *)
THEOREM ClientsHaveUsers == Spec => []ClientHasUser
<1>1. Inv => ClientHasUser
  BY DEF Inv
<1> QED  BY <1>1, InvHolds, PTL

(* The names taken are those of the users there are: no dangling pointer,  *)
(* no name held by nobody, no name held twice.                             *)
THEOREM NamesAreExact == Spec => []NamesExact
<1>1. Inv => NamesExact
  BY DEF Inv
<1> QED  BY <1>1, InvHolds, PTL

(* No descriptor leaks and none is closed twice.                           *)
THEOREM NoSocketLeaks == Spec => []SocketsAccounted
<1>1. Inv => SocketsAccounted
  BY DEF Inv
<1> QED  BY <1>1, InvHolds, PTL

(* None of the assert()s on the way of a round can fail.                   *)
THEOREM NoAssertFails == Spec => []AssertsHold
<1>1. Inv => AssertsHold
  <2> SUFFICES ASSUME Inv PROVE AssertsHold
    OBVIOUS
  <2>1. pc = "recv" => todo \subseteq Clients
    BY DEF Inv, LoopsOK
  <2>2. \A u \in Users : cstate[user[u].handle] # "none"
    BY DEF Inv, UserHasClient, Users
  <2>3. pc = "reap" =>
          \A h \in todo : cstate[h] = "removed" => from_handle[h] # NoPeer
    BY DEF Inv, TypeOK, NetTypeOK, ClientHasUser, HasUser, Clients, Phases
  <2> QED  BY <2>1, <2>2, <2>3 DEF AssertsHold
<1> QED  BY <1>1, InvHolds, PTL

(* A name never passes from one user to another, and is given up only by   *)
(* a user that is removed.                                                 *)
THEOREM NamesAreHeld == Spec => NameHeld
<1> DEFINE Held ==
      \A n \in Names :
        LET u == from_username[n]
        IN  u # NoPeer /\ from_username'[n] # u =>
              from_username'[n] = NoPeer /\ user'[u].state = "freed"
<1>1. ASSUME Inv, Next  PROVE Held
  <2> SUFFICES ASSUME NEW n \in Names, from_username[n] # NoPeer,
                      from_username'[n] # from_username[n]
               PROVE  /\ from_username'[n] = NoPeer
                      /\ user'[from_username[n]].state = "freed"
    OBVIOUS
  <2> USE DEF Inv, TypeOK, AppTypeOK
  <2>1. \E h \in Handles : Login(h) \/ RemoveUser(h)
    BY <1>1, TableSteps DEF tables, appVars, AskExit, ConfirmExit, CancelExit,
                            CreateUser
  <2>2. ASSUME NEW h \in Handles, Login(h)  PROVE FALSE
    BY <2>2 DEF Login, Registered
  <2>3. ASSUME NEW h \in Handles, RemoveUser(h)
        PROVE  from_username'[n] = NoPeer /\ user'[from_username[n]].state = "freed"
    <3> PICK u \in Peers : RemoveUser(h)!(u)
      BY <2>3 DEF RemoveUser
    <3>1. n = user[u].username /\ from_username'[n] = NoPeer
      BY DEF FreeName
    <3>2. u \in Users
      BY SocketsAssumption DEF Users
    <3>3. from_username[n] = u
      BY <1>1, <3>1, <3>2 DEF NamesExact
    <3>4. user'[u].state = "freed"
      BY <1>1
    <3> QED  BY <3>1, <3>3, <3>4
  <2> QED  BY <2>1, <2>2, <2>3
<1>2. Inv /\ [Next]_vars => [Held]_vars
  BY <1>1
<1> QED  BY <1>2, InvHolds, PTL DEF Spec, NameHeld

=============================================================================
