---------------------------- MODULE StreamProofs ----------------------------
(***************************************************************************)
(* Proofs of the properties of Streams.  The first part says what each     *)
(* kind of step does to the streams; the proofs of the invariants need to  *)
(* know no more of the server than that.                                   *)
(***************************************************************************)
EXTENDS RoomProofs, Streams

(* The queue of a connection is that of its client, if it has one.         *)
LEMMA QueuedAt ==
  ASSUME Inv, NEW h \in Clients
  PROVE  Queued(csock[h]) = cout[h]
<1>1. {g \in Clients : csock[g] = csock[h]} = {h}
  BY DEF Inv, SocketsAccounted
<1> QED  BY <1>1 DEF Queued

LEMMA NoQueue ==
  ASSUME NEW p, \A h \in Clients : csock[h] # p
  PROVE  Queued(p) = <<>>
BY DEF Queued

(* A connection whose user is still to be made has an empty stream.        *)
LEMMA UnmetStream ==
  ASSUME RoomInv, NEW p \in Peers, NotYet(p)
  PROVE  sent[p] = <<>> /\ Queued(p) = <<>> /\ Stream(p) = <<>>
<1>1. sent[p] = <<>>
  BY DEF RoomInv, Unknown
<1>2. Queued(p) = <<>>
  <2>1. CASE \A h \in Clients : csock[h] # p
    BY <2>1, NoQueue
  <2>2. CASE \E h \in Clients : csock[h] = p
    <3>1. PICK h \in Clients : csock[h] = p
      BY <2>2
    <3>2. Unmet(h)
      BY <3>1, MetClient DEF RoomInv
    <3> QED  BY <3>1, <3>2, QueuedAt DEF RoomInv, Quiet, Clients
  <2> QED  BY <2>1, <2>2
<1> QED  BY <1>1, <1>2 DEF Stream

LEMMA StreamType ==
  ASSUME Inv, NEW p \in Peers
  PROVE  sent[p] \in Seq(Msg) /\ Queued(p) \in Seq(Msg) /\ Stream(p) \in Seq(Msg)
<1>1. sent[p] \in Seq(Msg)
  BY DEF Inv, TypeOK, SocketTypeOK
<1>2. Queued(p) \in Seq(Msg)
  <2>1. CASE \A h \in Clients : csock[h] # p
    <3>1. Queued(p) = <<>>
      BY <2>1, NoQueue
    <3> QED  BY <3>1, EmptySeq
  <2>2. CASE \E h \in Clients : csock[h] = p
    <3>1. PICK h \in Clients : csock[h] = p
      BY <2>2
    <3>2. cout[h] \in Seq(Msg)
      BY DEF Clients, Inv, TypeOK, NetTypeOK
    <3> QED  BY <3>1, <3>2, QueuedAt
  <2> QED  BY <2>1, <2>2
<1> QED  BY <1>1, <1>2, ConcatProperties DEF Stream

(* The same of the next state.                                             *)
LEMMA NextQueue ==
  (Inv => /\ \A h \in Clients : Queued(csock[h]) = cout[h]
          /\ \A p : (\A h \in Clients : csock[h] # p) => Queued(p) = <<>>)'
<1>1. Inv => /\ \A h \in Clients : Queued(csock[h]) = cout[h]
             /\ \A p : (\A h \in Clients : csock[h] # p) => Queued(p) = <<>>
  BY QueuedAt, NoQueue
<1> QED  BY <1>1, PTL

LEMMA NextStream == (Inv => \A p \in Peers : Stream(p) \in Seq(Msg))'
<1>1. Inv => \A p \in Peers : Stream(p) \in Seq(Msg)
  BY StreamType
<1> QED  BY <1>1, PTL

LEMMA NextUsers == (Inv => \A u \in Users : u \in Peers)'
<1>1. Inv => \A u \in Users : u \in Peers
  BY UserFacts
<1> QED  BY <1>1, PTL

(* The stream of a user, by its own client.                                *)
LEMMA UserStream ==
  ASSUME Inv, NEW u \in Users
  PROVE  Queued(u) = cout[user[u].handle]
BY UserFacts, QueuedAt

-----------------------------------------------------------------------------
(* The kinds of steps.  Most leave every stream as it is.                  *)
Calm == \A p \in Peers : Stream(p)' = Stream(p)

LEMMA SameQueues ==
  ASSUME UNCHANGED <<sent, csock, cout>>, Clients' = Clients
  PROVE  Calm
BY DEF Calm, Stream, Queued

(* send() takes from the queue what it adds to the sent.                   *)
LEMMA FlushIsCalm ==
  ASSUME Inv, Inv', NEW h \in Handles, FlushSome(h)
  PROVE  Calm
<1>1. PICK q : q = csock[h]
  OBVIOUS
<1>2. h \in Clients /\ q \in Peers
  BY <1>1 DEF FlushSome, Visit, Inv, LoopsOK
<1>3. /\ sent \in [Peers -> Seq(Msg)] /\ cout \in [Handles -> Seq(Msg)]
  BY DEF Inv, TypeOK, SocketTypeOK, NetTypeOK
<1>4. PICK n \in 0 .. Len(cout[h]) :
        /\ sent' = [sent EXCEPT ![q] = @ \o SubSeq(cout[h], 1, n)]
        /\ cout' = [cout EXCEPT ![h] = Unsent(@, n)]
  BY <1>1 DEF FlushSome
<1>5. UNCHANGED <<cstate, csock>> /\ Clients' = Clients
  BY DEF FlushSome, Clients
<1>6. ASSUME NEW p \in Peers, p # q  PROVE Stream(p)' = Stream(p)
  <2>1. sent'[p] = sent[p]
    BY <1>2, <1>3, <1>4, <1>6
  <2>2. Queued(p)' = Queued(p)
    <3>1. CASE \A g \in Clients : csock[g] # p
      <4>1. (\A g \in Clients : csock[g] # p)'
        BY <1>5, <3>1
      <4> QED  BY <3>1, <4>1, NoQueue, NextQueue
    <3>2. CASE \E g \in Clients : csock[g] = p
      <4>1. PICK g \in Clients : csock[g] = p /\ g # h
        BY <1>1, <1>6, <3>2
      <4>2. cout'[g] = cout[g]
        BY <1>3, <1>4, <4>1 DEF Clients
      <4> QED  BY <1>5, <4>1, <4>2, QueuedAt, NextQueue
    <3> QED  BY <3>1, <3>2
  <2> QED  BY <2>1, <2>2 DEF Stream
<1>7. Stream(q)' = Stream(q)
  <2>1. Queued(q) = cout[h] /\ Queued(q)' = cout'[h]
    BY <1>1, <1>2, <1>5, QueuedAt, NextQueue
  <2>2. PICK s, c : s = sent[q] /\ c = cout[h]
    OBVIOUS
  <2>3. s \in Seq(Msg) /\ c \in Seq(Msg) /\ n \in 0 .. Len(c)
    BY <1>2, <1>3, <1>4, <2>2 DEF Clients
  <2>4. PICK x, y : x = SubSeq(c, 1, n) /\ y = SubSeq(c, n + 1, Len(c))
    OBVIOUS
  <2>5. x \in Seq(Msg) /\ y \in Seq(Msg) /\ x \o y = c
    BY <2>3, <2>4, CutInTwo
  <2>6. sent'[q] = s \o x /\ cout'[h] = y
    BY <1>2, <1>3, <1>4, <2>2, <2>4 DEF Unsent
  <2>7. (s \o x) \o y = s \o (x \o y)
    <3>1. \A i, j, k \in Seq(Msg) : (i \o j) \o k = i \o (j \o k)
      BY ConcatAssociative
    <3> QED  BY <2>3, <2>5, <3>1, ZenonT(30)
  <2>8. Stream(q)' = (s \o x) \o y /\ Stream(q) = s \o c
    BY <2>1, <2>2, <2>6 DEF Stream
  <2> QED  BY <2>5, <2>7, <2>8
<1> QED  BY <1>6, <1>7 DEF Calm

(* A new client has an empty queue, and its connection had none.           *)
LEMMA AddClientIsCalm ==
  ASSUME Inv, Inv', NEW h \in Handles, AddClient(h)
  PROVE  Calm
<1>1. PICK q : q = Head(backlog)
  OBVIOUS
<1>2. q \in Peers /\ Waiting(q)
  <2>1. backlog \in Seq(Peers) /\ backlog # <<>>
    BY DEF AddClient, Inv, TypeOK, SocketTypeOK
  <2>2. q = backlog[1] /\ 1 \in DOMAIN backlog /\ q \in Peers
    BY <1>1, <2>1
  <2> QED  BY <2>2 DEF Waiting
<1>3. \A g \in Clients : csock[g] # q
  BY <1>2 DEF Inv, SocketsAccounted
<1>4. /\ csock' = [csock EXCEPT ![h] = q]
      /\ cout' = [cout EXCEPT ![h] = <<>>]
      /\ Clients' = Clients \cup {h} /\ h \notin Clients
      /\ UNCHANGED sent
  BY <1>1 DEF AddClient, LowestFree, Clients, Inv, TypeOK, NetTypeOK
<1>5. csock \in [Handles -> Peers \cup {NoPeer}] /\ cout \in [Handles -> Seq(Msg)]
  BY DEF Inv, TypeOK, NetTypeOK
<1>6. ASSUME NEW p \in Peers  PROVE Queued(p)' = Queued(p)
  <2>1. CASE p = q
    <3>1. h \in Clients' /\ csock'[h] = p /\ cout'[h] = <<>>
      BY <1>4, <1>5, <2>1
    <3>2. Queued(p)' = <<>>
      BY <3>1, NextQueue
    <3> QED  BY <1>3, <2>1, <3>2, NoQueue
  <2>2. CASE p # q /\ \A g \in Clients : csock[g] # p
    <3>1. (\A g \in Clients : csock[g] # p)'
      BY <1>4, <1>5, <2>2 DEF Clients
    <3> QED  BY <2>2, <3>1, NoQueue, NextQueue
  <2>3. CASE \E g \in Clients : csock[g] = p
    <3>1. PICK g \in Clients : csock[g] = p /\ g # h
      BY <1>4, <2>3
    <3>2. g \in Clients' /\ csock'[g] = p /\ cout'[g] = cout[g]
      BY <1>4, <1>5, <3>1 DEF Clients
    <3> QED  BY <3>1, <3>2, QueuedAt, NextQueue
  <2> QED  BY <2>1, <2>2, <2>3
<1> QED  BY <1>4, <1>6 DEF Calm, Stream

(* A client that is disconnected takes its queue with it; no user has one. *)
LEMMA SweepCuts ==
  ASSUME Inv, Inv', Sweep
  PROVE  \A p \in Peers :
           \/ Stream(p)' = Stream(p)
           \/ p \notin Users /\ Stream(p)' = sent[p] \o <<>>
<1> SUFFICES ASSUME NEW p \in Peers
             PROVE  \/ Stream(p)' = Stream(p)
                    \/ p \notin Users /\ Stream(p)' = sent[p] \o <<>>
  OBVIOUS
<1>1. UNCHANGED sent /\ pc = "sweep"
  BY DEF Sweep
<1>2. CASE \A g \in Clients : csock[g] # p
  <2>1. (\A g \in Clients : csock[g] # p)'
    BY <1>2 DEF Sweep, Clients
  <2> QED  BY <1>1, <1>2, <2>1, NoQueue, NextQueue DEF Stream
<1>3. ASSUME NEW g \in Clients, csock[g] = p, cstate[g] # "removed"
      PROVE  Stream(p)' = Stream(p)
  <2>1. g \in Clients' /\ csock'[g] = p /\ cout'[g] = cout[g]
    BY <1>3 DEF Sweep, Clients
  <2> QED  BY <1>1, <1>3, <2>1, QueuedAt, NextQueue DEF Stream
<1>4. ASSUME NEW g \in Clients, csock[g] = p, cstate[g] = "removed"
      PROVE  p \notin Users /\ Stream(p)' = sent[p] \o <<>>
  <2>1. from_handle[g] = NoPeer
    BY <1>1, <1>4 DEF Inv, ClientHasUser, HasUser, Phases
  <2>2. p \notin Users
    <3> SUFFICES ASSUME p \in Users  PROVE FALSE
      OBVIOUS
    <3>1. user[p].handle = g
      BY <1>4, UserFacts DEF Inv, SocketsAccounted
    <3> QED  BY <1>4, <2>1, <3>1, UserFacts, SocketsAssumption
  <2>3. (\A h \in Clients : csock[h] # p)'
    BY <1>4 DEF Sweep, Clients, Inv, SocketsAccounted
  <2>4. Queued(p)' = <<>>
    BY <2>3, NextQueue
  <2> QED  BY <1>1, <2>2, <2>4 DEF Stream
<1> QED  BY <1>2, <1>3, <1>4

(* A refusal is all that is said to a connection that gets no client.      *)
LEMMA RefuseSays ==
  ASSUME RoomInv, RoomInv', Refuse
  PROVE  \A p \in Peers :
           \/ Stream(p)' = Stream(p)
           \/ p \notin Users /\ Stream(p) = <<>> /\ Stream(p)' = <<Plain("refused")>>
<1> USE DEF RoomInv
<1>1. PICK q : q = Head(backlog)
  OBVIOUS
<1>2. q \in Peers /\ NotYet(q)
  <2>1. backlog \in Seq(Peers) /\ backlog # <<>>
    BY DEF Refuse, Inv, TypeOK, SocketTypeOK
  <2>2. q = backlog[1] /\ 1 \in DOMAIN backlog /\ q \in Peers
    BY <1>1, <2>1
  <2> QED  BY <2>2 DEF NotYet, Waiting
<1>3. /\ sent' \in {sent, [sent EXCEPT ![q] = Append(@, Plain("refused"))]}
      /\ UNCHANGED <<cstate, csock, cout>>
      /\ sent \in [Peers -> Seq(Msg)]
  BY <1>1 DEF Refuse, Inv, TypeOK, SocketTypeOK
<1>4. \A p : Queued(p)' = Queued(p)
  BY <1>3 DEF Queued, Clients
<1>5. \A p \in Peers : p # q => Stream(p)' = Stream(p)
  BY <1>3, <1>4 DEF Stream
<1>6. q \notin Users /\ sent[q] = <<>> /\ Queued(q) = <<>> /\ Stream(q) = <<>>
  BY <1>2, UsersAreMet, UnmetStream
<1>7. CASE sent' = sent
  BY <1>4, <1>5, <1>7 DEF Stream
<1>8. CASE sent' = [sent EXCEPT ![q] = Append(@, Plain("refused"))]
  <2>1. sent'[q] = <<Plain("refused")>>
    <3>1. sent'[q] = Append(<<>>, Plain("refused"))
      BY <1>2, <1>3, <1>6, <1>8
    <3> QED  BY <3>1
  <2>2. <<Plain("refused")>> \in Seq(Msg)
    BY MsgType DEF ReplyKinds
  <2>3. Stream(q)' = <<Plain("refused")>>
    BY <1>4, <1>6, <2>1, <2>2, ConcatEmptySeq DEF Stream
  <2> QED  BY <1>5, <1>6, <2>3
<1> QED  BY <1>3, <1>7, <1>8

(* A new user is greeted, and has read nothing before.                     *)
Greets(h, u) ==
  /\ u = csock[h] /\ u \notin Users /\ Users' = Users \cup {u} /\ NotYet(u)
  /\ \A v \in Peers : v # u => user'[v] = user[v]
  /\ user'[u] = [handle |-> h, username |-> NoName, state |-> "login"]
  /\ Stream(u) = <<>> /\ Stream(u)' = <<Plain("greeting")>>
  /\ \A p \in Peers : p # u => Stream(p)' = Stream(p)

LEMMA CreateUserGreets ==
  ASSUME RoomInv, Inv', NEW h \in Handles, CreateUser(h)
  PROVE  \E u \in Peers : Greets(h, u)
<1> USE DEF RoomInv
<1>1. PICK u : u = csock[h]
  OBVIOUS
<1>2. /\ cstate[h] = "new"
      /\ user' = [user EXCEPT ![u] =
                    [handle |-> h, username |-> NoName, state |-> "login"]]
      /\ from_handle' = [from_handle EXCEPT ![h] = u]
      /\ cout' = [cout EXCEPT ![h] = Append(@, Plain("greeting"))]
      /\ UNCHANGED <<sent, cstate, csock>>
  BY <1>1 DEF CreateUser, socketVars
<1>3. u \in Peers /\ from_handle[h] = NoPeer /\ u \notin Users
  BY <1>1, FreshUser
<1>4. NotYet(u) /\ sent[u] = <<>> /\ Queued(u) = <<>> /\ Stream(u) = <<>>
  <2>1. NotYet(u)
    BY <1>1, <1>2, <1>3 DEF NotYet, Unmet
  <2> QED  BY <1>3, <2>1, UnmetStream
<1>5. /\ user \in [Peers -> UserType] /\ cout \in [Handles -> Seq(Msg)]
      /\ from_handle \in [Handles -> Peers \cup {NoPeer}]
  BY DEF Inv, TypeOK, AppTypeOK, NetTypeOK, UserType
<1>6. Users' = Users \cup {u}
  BY <1>2, <1>3, <1>5, SocketsAssumption DEF Users
<1>7. Clients' = Clients /\ h \in Clients
  BY <1>2 DEF Clients
<1>8. Stream(u)' = <<Plain("greeting")>>
  <2>1. cout[h] = <<>>
    BY <1>1, <1>4, <1>7, QueuedAt
  <2>2. cout'[h] = <<Plain("greeting")>>
    <3>1. cout'[h] = Append(<<>>, Plain("greeting"))
      BY <1>2, <1>5, <2>1
    <3> QED  BY <3>1
  <2>3. Queued(u)' = cout'[h]
    BY <1>1, <1>2, <1>7, NextQueue
  <2>4. <<Plain("greeting")>> \in Seq(Msg)
    BY MsgType DEF ReplyKinds
  <2>5. <<>> \o <<Plain("greeting")>> = <<Plain("greeting")>>
    BY <2>4, ConcatEmptySeq
  <2> QED  BY <1>2, <1>4, <2>2, <2>3, <2>5 DEF Stream
<1>9. ASSUME NEW p \in Peers, p # u  PROVE Stream(p)' = Stream(p)
  <2>1. CASE \A g \in Clients : csock[g] # p
    BY <1>2, <1>7, <2>1, NoQueue, NextQueue DEF Stream
  <2>2. CASE \E g \in Clients : csock[g] = p
    <3>1. PICK g \in Clients : csock[g] = p /\ g # h
      BY <1>1, <1>9, <2>2
    <3>2. cout'[g] = cout[g]
      BY <1>2, <1>5, <3>1 DEF Clients
    <3> QED  BY <1>2, <1>7, <3>1, <3>2, QueuedAt, NextQueue DEF Stream
  <2> QED  BY <2>1, <2>2
<1> QED  BY <1>1, <1>2, <1>3, <1>4, <1>5, <1>6, <1>8, <1>9 DEF Greets

LEMMA Regrouped ==
  \A s, x, y \in Seq(Msg) : (s \o x) \o y = s \o (x \o y)
BY ConcatAssociative

(* A batch for users goes to the end of their streams, and to no other.    *)
LEMMA BatchSays ==
  ASSUME Inv, Inv', NEW batch \in [Handles -> Seq(Msg)], ToUsers(batch), Send(batch),
         UNCHANGED <<sent, csock, cstate>>
  PROVE  /\ \A u \in Users : Stream(u)' = Stream(u) \o batch[user[u].handle]
         /\ \A p \in Peers \ Users : Stream(p)' = Stream(p)
<1>0. Clients' = Clients /\ \A h \in Handles : cout'[h] = cout[h] \o batch[h]
  BY DEF Clients, Send
<1>1. ASSUME NEW u \in Users  PROVE Stream(u)' = Stream(u) \o batch[user[u].handle]
  <2>1. PICK h \in Clients : h = user[u].handle /\ csock[h] = u /\ u \in Peers
    BY UserFacts
  <2>2. PICK s, c, b : s = sent[u] /\ c = cout[h] /\ b = batch[h]
    OBVIOUS
  <2>3. s \in Seq(Msg) /\ c \in Seq(Msg) /\ b \in Seq(Msg)
    BY <2>1, <2>2 DEF Clients, Inv, TypeOK, SocketTypeOK, NetTypeOK
  <2>4. Queued(u) = c /\ Queued(u)' = c \o b
    <3>1. Queued(u)' = cout'[h]
      BY <1>0, <2>1, NextQueue
    <3> QED  BY <1>0, <2>1, <2>2, <3>1, QueuedAt DEF Clients
  <2>5. Stream(u) = s \o c /\ Stream(u)' = s \o (c \o b)
    BY <2>2, <2>4 DEF Stream
  <2>6. (s \o c) \o b = s \o (c \o b)
    BY ONLY <2>3, Regrouped
  <2> QED  BY <2>1, <2>2, <2>5, <2>6
<1>2. ASSUME NEW p \in Peers \ Users  PROVE Stream(p)' = Stream(p)
  <2>1. CASE \A g \in Clients : csock[g] # p
    BY <1>0, <2>1, NoQueue, NextQueue DEF Stream
  <2>2. CASE \E g \in Clients : csock[g] = p
    <3>1. PICK g \in Clients : csock[g] = p
      BY <2>2
    <3>2. \A u \in Users : user[u].handle # g
      BY <3>1, UserFacts
    <3>3. batch[g] = <<>> /\ cout[g] \in Seq(Msg)
      BY <3>2 DEF ToUsers, Clients, Inv, TypeOK, NetTypeOK
    <3>4. cout'[g] = cout[g]
      BY <1>0, <3>3, ConcatEmptySeq DEF Clients
    <3> QED  BY <1>0, <3>1, <3>4, QueuedAt, NextQueue DEF Stream
  <2> QED  BY <2>1, <2>2
<1> QED  BY <1>1, <1>2

(* What a message to some people puts into the stream of p.                *)
For(p, people, m) == IF p \in people THEN <<m>> ELSE <<>>

(* One message to some; or a notice to some, and then a reply to one.      *)
Spoken(people, m) ==
  \A p \in Peers : Stream(p)' = Stream(p) \o For(p, people, m)

Announced(others, notice, u, m) ==
  \A p \in Peers :
    Stream(p)' = (Stream(p) \o For(p, others, notice)) \o For(p, {u}, m)

LEMMA SendSpeaks ==
  ASSUME Inv, Inv', NEW people \in SUBSET Users, NEW m \in Msg, Send(To(people, m)),
         UNCHANGED <<sent, csock, cstate>>
  PROVE  Spoken(people, m)
<1>1. To(people, m) \in [Handles -> Seq(Msg)] /\ ToUsers(To(people, m))
  BY ToType, ToToUsers
<1>2. /\ \A u \in Users : Stream(u)' = Stream(u) \o To(people, m)[user[u].handle]
      /\ \A p \in Peers \ Users : Stream(p)' = Stream(p)
  BY <1>1, BatchSays
<1>3. \A u \in Users : To(people, m)[user[u].handle] = For(u, people, m)
  BY UserFacts DEF To, For
<1>4. \A p \in Peers \ Users : Stream(p) \o For(p, people, m) = Stream(p)
  BY StreamType, ConcatEmptySeq DEF For
<1> QED  BY <1>2, <1>3, <1>4 DEF Spoken

LEMMA AnnounceSpeaks ==
  ASSUME Inv, Inv', NEW others \in SUBSET Users, NEW notice \in Msg,
         NEW u \in Users, NEW m \in Msg, Announce(others, notice, u, m),
         UNCHANGED <<sent, csock, cstate>>
  PROVE  Announced(others, notice, u, m)
<1> DEFINE batch == [g \in Handles |-> To(others, notice)[g] \o To({u}, m)[g]]
<1>1. batch \in [Handles -> Seq(Msg)] /\ ToUsers(batch) /\ Send(batch)
  <2>1. batch \in [Handles -> Seq(Msg)] /\ Send(batch)
    BY ToType DEF Announce
  <2>2. ToUsers(batch)
    <3>1. {u} \in SUBSET Users
      OBVIOUS
    <3> QED  BY <3>1, AnnounceToUsers
  <2> QED  BY <2>1, <2>2
<1>2. /\ \A v \in Users : Stream(v)' = Stream(v) \o batch[user[v].handle]
      /\ \A p \in Peers \ Users : Stream(p)' = Stream(p)
  <2> HIDE DEF batch
  <2> QED  BY <1>1, BatchSays
<1>3. \A v \in Users : batch[user[v].handle] = For(v, others, notice) \o For(v, {u}, m)
  BY UserFacts DEF To, For
<1> HIDE DEF batch
<1>4. ASSUME NEW p \in Peers
      PROVE  /\ For(p, others, notice) \in Seq(Msg) /\ For(p, {u}, m) \in Seq(Msg)
             /\ Stream(p) \in Seq(Msg)
  BY StreamType DEF For
<1>5. ASSUME NEW v \in Users
      PROVE  Stream(v)' = (Stream(v) \o For(v, others, notice)) \o For(v, {u}, m)
  <2>1. PICK s, x, y : /\ s = Stream(v) /\ x = For(v, others, notice)
                       /\ y = For(v, {u}, m)
    OBVIOUS
  <2>2. s \in Seq(Msg) /\ x \in Seq(Msg) /\ y \in Seq(Msg)
    BY <1>4, <2>1, UserFacts
  <2>3. (s \o x) \o y = s \o (x \o y)
    BY ONLY <2>2, Regrouped
  <2>4. Stream(v)' = s \o (x \o y)
    BY <1>2, <1>3, <2>1
  <2> QED  BY <2>1, <2>3, <2>4
<1>6. ASSUME NEW p \in Peers \ Users
      PROVE  Stream(p)' = (Stream(p) \o For(p, others, notice)) \o For(p, {u}, m)
  <2>1. For(p, others, notice) = <<>> /\ For(p, {u}, m) = <<>>
    BY DEF For
  <2> QED  BY <1>2, <1>4, <2>1, ConcatEmptySeq
<1> QED  BY <1>5, <1>6 DEF Announced

(* Goodbye goes past the queue.                                            *)
PartsWith(h, u) ==
  /\ from_handle[h] = u /\ user[u].handle = h /\ user[u].state = "exit"
  /\ UNCHANGED appVars
  /\ \A p \in Peers : p # u => sent'[p] = sent[p] /\ Stream(p)' = Stream(p)
  /\ \/ sent'[u] = sent[u] /\ Stream(u)' = Stream(u)
     \/ /\ sent'[u] = Append(sent[u], Plain("goodbye"))
        /\ Stream(u)' = Append(sent[u], Plain("goodbye")) \o Queued(u)
        /\ cstate'[h] = "removed"

LEMMA ConfirmExitSays ==
  ASSUME Inv, Inv', NEW h \in Handles, ConfirmExit(h)
  PROVE  \E u \in Users : PartsWith(h, u)
<1>1. PICK u \in Peers : ConfirmExit(h)!(u)
  BY DEF ConfirmExit
<1>2. u \in Users /\ from_handle[h] = u /\ user[u].handle = h /\ csock[h] = u
      /\ user[u].state = "exit"
  BY <1>1, RemovesOwnClient DEF GetLine
<1>3. /\ \/ sent' = sent
         \/ /\ sent' = [sent EXCEPT ![u] = Append(@, Plain("goodbye"))]
            /\ MarkRemoved(h)
      /\ UNCHANGED <<csock, cout, appVars>> /\ sent \in [Peers -> Seq(Msg)]
  BY <1>1, <1>2 DEF RemoveClient, Inv, TypeOK, SocketTypeOK
<1>4. Clients' = Clients
  <2>1. cstate' \in {cstate, [cstate EXCEPT ![h] = "removed"]} /\ h \in Clients
        /\ cstate \in [Handles -> ClientStates]
    BY <1>2, MarkStep, UserFacts DEF Inv, TypeOK, NetTypeOK
  <2> QED  BY <2>1 DEF Clients
<1>5. \A p : Queued(p)' = Queued(p)
  BY <1>3, <1>4 DEF Queued
<1>6. CASE sent' = sent
  BY <1>2, <1>3, <1>5, <1>6 DEF Stream, PartsWith
<1>7. CASE sent' = [sent EXCEPT ![u] = Append(@, Plain("goodbye"))] /\ MarkRemoved(h)
  <2>1. sent'[u] = Append(sent[u], Plain("goodbye"))
        /\ \A p \in Peers : p # u => sent'[p] = sent[p]
    BY <1>3, <1>7
  <2>2. cstate'[h] = "removed"
    BY <1>7 DEF MarkRemoved, Inv, TypeOK, NetTypeOK
  <2> QED  BY <1>2, <1>3, <1>5, <2>1, <2>2 DEF Stream, PartsWith
<1> QED  BY <1>3, <1>6, <1>7

-----------------------------------------------------------------------------
(* Every step is of one of these kinds: what it says to whom, and what     *)
(* becomes of the users, of those in the chat, and of the names.           *)
SamePeople == Users' = Users /\ InChat' = InChat /\ from_username' = from_username

Silent == SamePeople /\ Calm

Cut ==
  /\ SamePeople
  /\ \A p \in Peers :
       Stream(p)' = Stream(p) \/ (p \notin Users /\ Stream(p)' = sent[p])

Refused ==
  /\ SamePeople
  /\ \A p \in Peers :
       \/ Stream(p)' = Stream(p)
       \/ p \notin Users /\ Stream(p) = <<>> /\ Stream(p)' = <<Plain("refused")>>

Greeted(u) ==
  /\ u \notin Users /\ NotYet(u) /\ Users' = Users \cup {u} /\ InChat' = InChat
  /\ UNCHANGED from_username
  /\ Stream(u) = <<>> /\ Stream(u)' = <<Plain("greeting")>>
  /\ \A p \in Peers : p # u => Stream(p)' = Stream(p)

(* A reply that changes nothing for its user.                              *)
PlainKinds ==
  {"prompt", "taken", "invalid", "help", "info", "list", "notfound",
   "notinchat", "usage"}

Replied(u, m) ==
  SamePeople /\ u \in Users /\ m \in Msg /\ m.kind \in PlainKinds /\ Spoken({u}, m)

Entered(u, n) ==
  /\ u \in Users \ InChat /\ n \in Names /\ from_username[n] = NoPeer
  /\ Users' = Users /\ InChat' = InChat \cup {u}
  /\ from_username' = [from_username EXCEPT ![n] = u]
  /\ Announced(InChat, M("joined", n, NoName), u, M("welcome", n, NoName))

Said(u, w) ==
  /\ SamePeople /\ u \in InChat /\ w \in Words
  /\ user[u].username \in Names /\ from_username[user[u].username] = u
  /\ Announced(InChat \ {u}, M("said", user[u].username, w),
               u, M("you", NoName, w))

Whispered(u, q) ==
  /\ SamePeople /\ u \in InChat /\ q \in InChat
  /\ user[u].username \in Names /\ from_username[user[u].username] = u
  /\ user[q].username \in Names
  /\ Announced({q}, M("whispered", user[u].username, NoName),
               u, M("ack", user[q].username, NoName))

Asked(u) ==
  /\ u \in InChat /\ Users' = Users /\ InChat' = InChat \ {u}
  /\ UNCHANGED from_username
  /\ Spoken({u}, Plain("confirm"))

Parted(u) ==
  /\ SamePeople /\ u \in Users \ InChat
  /\ \A p \in Peers : p # u => Stream(p)' = Stream(p)
  /\ \/ Stream(u)' = Stream(u)
     \/ /\ Stream(u)' = Append(sent[u], Plain("goodbye")) \o Queued(u)
        /\ cstate'[user[u].handle] = "removed"

Returned(u, n) ==
  /\ u \in Users \ InChat /\ Users' = Users /\ InChat' = InChat \cup {u}
  /\ UNCHANGED from_username /\ n \in Names
  /\ Spoken({u}, M("welcome", n, NoName))

Departed(u, n) ==
  /\ u \in Users /\ Users' = Users \ {u} /\ InChat' = InChat \ {u}
  /\ n = user[u].username /\ n \in Names \cup {NoName}
  /\ from_username' = [x \in Names |-> IF x = n THEN NoPeer ELSE from_username[x]]
  /\ Spoken(InChat \ {u}, M("left", n, NoName))

LEMMA SameTables ==
  ASSUME UNCHANGED appVars
  PROVE  SamePeople
BY DEF appVars, SamePeople, Users, InChat

(* Whoever is in the chat has a name, which leads to it.                   *)
LEMMA NamedUser ==
  ASSUME Inv, NEW u \in InChat
  PROVE  /\ u \in Users /\ u \in Peers
         /\ user[u].username \in Names /\ from_username[user[u].username] = u
<1>1. u \in Users /\ user[u].state = "chat" /\ u \in Peers
  BY UserFacts DEF InChat
<1>2. user[u].username \in Names
  BY <1>1 DEF Inv, NamedInChat, TypeOK, AppTypeOK
<1> QED  BY <1>1, <1>2 DEF Inv, NamesExact

LEMMA LoginRefusedReplies ==
  ASSUME Inv, Inv', NEW h \in Handles, LoginRefused(h)
  PROVE  \E m : Replied(from_handle[h], m)
<1>1. PICK u \in Peers : LoginRefused(h)!(u)
  BY DEF LoginRefused
<1>2. /\ u \in Users /\ from_handle[h] = u
      /\ UNCHANGED <<sent, cstate, csock, appVars>>
  <2>1. GetLine(h, u, "login")
    BY <1>1
  <2> QED  BY <1>1, <2>1, RemovesOwnClient DEF socketVars
<1>3. PICK kind \in {"prompt", "taken", "invalid"} : Reply(u, Plain(kind))
  BY <1>1
<1>4. Plain(kind) \in Msg /\ Plain(kind).kind = kind
  BY MsgType DEF ReplyKinds, Plain, M
<1>5. Spoken({u}, Plain(kind))
  BY <1>2, <1>3, <1>4, SendSpeaks DEF Reply
<1>6. SamePeople
  BY <1>2, SameTables
<1> QED  BY <1>2, <1>4, <1>5, <1>6 DEF Replied, PlainKinds

LEMMA AnsweredReplies ==
  ASSUME Inv, Inv', NEW h \in Handles, Answered(h)
  PROVE  \E m : Replied(from_handle[h], m)
<1>1. PICK u \in Peers : Answered(h)!(u)
  BY DEF Answered
<1>2. PICK line, m : line = Input(u) /\ m = Answer(line)
  OBVIOUS
<1>3. /\ GetLine(h, u, "chat") /\ Reply(u, m) /\ ~CanWhisper(line)
      /\ line.kind \notin {"text", "exit"}
      /\ UNCHANGED <<sent, cstate, csock, appVars>>
  BY <1>1, <1>2 DEF socketVars
<1>4. u \in Users /\ from_handle[h] = u /\ line \in Line
  BY <1>2, <1>3, RemovesOwnClient, GetLineType DEF Inv
<1>5. m \in Msg
  BY <1>2, <1>3, <1>4, AnswerType DEF Inv
<1>6. m.kind \in PlainKinds
  BY <1>2 DEF Answer, WhisperError, Plain, M, PlainKinds
<1>7. Spoken({u}, m)
  BY <1>3, <1>4, <1>5, SendSpeaks DEF Reply
<1>8. SamePeople
  BY <1>3, SameTables
<1> QED  BY <1>4, <1>5, <1>6, <1>7, <1>8 DEF Replied

LEMMA LoginEnters ==
  ASSUME Inv, Inv', NEW h \in Handles, Login(h)
  PROVE  \E n : Entered(from_handle[h], n)
<1>1. PICK u \in Peers : Login(h)!(u)
  BY DEF Login
<1>2. PICK n : n = Input(u).word
  OBVIOUS
<1>3. /\ u \in Users /\ user[u].state = "login" /\ n \in Names
      /\ from_handle[h] = u /\ from_username[n] = NoPeer
      /\ user' = [user EXCEPT ![u] = [@ EXCEPT !.username = n, !.state = "chat"]]
      /\ from_username' = [from_username EXCEPT ![n] = u]
      /\ Announce(InChat \ {u}, M("joined", n, NoName), u, M("welcome", n, NoName))
      /\ UNCHANGED <<sent, cstate, csock, from_handle>>
  <2>1. GetLine(h, u, "login")
    BY <1>1
  <2> QED  BY <1>1, <1>2, <2>1, RemovesOwnClient
           DEF GetLine, socketVars, ValidUsername, Registered
<1>4. user \in [Peers -> UserType]
  BY DEF Inv, TypeOK, AppTypeOK, UserType
<1>5. Users' = Users /\ u \notin InChat /\ InChat \ {u} = InChat
  BY <1>3 DEF Users, InChat
<1>6. InChat' = InChat \cup {u}
  <2>1. Users \subseteq Peers
    BY UserFacts
  <2>2. \A v \in Peers : user'[v].state = IF v = u THEN "chat" ELSE user[v].state
    BY <1>3, <1>4 DEF UserType
  <2> QED  BY <1>3, <1>5, <2>1, <2>2 DEF InChat
<1>7. M("joined", n, NoName) \in Msg /\ M("welcome", n, NoName) \in Msg
  BY <1>3, MsgType DEF ReplyKinds, NoticeKinds
<1>8. Announced(InChat, M("joined", n, NoName), u, M("welcome", n, NoName))
  BY <1>3, <1>5, <1>7, AnnounceSpeaks, InChatAreUsers
<1> QED  BY <1>3, <1>5, <1>6, <1>8 DEF Entered

LEMMA SaySays ==
  ASSUME Inv, Inv', NEW h \in Handles, Say(h)
  PROVE  /\ Input(from_handle[h]).word \in Words
         /\ Said(from_handle[h], Input(from_handle[h]).word)
<1>1. PICK u \in Peers : Say(h)!(u)
  BY DEF Say
<1>2. PICK w, n : w = Input(u).word /\ n = user[u].username
  OBVIOUS
<1>3. GetLine(h, u, "chat")
  BY <1>1
<1>4. /\ u \in Users /\ u \in InChat /\ u = from_handle[h] /\ w \in Words
      /\ Announce(InChat \ {u}, M("said", n, w), u, M("you", NoName, w))
      /\ UNCHANGED <<sent, cstate, csock, appVars>>
  <2>1. u \in Users /\ u \in InChat /\ u = from_handle[h]
    BY <1>3, RemovesOwnClient DEF GetLine, InChat
  <2>2. w \in Words
    BY <1>2, <1>3, GetLineType DEF Inv
  <2> QED  BY <1>1, <1>2, <2>1, <2>2 DEF socketVars
<1>5. n \in Names /\ from_username[n] = u
  BY <1>2, <1>4, NamedUser
<1>6. M("said", n, w) \in Msg /\ M("you", NoName, w) \in Msg
  BY <1>4, <1>5, MsgType DEF ReplyKinds, NoticeKinds
<1>7. Announced(InChat \ {u}, M("said", n, w), u, M("you", NoName, w))
  BY <1>4, <1>6, AnnounceSpeaks, InChatAreUsers
<1>8. SamePeople
  BY <1>4, SameTables
<1> QED  BY <1>2, <1>4, <1>5, <1>7, <1>8 DEF Said

LEMMA WhisperWhispers ==
  ASSUME Inv, Inv', NEW h \in Handles, Whisper(h)
  PROVE  \E q : Whispered(from_handle[h], q)
<1>1. PICK u \in Peers : Whisper(h)!(u)
  BY DEF Whisper
<1>2. PICK w, n, q : /\ w = Input(u).word /\ n = user[u].username
                     /\ q = from_username[w]
  OBVIOUS
<1>3. GetLine(h, u, "chat") /\ CanWhisper(Input(u))
  BY <1>1
<1>4. u \in Users /\ u \in InChat /\ from_handle[h] = u
  BY <1>3, RemovesOwnClient DEF GetLine, InChat
<1>5. q \in InChat /\ user[q].username = w /\ w \in Names
  <2>1. w \in Names /\ q # NoPeer /\ user[q].state = "chat"
    BY <1>2, <1>3 DEF CanWhisper, Registered
  <2>2. q \in Users /\ user[q].username = w
    BY <1>2, <2>1, WhisperedIsUser
  <2> QED  BY <2>1, <2>2 DEF InChat
<1>6. /\ Announce({q}, M("whispered", n, NoName), u, M("ack", w, NoName))
      /\ UNCHANGED <<sent, cstate, csock, appVars>>
  BY <1>1, <1>2 DEF socketVars
<1>7. n \in Names /\ from_username[n] = u
  BY <1>2, <1>4, NamedUser
<1>8. M("whispered", n, NoName) \in Msg /\ M("ack", w, NoName) \in Msg
  BY <1>5, <1>7, MsgType DEF ReplyKinds, NoticeKinds
<1>9. Announced({q}, M("whispered", n, NoName), u, M("ack", w, NoName))
  <2>1. {q} \in SUBSET Users
    BY <1>5, InChatAreUsers
  <2> QED  BY <1>4, <1>6, <1>8, <2>1, AnnounceSpeaks
<1>10. SamePeople
  BY <1>6, SameTables
<1> QED  BY <1>2, <1>4, <1>5, <1>7, <1>9, <1>10 DEF Whispered

(* Who is in the chat after one user's state has changed.                  *)
LEMMA SwitchedChat ==
  ASSUME Inv, NEW u \in Users, NEW state \in UserStates, SwitchTo(u, state),
         UNCHANGED from_handle
  PROVE  /\ Users' = Users
         /\ InChat' = IF state = "chat" THEN InChat \cup {u} ELSE InChat \ {u}
<1>1. Users' = Users /\ Users \subseteq Peers
  BY UserFacts DEF Users
<1>2. \A v \in Peers : user'[v].state = IF v = u THEN state ELSE user[v].state
  <2>1. user \in [Peers -> UserType]
    BY DEF Inv, TypeOK, AppTypeOK, UserType
  <2> QED  BY <2>1 DEF SwitchTo, UserType
<1> QED  BY <1>1, <1>2 DEF InChat

LEMMA AskExitAsks ==
  ASSUME Inv, Inv', NEW h \in Handles, AskExit(h)
  PROVE  Asked(from_handle[h])
<1>1. PICK u \in Peers : AskExit(h)!(u)
  BY DEF AskExit
<1>2. /\ GetLine(h, u, "chat") /\ Reply(u, Plain("confirm")) /\ SwitchTo(u, "exit")
      /\ UNCHANGED <<sent, cstate, csock, from_handle, from_username>>
  BY <1>1 DEF socketVars
<1>3. u \in InChat /\ u \in Users /\ from_handle[h] = u
  BY <1>2, RemovesOwnClient DEF GetLine, InChat
<1>4. Users' = Users /\ InChat' = InChat \ {u}
  BY <1>2, <1>3, SwitchedChat DEF UserStates
<1>5. Plain("confirm") \in Msg
  BY MsgType DEF ReplyKinds
<1>6. Spoken({u}, Plain("confirm"))
  BY <1>2, <1>3, <1>5, SendSpeaks DEF Reply
<1> QED  BY <1>2, <1>3, <1>4, <1>6 DEF Asked

LEMMA CancelExitReturns ==
  ASSUME Inv, Inv', NEW h \in Handles, CancelExit(h)
  PROVE  \E n : Returned(from_handle[h], n)
<1>1. PICK u \in Peers : CancelExit(h)!(u)
  BY DEF CancelExit
<1>2. PICK n : n = user[u].username
  OBVIOUS
<1>3. /\ GetLine(h, u, "exit") /\ Reply(u, M("welcome", n, NoName))
      /\ SwitchTo(u, "chat")
      /\ UNCHANGED <<sent, cstate, csock, from_handle, from_username>>
  BY <1>1, <1>2 DEF socketVars
<1>4. u \in Users \ InChat /\ user[u].state = "exit" /\ from_handle[h] = u
  BY <1>3, RemovesOwnClient DEF GetLine, InChat
<1>5. n \in Names
  BY <1>2, <1>4 DEF Inv, NamedInChat, TypeOK, AppTypeOK
<1>6. Users' = Users /\ InChat' = InChat \cup {u}
  BY <1>3, <1>4, SwitchedChat DEF UserStates
<1>7. M("welcome", n, NoName) \in Msg
  BY <1>5, MsgType DEF ReplyKinds
<1>8. Spoken({u}, M("welcome", n, NoName))
  BY <1>3, <1>4, <1>7, SendSpeaks DEF Reply
<1> QED  BY <1>3, <1>4, <1>5, <1>6, <1>8 DEF Returned

LEMMA RemoveUserDeparts ==
  ASSUME Inv, Inv', NEW h \in Handles, RemoveUser(h)
  PROVE  \E u, n : Departed(u, n)
<1>1. PICK u \in Peers : /\ RemoveUser(h)!(u)
                         /\ user[u].handle = h /\ u = from_handle[h]
                         /\ \A g \in Handles \ {h} : from_handle[g] # u
  BY RemovedUser
<1>2. PICK n : n = user[u].username
  OBVIOUS
<1>3. /\ from_handle' = [from_handle EXCEPT ![h] = NoPeer]
      /\ FreeName(n)
      /\ user' = [user EXCEPT ![u] =
                    [@ EXCEPT !.username = NoName, !.state = "freed"]]
      /\ Send(To(InChat \ {u}, M("left", n, NoName)))
      /\ UNCHANGED <<sent, cstate, csock>>
  BY <1>1, <1>2 DEF socketVars
<1>4. /\ user \in [Peers -> UserType] /\ n \in Names \cup {NoName}
      /\ from_handle \in [Handles -> Peers \cup {NoPeer}]
  BY <1>2 DEF Inv, TypeOK, AppTypeOK, UserType
<1>5. u \in Users /\ Users' = Users \ {u} /\ Users \subseteq Peers
  <2>1. u \in Users
    BY <1>1, SocketsAssumption DEF Users
  <2>2. Users' = Users \ {u}
    BY <1>1, <1>3, <1>4 DEF Users
  <2> QED  BY <2>1, <2>2, UserFacts
<1>6. InChat' = InChat \ {u}
  <2>1. \A v \in Peers : v # u => user'[v].state = user[v].state
    BY <1>3, <1>4
  <2> QED  BY <1>5, <2>1 DEF InChat
<1>7. M("left", n, NoName) \in Msg
  BY <1>4, MsgType DEF NoticeKinds
<1>8. Spoken(InChat \ {u}, M("left", n, NoName))
  BY <1>3, <1>7, SendSpeaks, InChatAreUsers
<1> QED  BY <1>2, <1>3, <1>4, <1>5, <1>6, <1>8 DEF Departed, FreeName

(* What a user gets for a line: what it said in the chat, or else ...      *)
Served(u) ==
  \/ Asked(u)
  \/ \E x : \/ Replied(u, x) \/ Entered(u, x) \/ Whispered(u, x) \/ Returned(u, x)

Serves(h) ==
  \/ LoginRefused(h) \/ Login(h) \/ Answered(h) \/ Whisper(h)
  \/ AskExit(h) \/ CancelExit(h)

TakesAndAnswers(h) == Say(h) \/ Serves(h)

LEMMA LineServed ==
  ASSUME Inv, Inv', NEW h \in Handles, Serves(h)
  PROVE  Served(from_handle[h])
BY LoginRefusedReplies, LoginEnters, AnsweredReplies, WhisperWhispers, AskExitAsks,
   CancelExitReturns DEF Serves, Served

(* No step but those of ac_app_update says anything to a user.             *)
LEMMA PollIsSilent ==
  ASSUME RoomInv, RoomInv', Next
  PROVE  Silent \/ Cut \/ Refused \/ UpdateStep
<1> DEFINE Goal == Silent \/ Cut \/ Refused \/ UpdateStep
<1> SUFFICES Goal
  OBVIOUS
<1>0. Inv /\ Inv'
  BY DEF RoomInv
<1>1. UNCHANGED <<sent, csock, cout, appVars>> /\ Clients' = Clients => Silent
  BY SameQueues, SameTables DEF Silent
<1>2. CASE PeerStep /\ UNCHANGED <<netVars, appVars>>
  <2>1. UNCHANGED sent
    BY <1>2 DEF PeerStep, Connect, Type, Close, Reset, Abort
  <2> QED  BY <1>1, <1>2, <2>1 DEF netVars, Clients
<1>3. CASE EndFlush \/ EndUpdate \/ EndReap
  BY <1>1, <1>3 DEF EndFlush, EndUpdate, EndReap, socketVars, Clients
<1>4. CASE PollStep /\ UNCHANGED appVars
  <2>1. ASSUME \/ Listen \/ ListenFails \/ Poll \/ PollFails \/ AcceptFails
               \/ RefuseKilled \/ EndRecv \/ ReadFreedBucket
               \/ \E h \in Handles : \/ RecvData(h) \/ RecvNothing(h)
                                     \/ FlushFails(h) \/ FlushKilled(h)
        PROVE  Goal
    <3>1. UNCHANGED <<sent, csock, cstate, cout>>
      BY <2>1 DEF Listen, ListenFails, Poll, PollFails, AcceptFails, RefuseKilled,
         EndRecv, ReadFreedBucket, RecvData, RecvNothing, FlushFails, FlushKilled,
         socketVars
    <3> QED  BY <1>1, <1>4, <3>1 DEF Clients
  <2>2. ASSUME NEW h \in Handles, RecvEnd(h)  PROVE Goal
    <3>1. UNCHANGED <<sent, csock, cout>>
      BY <2>2 DEF RecvEnd
    <3>2. /\ cstate' \in {cstate, [cstate EXCEPT ![h] = "removed"]}
          /\ cstate[h] # "none"
      BY <1>0, <2>2, MarkStep
    <3>3. Clients' = Clients
      BY <1>0, <3>2 DEF Clients, Inv, TypeOK, NetTypeOK
    <3> QED  BY <1>1, <1>4, <3>1, <3>3
  <2>3. CASE Sweep
    BY <1>0, <1>4, <2>3, SweepCuts, SameTables, StreamType, ConcatEmptySeq DEF Cut
  <2>4. CASE Refuse
    BY <1>4, <2>4, RefuseSays, SameTables DEF Refused
  <2>5. ASSUME NEW h \in Handles, AddClient(h) \/ FlushSome(h)  PROVE Goal
    BY <1>0, <1>4, <2>5, AddClientIsCalm, FlushIsCalm, SameTables DEF Silent
  <2> QED  BY <1>4, <2>1, <2>2, <2>3, <2>4, <2>5 DEF PollStep
<1> QED  BY <1>2, <1>3, <1>4 DEF Next, ServerStep

LEMMA StreamSteps ==
  ASSUME RoomInv, RoomInv', Next
  PROVE  \/ Silent \/ Cut \/ Refused
         \/ \E h \in Handles : Say(h)
         \/ \E u : Served(u) \/ Parted(u)
         \/ \E u \in Peers : Greeted(u)
         \/ \E u, n : Departed(u, n)
<1> DEFINE Goal == \/ \E h \in Handles : Say(h)
                   \/ \E u : Served(u) \/ Parted(u)
                   \/ \E u \in Peers : Greeted(u)
                   \/ \E u, n : Departed(u, n)
<1>0. Inv /\ Inv'
  BY DEF RoomInv
<1>1. ASSUME NEW h \in Handles, CreateUser(h)  PROVE Goal
  <2>1. PICK u \in Peers : Greets(h, u)
    BY <1>0, <1>1, CreateUserGreets
  <2>2. InChat' = InChat
    <3>1. Users \subseteq Peers
      BY <1>0, UserFacts
    <3> QED  BY <2>1, <3>1 DEF InChat, Greets
  <2>3. UNCHANGED from_username
    BY <1>1 DEF CreateUser
  <2> QED  BY <2>1, <2>2, <2>3 DEF Greeted, Greets
<1>2. ASSUME NEW h \in Handles, ConfirmExit(h)  PROVE Goal
  <2>1. PICK u \in Users : PartsWith(h, u)
    BY <1>0, <1>2, ConfirmExitSays
  <2> QED  BY <2>1, SameTables DEF Parted, PartsWith, InChat
<1>3. CASE UpdateStep
  BY <1>0, <1>1, <1>2, <1>3, LineServed, RemoveUserDeparts DEF UpdateStep, Serves
<1> QED  BY <1>3, PollIsSilent

-----------------------------------------------------------------------------
(* The ways a stream changes: one more message at its end, a goodbye       *)
(* somewhere in it, or its end cut off.                                    *)
LEMMA OneMore ==
  ASSUME NEW s \in Seq(Msg), NEW m \in Msg
  PROVE  /\ s \o <<m>> \in Seq(Msg) /\ Len(s \o <<m>>) = Len(s) + 1
         /\ DOMAIN (s \o <<m>>) = 1 .. Len(s) + 1 /\ DOMAIN s = 1 .. Len(s)
         /\ (s \o <<m>>)[Len(s) + 1] = m
         /\ \A k \in 1 .. Len(s) : (s \o <<m>>)[k] = s[k]
         /\ Len(s) \in Nat
<1>1. <<m>> \in Seq(Msg) /\ Len(<<m>>) = 1 /\ <<m>>[1] = m
  OBVIOUS
<1>2. PICK t : t = s \o <<m>>
  OBVIOUS
<1>3. /\ t \in Seq(Msg) /\ Len(t) = Len(s) + 1 /\ Len(s) \in Nat
      /\ \A k \in 1 .. Len(s) + 1 :
           t[k] = IF k <= Len(s) THEN s[k] ELSE <<m>>[k - Len(s)]
  <2>1. /\ s \o <<m>> \in Seq(Msg) /\ Len(s \o <<m>>) = Len(s) + Len(<<m>>)
        /\ \A k \in 1 .. Len(s) + Len(<<m>>) :
             (s \o <<m>>)[k] = IF k <= Len(s) THEN s[k] ELSE <<m>>[k - Len(s)]
    BY <1>1, ConcatProperties
  <2> QED  BY <1>1, <1>2, <2>1, LenProperties
<1>4. DOMAIN t = 1 .. Len(s) + 1 /\ DOMAIN s = 1 .. Len(s)
  BY <1>3, LenProperties
<1>5. t[Len(s) + 1] = m /\ \A k \in 1 .. Len(s) : t[k] = s[k]
  BY <1>1, <1>3
<1> QED  BY <1>2, <1>3, <1>4, <1>5

Inserted(s, t, a) ==
  /\ s \in Seq(Msg) /\ t \in Seq(Msg) /\ a \in 0 .. Len(s) /\ Len(t) = Len(s) + 1
  /\ \A k \in 1 .. a : t[k] = s[k]
  /\ t[a + 1] = Plain("goodbye")
  /\ \A k \in a + 1 .. Len(s) : t[k + 1] = s[k]

(* Where a position of the one is in the other.                            *)
Up(a, k) == IF k <= a THEN k ELSE k + 1
Down(a, k) == IF k <= a THEN k ELSE k - 1

LEMMA InsertedAt ==
  ASSUME NEW s, NEW t, NEW a, Inserted(s, t, a)
  PROVE  /\ Len(s) \in Nat /\ DOMAIN s = 1 .. Len(s) /\ DOMAIN t = 1 .. Len(s) + 1
         /\ a + 1 \in DOMAIN t /\ t[a + 1].kind = "goodbye"
         /\ \A k \in DOMAIN s : Up(a, k) \in DOMAIN t /\ t[Up(a, k)] = s[k]
         /\ \A k \in DOMAIN t : k # a + 1 =>
              Down(a, k) \in DOMAIN s /\ s[Down(a, k)] = t[k]
<1>1. /\ s \in Seq(Msg) /\ t \in Seq(Msg) /\ a \in 0 .. Len(s) /\ Len(t) = Len(s) + 1
      /\ Len(s) \in Nat /\ DOMAIN s = 1 .. Len(s) /\ DOMAIN t = 1 .. Len(s) + 1
      /\ t[a + 1].kind = "goodbye"
  BY LenProperties DEF Inserted, Plain, M
<1>2. ASSUME NEW k \in DOMAIN s  PROVE Up(a, k) \in DOMAIN t /\ t[Up(a, k)] = s[k]
  BY <1>1 DEF Inserted, Up
<1>3. ASSUME NEW k \in DOMAIN t, k # a + 1
      PROVE  Down(a, k) \in DOMAIN s /\ s[Down(a, k)] = t[k]
  <2>1. CASE k <= a
    BY <1>1, <1>3, <2>1 DEF Inserted, Down
  <2>2. CASE ~(k <= a)
    <3>1. k - 1 \in a + 1 .. Len(s) /\ (k - 1) + 1 = k /\ Down(a, k) = k - 1
      BY <1>1, <1>3, <2>2 DEF Down
    <3>2. t[(k - 1) + 1] = s[k - 1]
      BY <3>1 DEF Inserted
    <3> QED  BY <1>1, <3>1, <3>2
  <2> QED  BY <2>1, <2>2
<1> QED  BY <1>1, <1>2, <1>3

(* What ac_server_remove_client does to a stream.                          *)
LEMMA GoodbyeInserted ==
  ASSUME NEW x \in Seq(Msg), NEW y \in Seq(Msg)
  PROVE  Inserted(x \o y, Append(x, Plain("goodbye")) \o y, Len(x))
<1>1. PICK g, z : g = Plain("goodbye") /\ z = Append(x, g)
  OBVIOUS
<1>2. g \in Msg
  BY <1>1, MsgType DEF ReplyKinds
<1>3. /\ z \in Seq(Msg) /\ Len(z) = Len(x) + 1 /\ z[Len(x) + 1] = g
      /\ \A k \in 1 .. Len(x) : z[k] = x[k]
      /\ Len(x) \in Nat /\ Len(y) \in Nat
  <2>1. /\ Append(x, g) \in Seq(Msg) /\ Len(Append(x, g)) = Len(x) + 1
        /\ Append(x, g)[Len(x) + 1] = g
        /\ \A k \in 1 .. Len(x) : Append(x, g)[k] = x[k]
    BY <1>2, AppendProperties
  <2>2. Len(x) \in Nat /\ Len(y) \in Nat
    BY LenProperties
  <2> QED  BY <1>1, <2>1, <2>2, Zenon
<1>4. PICK s, t : s = x \o y /\ t = z \o y
  OBVIOUS
<1>5. /\ s \in Seq(Msg) /\ Len(s) = Len(x) + Len(y)
      /\ \A k \in 1 .. Len(x) + Len(y) :
           s[k] = IF k <= Len(x) THEN x[k] ELSE y[k - Len(x)]
  BY <1>4, ConcatProperties
<1>6. /\ t \in Seq(Msg) /\ Len(t) = Len(z) + Len(y)
      /\ \A k \in 1 .. Len(z) + Len(y) :
           t[k] = IF k <= Len(z) THEN z[k] ELSE y[k - Len(z)]
  <2>1. /\ z \o y \in Seq(Msg) /\ Len(z \o y) = Len(z) + Len(y)
        /\ \A k \in 1 .. Len(z) + Len(y) :
             (z \o y)[k] = IF k <= Len(z) THEN z[k] ELSE y[k - Len(z)]
    BY <1>3, ConcatProperties, Zenon
  <2> QED  BY <1>4, <2>1
<1>7. Len(x) \in 0 .. Len(s) /\ Len(t) = Len(s) + 1
  BY <1>3, <1>5, <1>6
<1>8. \A k \in 1 .. Len(x) : t[k] = s[k]
  BY <1>3, <1>5, <1>6
<1>9. t[Len(x) + 1] = g
  BY <1>3, <1>6
<1>10. \A k \in Len(x) + 1 .. Len(s) : t[k + 1] = s[k]
  <2> SUFFICES ASSUME NEW k \in Len(x) + 1 .. Len(s)  PROVE t[k + 1] = s[k]
    OBVIOUS
  <2>1. s[k] = y[k - Len(x)]
    BY <1>3, <1>5
  <2>2. t[k + 1] = y[(k + 1) - Len(z)]
    <3>1. k + 1 \in 1 .. Len(z) + Len(y) /\ ~(k + 1 <= Len(z))
      BY <1>3, <1>5
    <3> QED  BY <1>6, <3>1
  <2>3. (k + 1) - Len(z) = k - Len(x)
    BY <1>3, <1>5
  <2> QED  BY <2>1, <2>2, <2>3
<1> QED  BY <1>1, <1>4, <1>5, <1>6, <1>7, <1>8, <1>9, <1>10 DEF Inserted

(* What is left when the queue is dropped.                                 *)
Begins(t, s) ==
  /\ s \in Seq(Msg) /\ t \in Seq(Msg) /\ Len(t) <= Len(s)
  /\ \A k \in 1 .. Len(t) : t[k] = s[k]

LEMMA SentBegins ==
  ASSUME Inv, NEW p \in Peers
  PROVE  Begins(sent[p], Stream(p))
<1>1. sent[p] \in Seq(Msg) /\ Queued(p) \in Seq(Msg)
  BY StreamType
<1>2. PICK x, y, s : x = sent[p] /\ y = Queued(p) /\ s = Stream(p) /\ s = x \o y
  BY DEF Stream
<1>3. /\ s \in Seq(Msg) /\ Len(s) = Len(x) + Len(y)
      /\ \A k \in 1 .. Len(x) + Len(y) :
           s[k] = IF k <= Len(x) THEN x[k] ELSE y[k - Len(x)]
  BY <1>1, <1>2, ConcatProperties
<1>4. Len(x) \in Nat /\ Len(y) \in Nat
  BY <1>1, <1>2, LenProperties
<1> QED  BY <1>1, <1>2, <1>3, <1>4 DEF Begins

-----------------------------------------------------------------------------
(* Notices and where they may be.                                          *)
QuietIn(s) == \A i \in DOMAIN s : Notice(s[i]) => Inside(s, i)

LEMMA InsideKept ==
  ASSUME NEW s \in Seq(Msg), NEW m \in Msg, NEW i \in 1 .. Len(s), Inside(s, i)
  PROVE  Inside(s \o <<m>>, i)
<1>1. PICK t : t = s \o <<m>>
  OBVIOUS
<1>2. \A k \in 1 .. Len(s) : t[k] = s[k]
  BY <1>1, OneMore
<1>3. PICK j \in 1 .. i : s[j].kind = "welcome" /\ \A k \in j .. i : s[k].kind # "confirm"
  BY DEF Inside
<1>4. Len(s) \in Nat
  BY LenProperties
<1>5. t[j] = s[j] /\ \A k \in j .. i : t[k] = s[k]
  BY <1>2, <1>4
<1>6. Inside(t, i)
  BY <1>3, <1>5 DEF Inside
<1> QED  BY <1>1, <1>6

LEMMA InsideOneMore ==
  ASSUME NEW s \in Seq(Msg), NEW m \in Msg,
         \/ m.kind = "welcome"
         \/ m.kind # "confirm" /\ Inside(s, Len(s))
  PROVE  Inside(s \o <<m>>, Len(s) + 1)
<1>1. PICK t : t = s \o <<m>>
  OBVIOUS
<1>2. Len(s) \in Nat /\ t[Len(s) + 1] = m /\ \A k \in 1 .. Len(s) : t[k] = s[k]
  BY <1>1, OneMore
<1>3. CASE m.kind = "welcome"
  <2>1. Len(s) + 1 \in 1 .. Len(s) + 1
    BY <1>2
  <2>2. \A k \in Len(s) + 1 .. Len(s) + 1 : t[k] = m
    BY <1>2
  <2> QED  BY <1>1, <1>2, <1>3, <2>1, <2>2 DEF Inside
<1>4. CASE m.kind # "confirm" /\ Inside(s, Len(s))
  <2>1. PICK j \in 1 .. Len(s) : /\ s[j].kind = "welcome"
                                 /\ \A k \in j .. Len(s) : s[k].kind # "confirm"
    BY <1>4 DEF Inside
  <2>2. j \in 1 .. Len(s) + 1 /\ t[j].kind = "welcome"
    BY <1>2, <2>1
  <2>3. \A k \in j .. Len(s) + 1 : t[k].kind # "confirm"
    <3> SUFFICES ASSUME NEW k \in j .. Len(s) + 1  PROVE t[k].kind # "confirm"
      OBVIOUS
    <3>1. k = Len(s) + 1 \/ (k \in j .. Len(s) /\ k \in 1 .. Len(s))
      BY <1>2, <2>1
    <3> QED  BY <1>2, <1>4, <2>1, <3>1
  <2> QED  BY <1>1, <2>2, <2>3 DEF Inside
<1> QED  BY <1>3, <1>4

LEMMA QuietOneMore ==
  ASSUME NEW s \in Seq(Msg), NEW m \in Msg, QuietIn(s),
         Notice(m) => m.kind # "confirm" /\ Inside(s, Len(s))
  PROVE  QuietIn(s \o <<m>>)
<1>1. PICK t : t = s \o <<m>>
  OBVIOUS
<1>2. /\ Len(s) \in Nat /\ t[Len(s) + 1] = m /\ \A k \in 1 .. Len(s) : t[k] = s[k]
      /\ DOMAIN t = 1 .. Len(s) + 1 /\ DOMAIN s = 1 .. Len(s)
  BY <1>1, OneMore
<1> SUFFICES ASSUME NEW i \in DOMAIN t, Notice(t[i])  PROVE Inside(t, i)
  BY <1>1 DEF QuietIn
<1>3. CASE i = Len(s) + 1
  BY <1>1, <1>2, <1>3, InsideOneMore
<1>4. CASE i # Len(s) + 1
  <2>1. i \in 1 .. Len(s) /\ i \in DOMAIN s /\ Notice(s[i])
    BY <1>2, <1>4
  <2> QED  BY <1>1, <2>1, InsideKept DEF QuietIn
<1> QED  BY <1>3, <1>4

LEMMA InsideInserted ==
  ASSUME NEW s, NEW t, NEW a, Inserted(s, t, a), NEW i \in DOMAIN t, i # a + 1,
         Inside(s, Down(a, i))
  PROVE  Inside(t, i)
<1>0. a \in 0 .. Len(s)
  BY DEF Inserted
<1>1. /\ Len(s) \in Nat /\ DOMAIN s = 1 .. Len(s) /\ DOMAIN t = 1 .. Len(s) + 1
      /\ t[a + 1].kind = "goodbye"
      /\ \A k \in DOMAIN s : Up(a, k) \in DOMAIN t /\ t[Up(a, k)] = s[k]
      /\ \A k \in DOMAIN t : k # a + 1 =>
           Down(a, k) \in DOMAIN s /\ s[Down(a, k)] = t[k]
  BY InsertedAt
<1>2. PICK j \in 1 .. Down(a, i) :
        s[j].kind = "welcome" /\ \A k \in j .. Down(a, i) : s[k].kind # "confirm"
  BY DEF Inside
<1>3. j \in DOMAIN s /\ Up(a, j) \in 1 .. i /\ t[Up(a, j)].kind = "welcome"
  <2>1. j \in DOMAIN s
    BY <1>1, <1>2
  <2>2. Up(a, j) \in 1 .. i
    BY <1>0, <1>1, <1>2, <2>1 DEF Up, Down
  <2> QED  BY <1>1, <1>2, <2>1, <2>2
<1>4. ASSUME NEW k \in Up(a, j) .. i  PROVE t[k].kind # "confirm"
  <2>1. CASE k = a + 1
    BY <1>1, <2>1
  <2>2. CASE k # a + 1
    <3>1. k \in DOMAIN t /\ Down(a, k) \in j .. Down(a, i)
      BY <1>0, <1>1, <1>3, <2>2 DEF Up, Down
    <3> QED  BY <1>1, <1>2, <2>2, <3>1
  <2> QED  BY <2>1, <2>2
<1> QED  BY <1>3, <1>4 DEF Inside

LEMMA QuietInserted ==
  ASSUME NEW s, NEW t, NEW a, Inserted(s, t, a), QuietIn(s)
  PROVE  QuietIn(t)
<1> SUFFICES ASSUME NEW i \in DOMAIN t, Notice(t[i])  PROVE Inside(t, i)
  BY DEF QuietIn
<1>1. i # a + 1
  BY InsertedAt DEF Notice, NoticeKinds
<1>2. Down(a, i) \in DOMAIN s /\ s[Down(a, i)] = t[i]
  BY <1>1, InsertedAt
<1> QED  BY <1>1, <1>2, InsideInserted DEF QuietIn

LEMMA QuietBegins ==
  ASSUME NEW s, NEW t, Begins(t, s), QuietIn(s)
  PROVE  QuietIn(t)
<1>1. /\ Len(s) \in Nat /\ Len(t) \in Nat /\ Len(t) <= Len(s)
      /\ DOMAIN s = 1 .. Len(s) /\ DOMAIN t = 1 .. Len(t)
      /\ \A k \in 1 .. Len(t) : t[k] = s[k]
  BY LenProperties DEF Begins
<1> SUFFICES ASSUME NEW i \in DOMAIN t, Notice(t[i])  PROVE Inside(t, i)
  BY DEF QuietIn
<1>2. i \in DOMAIN s /\ Inside(s, i)
  BY <1>1 DEF QuietIn
<1> QED  BY <1>1, <1>2 DEF Inside

-----------------------------------------------------------------------------
(* One message for some people, and then perhaps another.                  *)
LEMMA SpokenAt ==
  ASSUME Inv, NEW people, NEW m \in Msg, Spoken(people, m), NEW p \in Peers
  PROVE  /\ Stream(p) \in Seq(Msg)
         /\ p \in people => Stream(p)' = Stream(p) \o <<m>>
         /\ p \notin people => Stream(p)' = Stream(p)
BY StreamType, ConcatEmptySeq DEF Spoken, For

-----------------------------------------------------------------------------
(* What the streams say of names.                                          *)
LEMMA GoneOneMore ==
  ASSUME NEW s \in Seq(Msg), NEW m \in Msg, NEW n, GoneSince(s \o <<m>>, n)
  PROVE  \/ NameLeaves(m, n)
         \/ GoneSince(s, n) /\ m.kind # "confirm" /\ ~NameJoins(m, n)
<1>1. PICK t : t = s \o <<m>>
  OBVIOUS
<1>2. /\ Len(s) \in Nat /\ t[Len(s) + 1] = m /\ \A k \in 1 .. Len(s) : t[k] = s[k]
      /\ DOMAIN t = 1 .. Len(s) + 1 /\ DOMAIN s = 1 .. Len(s) /\ Len(t) = Len(s) + 1
  BY <1>1, OneMore
<1>3. PICK i \in DOMAIN t :
        /\ NameLeaves(t[i], n)
        /\ \A k \in i .. Len(t) : t[k].kind # "confirm" /\ ~NameJoins(t[k], n)
  BY <1>1 DEF GoneSince
<1>4. m.kind # "confirm" /\ ~NameJoins(m, n)
  <2>1. Len(s) + 1 \in i .. Len(t)
    BY <1>2
  <2> QED  BY <1>2, <1>3, <2>1
<1>5. CASE i = Len(s) + 1
  BY <1>2, <1>3, <1>5
<1>6. CASE i # Len(s) + 1
  <2>1. i \in DOMAIN s /\ t[i] = s[i]
    BY <1>2, <1>6
  <2>2. \A k \in i .. Len(s) : k \in i .. Len(t) /\ t[k] = s[k]
    BY <1>2, <2>1
  <2>3. \A k \in i .. Len(s) : s[k].kind # "confirm" /\ ~NameJoins(s[k], n)
    BY <1>3, <2>2
  <2> QED  BY <1>3, <1>4, <2>1, <2>3 DEF GoneSince
<1> QED  BY <1>5, <1>6

LEMMA HereOneMore ==
  ASSUME NEW s \in Seq(Msg), NEW m \in Msg, NEW n, HereSince(s \o <<m>>, n)
  PROVE  \/ NameJoins(m, n)
         \/ HereSince(s, n) /\ m.kind # "confirm" /\ ~NameLeaves(m, n)
<1>1. PICK t : t = s \o <<m>>
  OBVIOUS
<1>2. /\ Len(s) \in Nat /\ t[Len(s) + 1] = m /\ \A k \in 1 .. Len(s) : t[k] = s[k]
      /\ DOMAIN t = 1 .. Len(s) + 1 /\ DOMAIN s = 1 .. Len(s) /\ Len(t) = Len(s) + 1
  BY <1>1, OneMore
<1>3. PICK i \in DOMAIN t :
        /\ NameJoins(t[i], n)
        /\ \A k \in i .. Len(t) : t[k].kind # "confirm" /\ ~NameLeaves(t[k], n)
  BY <1>1 DEF HereSince
<1>4. m.kind # "confirm" /\ ~NameLeaves(m, n)
  <2>1. Len(s) + 1 \in i .. Len(t)
    BY <1>2
  <2> QED  BY <1>2, <1>3, <2>1
<1>5. CASE i = Len(s) + 1
  BY <1>2, <1>3, <1>5
<1>6. CASE i # Len(s) + 1
  <2>1. i \in DOMAIN s /\ t[i] = s[i]
    BY <1>2, <1>6
  <2>2. \A k \in i .. Len(s) : k \in i .. Len(t) /\ t[k] = s[k]
    BY <1>2, <2>1
  <2>3. \A k \in i .. Len(s) : s[k].kind # "confirm" /\ ~NameLeaves(s[k], n)
    BY <1>3, <2>2
  <2> QED  BY <1>3, <1>4, <2>1, <2>3 DEF HereSince
<1> QED  BY <1>5, <1>6

(* The next message can only contradict what was last read of its name.    *)
LEMMA CoherentOneMore ==
  ASSUME NEW s \in Seq(Msg), NEW m \in Msg, NEW n, Coherent(s, n),
         NameTalks(m, n) => ~GoneSince(s, n),
         NameJoins(m, n) => ~HereSince(s, n)
  PROVE  Coherent(s \o <<m>>, n)
<1>1. PICK t : t = s \o <<m>>
  OBVIOUS
<1>2. /\ Len(s) \in Nat /\ t[Len(s) + 1] = m /\ \A k \in 1 .. Len(s) : t[k] = s[k]
      /\ DOMAIN t = 1 .. Len(s) + 1 /\ DOMAIN s = 1 .. Len(s) /\ Len(t) = Len(s) + 1
  BY <1>1, OneMore
<1> SUFFICES ASSUME NEW i \in DOMAIN t, NEW j \in i + 1 .. Len(t), ~Away(t, i, j)
             PROVE  /\ NameLeaves(t[i], n) /\ NameTalks(t[j], n) =>
                         \E k \in i .. j : NameJoins(t[k], n)
                    /\ NameJoins(t[i], n) /\ NameJoins(t[j], n) =>
                         \E k \in i .. j : NameLeaves(t[k], n)
  BY <1>1, Zenon DEF Coherent
<1>3. i \in DOMAIN s /\ t[i] = s[i]
  BY <1>2
<1>4. \A k \in i .. j : t[k].kind # "confirm"
  BY DEF Away
<1>5. CASE j = Len(s) + 1
  <2>1. \A k \in i .. Len(s) : k \in i .. j /\ t[k] = s[k]
    BY <1>2, <1>3, <1>5
  <2>2. ASSUME NameLeaves(t[i], n), NameTalks(t[j], n)
        PROVE  \E k \in i .. j : NameJoins(t[k], n)
    <3>1. ~GoneSince(s, n) /\ NameLeaves(s[i], n)
      BY <1>2, <1>3, <1>5, <2>2
    <3>2. PICK k \in i .. Len(s) : ~(s[k].kind # "confirm" /\ ~NameJoins(s[k], n))
      BY <1>3, <3>1 DEF GoneSince
    <3> QED  BY <1>4, <2>1, <3>2
  <2>3. ASSUME NameJoins(t[i], n), NameJoins(t[j], n)
        PROVE  \E k \in i .. j : NameLeaves(t[k], n)
    <3>1. ~HereSince(s, n) /\ NameJoins(s[i], n)
      BY <1>2, <1>3, <1>5, <2>3
    <3>2. PICK k \in i .. Len(s) : ~(s[k].kind # "confirm" /\ ~NameLeaves(s[k], n))
      BY <1>3, <3>1 DEF HereSince
    <3> QED  BY <1>4, <2>1, <3>2
  <2> QED  BY <2>2, <2>3
<1>6. CASE j # Len(s) + 1
  <2>1. j \in i + 1 .. Len(s) /\ \A k \in i .. j : t[k] = s[k]
    BY <1>2, <1>3, <1>6
  <2>2. ~Away(s, i, j)
    BY <1>4, <2>1 DEF Away
  <2>3. t[j] = s[j]
    BY <1>2, <1>3, <2>1
  <2>4. /\ NameLeaves(s[i], n) /\ NameTalks(s[j], n) =>
             \E k \in i .. j : NameJoins(s[k], n)
        /\ NameJoins(s[i], n) /\ NameJoins(s[j], n) =>
             \E k \in i .. j : NameLeaves(s[k], n)
    BY <1>3, <2>1, <2>2 DEF Coherent
  <2> QED  BY <1>3, <2>1, <2>3, <2>4
<1> QED  BY <1>5, <1>6


LEMMA SinceInserted ==
  ASSUME NEW s, NEW t, NEW a, Inserted(s, t, a), NEW n
  PROVE  /\ GoneSince(t, n) => GoneSince(s, n)
         /\ HereSince(t, n) => HereSince(s, n)
<1>1. /\ Len(s) \in Nat /\ DOMAIN s = 1 .. Len(s) /\ DOMAIN t = 1 .. Len(s) + 1
      /\ t[a + 1].kind = "goodbye"
      /\ \A k \in DOMAIN s : Up(a, k) \in DOMAIN t /\ t[Up(a, k)] = s[k]
      /\ \A k \in DOMAIN t : k # a + 1 =>
           Down(a, k) \in DOMAIN s /\ s[Down(a, k)] = t[k]
  BY InsertedAt
<1>2. Len(t) = Len(s) + 1 /\ a \in 0 .. Len(s)
  BY DEF Inserted
<1>3. ASSUME NEW i \in DOMAIN t, i # a + 1
      PROVE  /\ Down(a, i) \in DOMAIN s /\ s[Down(a, i)] = t[i]
             /\ \A k \in Down(a, i) .. Len(s) : Up(a, k) \in i .. Len(t) /\ t[Up(a, k)] = s[k]
  <2>1. Down(a, i) \in DOMAIN s /\ s[Down(a, i)] = t[i]
    BY <1>1, <1>3
  <2> SUFFICES ASSUME NEW k \in Down(a, i) .. Len(s)
               PROVE  Up(a, k) \in i .. Len(t) /\ t[Up(a, k)] = s[k]
    BY <2>1
  <2>2. k \in DOMAIN s
    BY <1>1, <2>1
  <2>3. Up(a, k) \in i .. Len(t)
    BY <1>1, <1>2, <1>3, <2>1, <2>2 DEF Up, Down
  <2> QED  BY <1>1, <2>2, <2>3
<1>4. ASSUME GoneSince(t, n)  PROVE GoneSince(s, n)
  <2>1. PICK i \in DOMAIN t :
          /\ NameLeaves(t[i], n)
          /\ \A k \in i .. Len(t) : t[k].kind # "confirm" /\ ~NameJoins(t[k], n)
    BY <1>4 DEF GoneSince
  <2>2. i # a + 1
    BY <1>1, <2>1 DEF NameLeaves
  <2>3. NameLeaves(s[Down(a, i)], n) /\ Down(a, i) \in DOMAIN s
    BY <1>3, <2>1, <2>2
  <2>4. ASSUME NEW k \in Down(a, i) .. Len(s)
        PROVE  s[k].kind # "confirm" /\ ~NameJoins(s[k], n)
    <3>1. Up(a, k) \in i .. Len(t) /\ t[Up(a, k)] = s[k]
      BY <1>3, <2>2
    <3> QED  BY <2>1, <3>1
  <2> QED  BY <2>3, <2>4 DEF GoneSince
<1>5. ASSUME HereSince(t, n)  PROVE HereSince(s, n)
  <2>1. PICK i \in DOMAIN t :
          /\ NameJoins(t[i], n)
          /\ \A k \in i .. Len(t) : t[k].kind # "confirm" /\ ~NameLeaves(t[k], n)
    BY <1>5 DEF HereSince
  <2>2. i # a + 1
    BY <1>1, <2>1 DEF NameJoins
  <2>3. NameJoins(s[Down(a, i)], n) /\ Down(a, i) \in DOMAIN s
    BY <1>3, <2>1, <2>2
  <2>4. ASSUME NEW k \in Down(a, i) .. Len(s)
        PROVE  s[k].kind # "confirm" /\ ~NameLeaves(s[k], n)
    <3>1. Up(a, k) \in i .. Len(t) /\ t[Up(a, k)] = s[k]
      BY <1>3, <2>2
    <3> QED  BY <2>1, <3>1
  <2> QED  BY <2>3, <2>4 DEF HereSince
<1> QED  BY <1>4, <1>5

LEMMA CoherentInserted ==
  ASSUME NEW s, NEW t, NEW a, Inserted(s, t, a), NEW n, Coherent(s, n)
  PROVE  Coherent(t, n)
<1>1. /\ Len(s) \in Nat /\ DOMAIN s = 1 .. Len(s) /\ DOMAIN t = 1 .. Len(s) + 1
      /\ t[a + 1].kind = "goodbye"
      /\ \A k \in DOMAIN s : Up(a, k) \in DOMAIN t /\ t[Up(a, k)] = s[k]
      /\ \A k \in DOMAIN t : k # a + 1 =>
           Down(a, k) \in DOMAIN s /\ s[Down(a, k)] = t[k]
  BY InsertedAt
<1>2. Len(t) = Len(s) + 1 /\ a \in 0 .. Len(s)
  BY DEF Inserted
<1> SUFFICES ASSUME NEW i \in DOMAIN t, NEW j \in i + 1 .. Len(t), ~Away(t, i, j)
             PROVE  /\ NameLeaves(t[i], n) /\ NameTalks(t[j], n) =>
                         \E k \in i .. j : NameJoins(t[k], n)
                    /\ NameJoins(t[i], n) /\ NameJoins(t[j], n) =>
                         \E k \in i .. j : NameLeaves(t[k], n)
  BY Zenon DEF Coherent
<1>3. CASE i = a + 1 \/ j = a + 1
  BY <1>1, <1>3 DEF NameLeaves, NameTalks, NameJoins
<1>4. CASE i # a + 1 /\ j # a + 1
  <2>1. j \in DOMAIN t
    BY <1>1, <1>2
  <2>2. /\ Down(a, i) \in DOMAIN s /\ s[Down(a, i)] = t[i]
        /\ Down(a, j) \in DOMAIN s /\ s[Down(a, j)] = t[j]
    BY <1>1, <1>4, <2>1
  <2>3. Down(a, j) \in Down(a, i) + 1 .. Len(s)
    BY <1>1, <1>2, <1>4, <2>1, <2>2 DEF Down
  <2>4. ASSUME NEW k \in Down(a, i) .. Down(a, j)
        PROVE  Up(a, k) \in i .. j /\ t[Up(a, k)] = s[k]
    <3>1. k \in DOMAIN s
      BY <1>1, <2>2
    <3>2. Up(a, k) \in i .. j
      BY <1>1, <1>2, <1>4, <2>1, <3>1 DEF Up, Down
    <3> QED  BY <1>1, <3>1, <3>2
  <2>5. ~Away(s, Down(a, i), Down(a, j))
    BY <2>4 DEF Away
  <2>6. /\ NameLeaves(t[i], n) /\ NameTalks(t[j], n) =>
             \E k \in Down(a, i) .. Down(a, j) : NameJoins(s[k], n)
        /\ NameJoins(t[i], n) /\ NameJoins(t[j], n) =>
             \E k \in Down(a, i) .. Down(a, j) : NameLeaves(s[k], n)
    BY <2>2, <2>3, <2>5 DEF Coherent
  <2> QED  BY <2>4, <2>6
<1> QED  BY <1>3, <1>4

LEMMA CoherentBegins ==
  ASSUME NEW s, NEW t, Begins(t, s), NEW n, Coherent(s, n)
  PROVE  Coherent(t, n)
<1>1. /\ Len(s) \in Nat /\ Len(t) \in Nat /\ Len(t) <= Len(s)
      /\ DOMAIN s = 1 .. Len(s) /\ DOMAIN t = 1 .. Len(t)
      /\ \A k \in 1 .. Len(t) : t[k] = s[k]
  BY LenProperties DEF Begins
<1> SUFFICES ASSUME NEW i \in DOMAIN t, NEW j \in i + 1 .. Len(t), ~Away(t, i, j)
             PROVE  /\ NameLeaves(t[i], n) /\ NameTalks(t[j], n) =>
                         \E k \in i .. j : NameJoins(t[k], n)
                    /\ NameJoins(t[i], n) /\ NameJoins(t[j], n) =>
                         \E k \in i .. j : NameLeaves(t[k], n)
  BY Zenon DEF Coherent
<1>2. /\ i \in DOMAIN s /\ j \in i + 1 .. Len(s) /\ t[i] = s[i] /\ t[j] = s[j]
      /\ \A k \in i .. j : t[k] = s[k]
  BY <1>1
<1>3. ~Away(s, i, j)
  BY <1>2 DEF Away
<1>4. /\ NameLeaves(s[i], n) /\ NameTalks(s[j], n) =>
           \E k \in i .. j : NameJoins(s[k], n)
      /\ NameJoins(s[i], n) /\ NameJoins(s[j], n) =>
           \E k \in i .. j : NameLeaves(s[k], n)
  BY <1>2, <1>3 DEF Coherent
<1> QED  BY <1>2, <1>4

-----------------------------------------------------------------------------
(* Sound is what a stream never stops being; abreast is how the stream of  *)
(* p stands to the users in the chat and to the map of names.              *)
Sound(s) == s \in Seq(Msg) /\ QuietIn(s) /\ \A n \in Names : Coherent(s, n)

Abreast(s, p, chat, who) ==
  /\ p \in chat => Inside(s, Len(s))
  /\ \A n \in Names :
       /\ GoneSince(s, n) => p \in chat /\ who[n] = NoPeer
       /\ HereSince(s, n) => p \in chat /\ who[n] # NoPeer

(* The message m is the right one for p to read when the users in the chat *)
(* and the map of names become chat2 and who2.                             *)
Fits(m, p, chat, who, chat2, who2) ==
  /\ Notice(m) => p \in chat
  /\ p \in chat2 <=> m.kind = "welcome" \/ (p \in chat /\ m.kind # "confirm")
  /\ \A n \in Names :
       /\ NameTalks(m, n) => who[n] # NoPeer
       /\ NameJoins(m, n) => who[n] = NoPeer /\ who2[n] # NoPeer
       /\ NameLeaves(m, n) => who2[n] = NoPeer
       /\ p \in chat /\ ~NameJoins(m, n) /\ ~NameLeaves(m, n) => who2[n] = who[n]

LEMMA FittingMessage ==
  ASSUME NEW s, NEW m \in Msg, NEW p, NEW chat, NEW who, NEW chat2, NEW who2,
         Sound(s), Abreast(s, p, chat, who), Fits(m, p, chat, who, chat2, who2)
  PROVE  Sound(s \o <<m>>) /\ Abreast(s \o <<m>>, p, chat2, who2)
<1>1. s \in Seq(Msg) /\ s \o <<m>> \in Seq(Msg) /\ Len(s \o <<m>>) = Len(s) + 1
  BY OneMore DEF Sound
<1>2. QuietIn(s \o <<m>>)
  <2>1. Notice(m) => m.kind # "confirm" /\ Inside(s, Len(s))
    BY DEF Notice, NoticeKinds, Fits, Abreast
  <2> QED  BY <1>1, <2>1, QuietOneMore DEF Sound
<1>3. ASSUME NEW n \in Names  PROVE Coherent(s \o <<m>>, n)
  <2>1. NameTalks(m, n) => ~GoneSince(s, n)
    BY DEF Fits, Abreast
  <2>2. NameJoins(m, n) => ~HereSince(s, n)
    BY DEF Fits, Abreast
  <2> QED  BY <1>1, <2>1, <2>2, CoherentOneMore DEF Sound
<1>4. p \in chat2 => Inside(s \o <<m>>, Len(s) + 1)
  <2>1. p \in chat2 => m.kind = "welcome" \/ (p \in chat /\ m.kind # "confirm")
    BY DEF Fits
  <2>2. p \in chat => Inside(s, Len(s))
    BY DEF Abreast
  <2> QED  BY <1>1, <2>1, <2>2, InsideOneMore
<1>5. ASSUME NEW n \in Names, GoneSince(s \o <<m>>, n)
      PROVE  p \in chat2 /\ who2[n] = NoPeer
  <2>1. \/ NameLeaves(m, n)
        \/ GoneSince(s, n) /\ m.kind # "confirm" /\ ~NameJoins(m, n)
    BY <1>1, <1>5, GoneOneMore
  <2>2. CASE NameLeaves(m, n)
    BY <2>2 DEF Fits, NameLeaves, Notice, NoticeKinds
  <2>3. CASE GoneSince(s, n) /\ m.kind # "confirm" /\ ~NameJoins(m, n) /\ ~NameLeaves(m, n)
    BY <2>3 DEF Fits, Abreast
  <2> QED  BY <2>1, <2>2, <2>3
<1>6. ASSUME NEW n \in Names, HereSince(s \o <<m>>, n)
      PROVE  p \in chat2 /\ who2[n] # NoPeer
  <2>1. \/ NameJoins(m, n)
        \/ HereSince(s, n) /\ m.kind # "confirm" /\ ~NameLeaves(m, n)
    BY <1>1, <1>6, HereOneMore
  <2>2. CASE NameJoins(m, n)
    BY <2>2 DEF Fits, NameJoins, Notice, NoticeKinds
  <2>3. CASE HereSince(s, n) /\ m.kind # "confirm" /\ ~NameLeaves(m, n) /\ ~NameJoins(m, n)
    BY <2>3 DEF Fits, Abreast
  <2> QED  BY <2>1, <2>2, <2>3
<1>7. Sound(s \o <<m>>)
  BY <1>1, <1>2, <1>3 DEF Sound
<1>8. Abreast(s \o <<m>>, p, chat2, who2)
  BY <1>1, <1>4, <1>5, <1>6 DEF Abreast
<1> QED  BY <1>7, <1>8


LEMMA FirstMessage ==
  ASSUME NEW m \in Msg, ~Notice(m), m.kind # "welcome", NEW p, NEW chat, p \notin chat, NEW who
  PROVE  Sound(<<m>>) /\ Abreast(<<m>>, p, chat, who)
<1>1. <<>> \in Seq(Msg) /\ DOMAIN <<>> = {} /\ Len(<<>>) = 0
  BY EmptySeq
<1>2. PICK s : s = <<>>
  OBVIOUS
<1>3. Sound(s)
  BY <1>1, <1>2 DEF Sound, QuietIn, Coherent
<1>4. Abreast(s, p, chat, who)
  BY <1>1, <1>2 DEF Abreast, GoneSince, HereSince
<1>5. Fits(m, p, chat, who, chat, who)
  BY DEF Fits, Notice, NoticeKinds, NameTalks, NameJoins, NameLeaves
<1>6. Sound(s \o <<m>>) /\ Abreast(s \o <<m>>, p, chat, who)
  BY <1>3, <1>4, <1>5, FittingMessage
<1>7. s \o <<m>> = <<m>>
  BY <1>2, ConcatEmptySeq
<1> QED  BY <1>6, <1>7

-----------------------------------------------------------------------------
(* Every stream stays sound, and every user abreast.                       *)
Followed ==
  /\ \A p \in Peers : Sound(Stream(p))
  /\ \A u \in Users : Abreast(Stream(u), u, InChat, from_username)

Follows(p) ==
  /\ Sound(Stream(p)')
  /\ p \in Users' => Abreast(Stream(p)', p, InChat', from_username')

LEMMA FollowedIs ==
  Inv => (Followed <=> QuietOutsideChat /\ PresenceCoherent /\ Welcomed /\ UpToDate)
<1> SUFFICES ASSUME Inv
             PROVE  Followed <=> /\ QuietOutsideChat /\ PresenceCoherent
                                 /\ Welcomed /\ UpToDate
  OBVIOUS
<1>1. (\A p \in Peers : Sound(Stream(p))) <=> QuietOutsideChat /\ PresenceCoherent
  BY StreamType, Zenon DEF Sound, QuietIn, QuietOutsideChat, PresenceCoherent
<1>2. \A u \in InChat : u \in Users
  BY DEF InChat
<1>3. (\A u \in Users : Abreast(Stream(u), u, InChat, from_username))
        <=> Welcomed /\ UpToDate
  BY <1>2, Zenon DEF Abreast, Welcomed, UpToDate
<1> QED  BY <1>1, <1>3 DEF Followed

LEMMA UntouchedFollows ==
  ASSUME Followed, NEW p \in Peers, Stream(p)' = Stream(p),
         p \in Users' => p \in Users,
         p \in InChat' <=> p \in InChat,
         p \in InChat => \A n \in Names : from_username'[n] = from_username[n]
  PROVE  Follows(p)
<1>1. Sound(Stream(p)')
  BY DEF Followed
<1>2. ASSUME p \in Users'
      PROVE  Abreast(Stream(p)', p, InChat', from_username')
  <2>1. Abreast(Stream(p), p, InChat, from_username)
    BY <1>2 DEF Followed
  <2>2. PICK s : s = Stream(p) /\ s = Stream(p)'
    OBVIOUS
  <2>3. Abreast(s, p, InChat', from_username')
    BY <2>1, <2>2 DEF Abreast
  <2> QED  BY <2>2, <2>3
<1> QED  BY <1>1, <1>2 DEF Follows

LEMMA AddressedFollows ==
  ASSUME Inv, Followed, NEW p \in Users, NEW m \in Msg, Stream(p)' = Stream(p) \o <<m>>,
         Fits(m, p, InChat, from_username, InChat', from_username')
  PROVE  Follows(p)
<1>1. p \in Peers
  BY UserFacts
<1>2. PICK s : s = Stream(p)
  OBVIOUS
<1>3. Sound(s) /\ Abreast(s, p, InChat, from_username)
  BY <1>1, <1>2 DEF Followed
<1>4. /\ Sound(s \o <<m>>)
      /\ Abreast(s \o <<m>>, p, InChat', from_username')
  BY <1>3, FittingMessage
<1> QED  BY <1>2, <1>4 DEF Follows

LEMMA SilentFollows ==
  ASSUME Followed, SamePeople, NEW p \in Peers, Stream(p)' = Stream(p)
  PROVE  Follows(p)
BY UntouchedFollows DEF SamePeople

LEMMA CutFollows ==
  ASSUME Inv, Followed, Cut, NEW p \in Peers
  PROVE  Follows(p)
<1>1. CASE Stream(p)' = Stream(p)
  BY <1>1, SilentFollows DEF Cut
<1>2. CASE p \notin Users /\ Stream(p)' = sent[p]
  <2>1. Begins(sent[p], Stream(p))
    BY SentBegins
  <2>2. PICK s, t : s = Stream(p) /\ t = sent[p]
    OBVIOUS
  <2>3. Sound(s) /\ Begins(t, s)
    BY <2>1, <2>2 DEF Followed
  <2>4. t \in Seq(Msg)
    BY <2>3 DEF Begins
  <2>5. Sound(t)
    BY <2>3, <2>4, QuietBegins, CoherentBegins DEF Sound
  <2>6. p \notin Users'
    BY <1>2 DEF Cut, SamePeople
  <2> QED  BY <1>2, <2>2, <2>5, <2>6 DEF Follows
<1> QED  BY <1>1, <1>2 DEF Cut

LEMMA GreetingFits ==
  \A kind \in {"greeting", "refused"} :
    /\ Plain(kind) \in Msg /\ ~Notice(Plain(kind)) /\ Plain(kind).kind # "welcome"
BY DEF Plain, M, Msg, ReplyKinds, Notice, NoticeKinds

LEMMA RefusedFollows ==
  ASSUME Followed, Refused, NEW p \in Peers
  PROVE  Follows(p)
<1>1. CASE Stream(p)' = Stream(p)
  BY <1>1, SilentFollows DEF Refused
<1>2. CASE p \notin Users /\ Stream(p)' = <<Plain("refused")>>
  <2>1. Sound(<<Plain("refused")>>)
    <3>1. p \notin {}
      OBVIOUS
    <3> QED  BY <3>1, GreetingFits, FirstMessage
  <2>2. p \notin Users'
    BY <1>2 DEF Refused, SamePeople
  <2> QED  BY <1>2, <2>1, <2>2 DEF Follows
<1> QED  BY <1>1, <1>2 DEF Refused

LEMMA GreetedFollows ==
  ASSUME Followed, NEW u \in Peers, Greeted(u), NEW p \in Peers
  PROVE  Follows(p)
<1>1. CASE p = u
  <2>1. p \notin InChat'
    BY <1>1 DEF Greeted, InChat
  <2>2. /\ Sound(<<Plain("greeting")>>)
        /\ Abreast(<<Plain("greeting")>>, p, InChat', from_username')
    BY <2>1, GreetingFits, FirstMessage
  <2> QED  BY <1>1, <2>2 DEF Follows, Greeted
<1>2. CASE p # u
  <2>1. Stream(p)' = Stream(p) /\ (p \in Users' => p \in Users) /\ InChat' = InChat
    BY <1>2 DEF Greeted
  <2>2. from_username' = from_username
    BY DEF Greeted
  <2> QED  BY <2>1, <2>2, UntouchedFollows
<1> QED  BY <1>1, <1>2


LEMMA ToOneFollows ==
  ASSUME Inv, Followed, NEW u \in Users, NEW m \in Msg, Spoken({u}, m),
         Users' = Users, UNCHANGED from_username,
         \A v \in Users : v # u => (v \in InChat' <=> v \in InChat),
         Fits(m, u, InChat, from_username, InChat', from_username'),
         NEW p \in Peers
  PROVE  Follows(p)
<1>1. CASE p = u
  <2>1. Stream(u)' = Stream(u) \o <<m>>
    BY <1>1, SpokenAt
  <2> QED  BY <1>1, <2>1, AddressedFollows
<1>2. CASE p # u
  <2>1. Stream(p)' = Stream(p)
    <3>1. p \notin {u}
      BY <1>2
    <3> QED  BY <3>1, SpokenAt
  <2>2. p \in InChat' <=> p \in InChat
    <3>1. InChat \subseteq Users /\ InChat' \subseteq Users'
      BY DEF InChat
    <3> QED  BY <1>2, <3>1
  <2> QED  BY <2>1, <2>2, UntouchedFollows
<1> QED  BY <1>1, <1>2

LEMMA RepliedFollows ==
  ASSUME Inv, Followed, NEW u, NEW m, Replied(u, m), NEW p \in Peers
  PROVE  Follows(p)
<1>1. u \in Users /\ m \in Msg /\ m.kind \in PlainKinds /\ Spoken({u}, m)
  BY DEF Replied
<1>2. Users' = Users /\ InChat' = InChat /\ from_username' = from_username
  BY DEF Replied, SamePeople
<1>3. Fits(m, u, InChat, from_username, InChat', from_username')
  BY <1>1, <1>2
     DEF Fits, PlainKinds, Notice, NoticeKinds, NameTalks, NameJoins, NameLeaves
<1> QED  BY <1>1, <1>2, <1>3, ToOneFollows

LEMMA AskedFollows ==
  ASSUME Inv, Followed, NEW u, Asked(u), NEW p \in Peers
  PROVE  Follows(p)
<1>1. /\ u \in Users /\ Users' = Users /\ InChat' = InChat \ {u}
      /\ from_username' = from_username /\ Spoken({u}, Plain("confirm"))
  BY DEF Asked, InChat
<1>2. Plain("confirm") \in Msg /\ Plain("confirm").kind = "confirm"
  BY DEF Plain, M, Msg, ReplyKinds
<1>3. Fits(Plain("confirm"), u, InChat, from_username, InChat', from_username')
  BY <1>1, <1>2 DEF Fits, Notice, NoticeKinds, NameTalks, NameJoins, NameLeaves
<1> QED  BY <1>1, <1>2, <1>3, ToOneFollows

LEMMA ReturnedFollows ==
  ASSUME Inv, Followed, NEW u, NEW n, Returned(u, n), NEW p \in Peers
  PROVE  Follows(p)
<1>1. /\ u \in Users \ InChat /\ Users' = Users /\ InChat' = InChat \cup {u}
      /\ from_username' = from_username /\ n \in Names
      /\ Spoken({u}, M("welcome", n, NoName))
  BY DEF Returned
<1>2. M("welcome", n, NoName) \in Msg /\ M("welcome", n, NoName).kind = "welcome"
  BY <1>1 DEF M, Msg, ReplyKinds
<1>3. Fits(M("welcome", n, NoName), u, InChat, from_username, InChat', from_username')
  BY <1>1, <1>2 DEF Fits, Notice, NoticeKinds, NameTalks, NameJoins, NameLeaves
<1> QED  BY <1>1, <1>2, <1>3, ToOneFollows

LEMMA PartedFollows ==
  ASSUME Inv, Followed, NEW u, Parted(u), NEW p \in Peers
  PROVE  Follows(p)
<1>1. CASE Stream(p)' = Stream(p)
  BY <1>1, SilentFollows DEF Parted
<1>2. CASE p = u /\ Stream(p)' = Append(sent[p], Plain("goodbye")) \o Queued(p)
  <2>1. sent[p] \in Seq(Msg) /\ Queued(p) \in Seq(Msg)
    BY StreamType
  <2>2. Inserted(Stream(p), Stream(p)', Len(sent[p]))
    BY <1>2, <2>1, GoodbyeInserted DEF Stream
  <2>3. PICK s, t, a : s = Stream(p) /\ t = Stream(p)' /\ a = Len(sent[p])
    OBVIOUS
  <2>4. Inserted(s, t, a) /\ Sound(s) /\ t \in Seq(Msg)
    BY <2>2, <2>3 DEF Followed, Inserted
  <2>5. Sound(t)
    BY <2>4, QuietInserted, CoherentInserted DEF Sound
  <2>6. p \in Users /\ p \notin InChat /\ p \notin InChat'
    BY <1>2 DEF Parted, SamePeople
  <2>7. Abreast(s, p, InChat, from_username)
    BY <2>3, <2>6 DEF Followed
  <2>8. Abreast(t, p, InChat', from_username')
    BY <2>4, <2>6, <2>7, SinceInserted DEF Abreast
  <2> QED  BY <2>3, <2>5, <2>8 DEF Follows
<1> QED  BY <1>1, <1>2 DEF Parted

LEMMA EnteredFollows ==
  ASSUME Inv, Followed, NEW u, NEW n, Entered(u, n), NEW p \in Peers
  PROVE  Follows(p)
<1> DEFINE joined == M("joined", n, NoName)
           welcome == M("welcome", n, NoName)
<1>1. /\ u \in Users /\ u \notin InChat /\ n \in Names /\ from_username[n] = NoPeer
      /\ Users' = Users /\ InChat' = InChat \cup {u}
      /\ from_username' = [from_username EXCEPT ![n] = u]
      /\ Announced(InChat, joined, u, welcome)
  BY DEF Entered
<1>2. /\ joined \in Msg /\ joined.kind = "joined" /\ joined.name = n
      /\ welcome \in Msg /\ welcome.kind = "welcome"
  BY <1>1 DEF M, Msg, ReplyKinds, NoticeKinds
<1> HIDE DEF joined, welcome
<1>3. u \in Peers /\ u # NoPeer /\ InChat \subseteq Users
  BY <1>1, UserFacts, SocketsAssumption DEF InChat
<1>4. \A x \in Names : from_username'[x] = IF x = n THEN u ELSE from_username[x]
  BY <1>1 DEF Inv, TypeOK, AppTypeOK
<1>0. Stream(p)' = (Stream(p) \o For(p, InChat, joined)) \o For(p, {u}, welcome)
  BY <1>1 DEF Announced
<1>5. /\ p \in InChat /\ p # u => Stream(p)' = Stream(p) \o <<joined>>
      /\ p \notin InChat /\ p = u => Stream(p)' = Stream(p) \o <<welcome>>
      /\ p \notin InChat /\ p # u => Stream(p)' = Stream(p)
  <2>1. PICK s, x, t : s = Stream(p) /\ t = Stream(p)' /\ x = s \o For(p, InChat, joined)
    OBVIOUS
  <2>2. s \in Seq(Msg) /\ joined \in Msg /\ welcome \in Msg
    BY <1>2, <2>1, StreamType
  <2>3. t = x \o For(p, {u}, welcome)
    BY <1>0, <2>1
  <2>4. /\ x \in Seq(Msg)
        /\ p \in InChat => x = s \o <<joined>>
        /\ p \notin InChat => x = s
    BY <2>1, <2>2, OneMore, ConcatEmptySeq DEF For
  <2>5. /\ p = u => t = x \o <<welcome>>
        /\ p # u => t = x
    BY <2>2, <2>3, <2>4, ConcatEmptySeq DEF For
  <2> QED  BY <2>1, <2>4, <2>5
<1>6. CASE p \in InChat
  <2>1. Stream(p)' = Stream(p) \o <<joined>> /\ p \in Users
    BY <1>1, <1>3, <1>5, <1>6
  <2>2. Fits(joined, p, InChat, from_username, InChat', from_username')
    BY <1>1, <1>2, <1>3, <1>4, <1>6
       DEF Fits, Notice, NoticeKinds, NameTalks, NameJoins, NameLeaves
  <2> QED  BY <1>2, <2>1, <2>2, AddressedFollows
<1>7. CASE p = u
  <2>1. Stream(p)' = Stream(p) \o <<welcome>> /\ p \in Users
    BY <1>1, <1>5, <1>7
  <2>2. Fits(welcome, p, InChat, from_username, InChat', from_username')
    BY <1>1, <1>2, <1>7
       DEF Fits, Notice, NoticeKinds, NameTalks, NameJoins, NameLeaves
  <2> QED  BY <1>2, <2>1, <2>2, AddressedFollows
<1>8. CASE p \notin InChat /\ p # u
  <2>1. Stream(p)' = Stream(p)
    BY <1>5, <1>8
  <2> QED  BY <1>1, <1>8, <2>1, UntouchedFollows
<1> QED  BY <1>6, <1>7, <1>8

LEMMA SaidFollows ==
  ASSUME Inv, Followed, NEW u, NEW w, Said(u, w), NEW p \in Peers
  PROVE  Follows(p)
<1> DEFINE said == M("said", user[u].username, w)
           you == M("you", NoName, w)
<1>1. /\ u \in InChat /\ user[u].username \in Names /\ w \in Words
      /\ from_username[user[u].username] = u
      /\ Users' = Users /\ InChat' = InChat /\ from_username' = from_username
      /\ Announced(InChat \ {u}, said, u, you)
  BY DEF Said, SamePeople
<1>2. /\ said \in Msg /\ said.kind = "said" /\ said.name = user[u].username
      /\ you \in Msg /\ you.kind = "you"
  BY <1>1 DEF M, Msg, ReplyKinds, NoticeKinds
<1> HIDE DEF said, you
<1>3. InChat \subseteq Users /\ u # NoPeer
  BY <1>1, UserFacts, SocketsAssumption DEF InChat
<1>0. Stream(p)' = (Stream(p) \o For(p, InChat \ {u}, said)) \o For(p, {u}, you)
  BY <1>1 DEF Announced
<1>5. /\ p \in (InChat \ {u}) /\ p # u => Stream(p)' = Stream(p) \o <<said>>
      /\ p \notin (InChat \ {u}) /\ p = u => Stream(p)' = Stream(p) \o <<you>>
      /\ p \notin (InChat \ {u}) /\ p # u => Stream(p)' = Stream(p)
  <2>1. PICK s, x, t : s = Stream(p) /\ t = Stream(p)' /\ x = s \o For(p, (InChat \ {u}), said)
    OBVIOUS
  <2>2. s \in Seq(Msg) /\ said \in Msg /\ you \in Msg
    BY <1>2, <2>1, StreamType
  <2>3. t = x \o For(p, {u}, you)
    BY <1>0, <2>1
  <2>4. /\ x \in Seq(Msg)
        /\ p \in (InChat \ {u}) => x = s \o <<said>>
        /\ p \notin (InChat \ {u}) => x = s
    BY <2>1, <2>2, OneMore, ConcatEmptySeq DEF For
  <2>5. /\ p = u => t = x \o <<you>>
        /\ p # u => t = x
    BY <2>2, <2>3, <2>4, ConcatEmptySeq DEF For
  <2> QED  BY <2>1, <2>4, <2>5
<1>6. CASE p \in InChat \ {u}
  <2>1. Stream(p)' = Stream(p) \o <<said>> /\ p \in Users
    BY <1>3, <1>5, <1>6
  <2>2. Fits(said, p, InChat, from_username, InChat', from_username')
    BY <1>1, <1>2, <1>3, <1>6
       DEF Fits, Notice, NoticeKinds, NameTalks, NameJoins, NameLeaves
  <2> QED  BY <1>2, <2>1, <2>2, AddressedFollows
<1>7. CASE p = u
  <2>1. Stream(p)' = Stream(p) \o <<you>> /\ p \in Users
    BY <1>1, <1>3, <1>5, <1>7
  <2>2. Fits(you, p, InChat, from_username, InChat', from_username')
    BY <1>1, <1>2, <1>7
       DEF Fits, Notice, NoticeKinds, NameTalks, NameJoins, NameLeaves
  <2> QED  BY <1>2, <2>1, <2>2, AddressedFollows
<1>8. CASE p \notin InChat /\ p # u
  <2>1. Stream(p)' = Stream(p)
    BY <1>5, <1>8
  <2> QED  BY <1>1, <1>8, <2>1, UntouchedFollows
<1> QED  BY <1>6, <1>7, <1>8


LEMMA WhisperedFollows ==
  ASSUME Inv, Followed, NEW u, NEW q, Whispered(u, q), NEW p \in Peers
  PROVE  Follows(p)
<1> DEFINE whispered == M("whispered", user[u].username, NoName)
           ack == M("ack", user[q].username, NoName)
<1>1. /\ u \in InChat /\ q \in InChat
      /\ user[u].username \in Names /\ user[q].username \in Names
      /\ from_username[user[u].username] = u
      /\ Users' = Users /\ InChat' = InChat /\ from_username' = from_username
      /\ Announced({q}, whispered, u, ack)
  BY DEF Whispered, SamePeople
<1>2. /\ whispered \in Msg /\ whispered.kind = "whispered"
      /\ whispered.name = user[u].username
      /\ ack \in Msg /\ ack.kind = "ack"
  BY <1>1 DEF M, Msg, ReplyKinds, NoticeKinds
<1> HIDE DEF whispered, ack
<1>3. InChat \subseteq Users /\ u # NoPeer
  BY <1>1, UserFacts, SocketsAssumption DEF InChat
<1>4. Stream(p)' = (Stream(p) \o For(p, {q}, whispered)) \o For(p, {u}, ack)
  BY <1>1 DEF Announced
<1>5. PICK s, x, t : s = Stream(p) /\ t = Stream(p)' /\ x = s \o For(p, {q}, whispered)
  OBVIOUS
<1>6. s \in Seq(Msg) /\ whispered \in Msg /\ ack \in Msg
  BY <1>2, <1>5, StreamType
<1>7. t = x \o For(p, {u}, ack)
  BY <1>4, <1>5
<1>8. /\ x \in Seq(Msg)
      /\ p \in {q} => x = s \o <<whispered>>
      /\ p \notin {q} => x = s
  BY <1>5, <1>6, OneMore, ConcatEmptySeq DEF For
<1>9. /\ p = u => t = x \o <<ack>>
      /\ p # u => t = x
  BY <1>6, <1>7, <1>8, ConcatEmptySeq DEF For
<1>10. CASE p \notin {u, q}
  <2>1. Stream(p)' = Stream(p)
    BY <1>5, <1>8, <1>9, <1>10
  <2> QED  BY <1>1, <2>1, UntouchedFollows
<1>11. CASE p \in {u, q}
  <2>1. p \in InChat /\ p \in Users
    BY <1>1, <1>3, <1>11
  <2>2. Sound(s) /\ Abreast(s, p, InChat, from_username)
    BY <1>5, <2>1 DEF Followed
  <2>3. /\ Fits(whispered, p, InChat, from_username, InChat, from_username)
        /\ Fits(ack, p, InChat, from_username, InChat, from_username)
    BY <1>1, <1>2, <1>3, <2>1
       DEF Fits, Notice, NoticeKinds, NameTalks, NameJoins, NameLeaves
  <2>4. Sound(x) /\ Abreast(x, p, InChat, from_username)
    BY <1>6, <1>8, <2>2, <2>3, FittingMessage
  <2>5. Sound(t) /\ Abreast(t, p, InChat, from_username)
    BY <1>6, <1>9, <2>3, <2>4, FittingMessage
  <2> QED  BY <1>1, <1>5, <2>5 DEF Follows
<1> QED  BY <1>10, <1>11

LEMMA DepartedFollows ==
  ASSUME Inv, Followed, NEW u, NEW n, Departed(u, n), NEW p \in Peers
  PROVE  Follows(p)
<1> DEFINE left == M("left", n, NoName)
<1>1. /\ u \in Users /\ Users' = Users \ {u} /\ InChat' = InChat \ {u}
      /\ n \in Names \cup {NoName}
      /\ from_username' = [x \in Names |-> IF x = n THEN NoPeer ELSE from_username[x]]
      /\ Spoken(InChat \ {u}, left)
  BY DEF Departed
<1>2. left \in Msg /\ left.kind = "left" /\ left.name = n
  BY <1>1 DEF M, Msg, NoticeKinds
<1> HIDE DEF left
<1>3. \A x \in Names : from_username'[x] = IF x = n THEN NoPeer ELSE from_username[x]
  BY <1>1
<1>4. CASE p \in InChat \ {u}
  <2>1. Stream(p)' = Stream(p) \o <<left>>
    BY <1>1, <1>2, <1>4, SpokenAt
  <2>2. Fits(left, p, InChat, from_username, InChat', from_username')
    BY <1>1, <1>2, <1>3, <1>4
       DEF Fits, Notice, NoticeKinds, NameTalks, NameJoins, NameLeaves
  <2>3. p \in Users
    BY <1>4 DEF InChat
  <2> QED  BY <1>2, <2>1, <2>2, <2>3, AddressedFollows
<1>5. CASE p \notin InChat \ {u}
  <2>1. Stream(p)' = Stream(p)
    BY <1>1, <1>2, <1>5, SpokenAt
  <2>2. CASE p = u
    <3>1. p \notin Users'
      BY <1>1, <2>2
    <3>2. Sound(Stream(p)')
      BY <2>1 DEF Followed
    <3> QED  BY <3>1, <3>2 DEF Follows
  <2>3. CASE p # u
    <3>1. /\ p \notin InChat /\ p \notin InChat'
          /\ p \in Users' => p \in Users
      BY <1>1, <1>5, <2>3
    <3> QED  BY <2>1, <3>1, UntouchedFollows
  <2> QED  BY <2>2, <2>3
<1> QED  BY <1>4, <1>5

LEMMA StepFollows ==
  ASSUME RoomInv, RoomInv', Next, Followed
  PROVE  Followed'
<1>1. Inv
  BY DEF RoomInv
<1>2. ASSUME NEW p \in Peers
      PROVE  Follows(p)
  <2>1. CASE Silent
    BY <2>1, SilentFollows DEF Silent, Calm
  <2>2. CASE Cut
    BY <1>1, <2>2, CutFollows
  <2>3. CASE Refused
    BY <2>3, RefusedFollows
  <2>4. CASE \E u : Served(u) \/ Parted(u)
    BY <1>1, <2>4, AskedFollows, PartedFollows, RepliedFollows, EnteredFollows,
       WhisperedFollows, ReturnedFollows DEF Served
  <2>5. CASE \E u \in Peers : Greeted(u)
    BY <2>5, GreetedFollows
  <2>6. CASE \E u, n : Departed(u, n)
    BY <1>1, <2>6, DepartedFollows
  <2>7. ASSUME NEW h \in Handles, Say(h)  PROVE Follows(p)
    <3>1. Inv'
      BY DEF RoomInv
    <3> QED  BY <1>1, <2>7, <3>1, SaySays, SaidFollows
  <2> QED  BY <2>1, <2>2, <2>3, <2>4, <2>5, <2>6, <2>7, StreamSteps
<1>3. \A u \in Users' : u \in Peers
  BY NextUsers DEF RoomInv
<1>4. \A p \in Peers : Sound(Stream(p)')
  BY <1>2 DEF Follows
<1>5. \A u \in Users' : Abreast(Stream(u)', u, InChat', from_username')
  BY <1>2, <1>3 DEF Follows
<1> QED  BY <1>4, <1>5 DEF Followed


-----------------------------------------------------------------------------
(* Nothing that was queued for a user is lost, as long as its client stays. *)
LEMMA SamePrefix ==
  ASSUME NEW s \in Seq(Msg), NEW t, t = s
  PROVE  IsPrefix(s, t)
BY LenProperties DEF IsPrefix

LEMMA LongerPrefix ==
  ASSUME NEW s \in Seq(Msg), NEW m \in Msg, NEW t \in Seq(Msg), IsPrefix(t, s)
  PROVE  IsPrefix(t, s \o <<m>>) /\ s \o <<m>> \in Seq(Msg)
<1>1. PICK x : x = s \o <<m>>
  OBVIOUS
<1>2. x \in Seq(Msg) /\ Len(x) = Len(s) + 1 /\ \A k \in 1 .. Len(s) : x[k] = s[k]
  BY <1>1, OneMore
<1>3. Len(s) \in Nat /\ Len(t) \in Nat
  BY LenProperties
<1>4. Len(t) <= Len(s) /\ SubSeq(t, 1, Len(t)) = SubSeq(s, 1, Len(t))
  BY DEF IsPrefix
<1>5. SubSeq(x, 1, Len(t)) = SubSeq(s, 1, Len(t))
  <2>1. \A k \in 1 .. Len(t) : x[k] = s[k]
    BY <1>2, <1>3, <1>4
  <2> QED  BY <1>2, <1>3, <1>4, <2>1
<1>6. IsPrefix(t, x)
  BY <1>2, <1>3, <1>4, <1>5 DEF IsPrefix
<1> QED  BY <1>1, <1>2, <1>6

(* One batch, or two, at the end.                                          *)
LEMMA SpokenPrefix ==
  ASSUME NEW s \in Seq(Msg), NEW p, NEW people, NEW m \in Msg, NEW t \in Seq(Msg),
         IsPrefix(t, s)
  PROVE  IsPrefix(t, s \o For(p, people, m)) /\ s \o For(p, people, m) \in Seq(Msg)
<1>1. CASE p \in people
  BY <1>1, LongerPrefix DEF For
<1>2. CASE p \notin people
  BY <1>2, ConcatEmptySeq DEF For
<1> QED  BY <1>1, <1>2


LEMMA SpokenKeeps ==
  ASSUME Inv, NEW people, NEW m \in Msg, Spoken(people, m), NEW p \in Peers
  PROVE  IsPrefix(Stream(p), Stream(p)')
<1>1. Stream(p)' = Stream(p) \o For(p, people, m)
  BY DEF Spoken
<1>2. PICK s : s = Stream(p)
  OBVIOUS
<1>3. s \in Seq(Msg) /\ IsPrefix(s, s)
  BY <1>2, StreamType, SamePrefix
<1>4. IsPrefix(s, s \o For(p, people, m))
  BY <1>3, SpokenPrefix
<1> QED  BY <1>1, <1>2, <1>4

LEMMA AnnouncedKeeps ==
  ASSUME Inv, NEW others, NEW notice \in Msg, NEW u, NEW m \in Msg, NEW p \in Peers,
         Stream(p)' = (Stream(p) \o For(p, others, notice)) \o For(p, {u}, m)
  PROVE  IsPrefix(Stream(p), Stream(p)')
<1>1. PICK s : s = Stream(p)
  OBVIOUS
<1>2. s \in Seq(Msg) /\ IsPrefix(s, s)
  BY <1>1, StreamType, SamePrefix
<1>3. PICK x : x = s \o For(p, others, notice)
  OBVIOUS
<1>4. x \in Seq(Msg) /\ IsPrefix(s, x)
  BY <1>2, <1>3, SpokenPrefix
<1>5. IsPrefix(s, x \o For(p, {u}, m))
  BY <1>2, <1>4, SpokenPrefix
<1> QED  BY <1>1, <1>3, <1>5

LEMMA StepExtends ==
  ASSUME RoomInv, RoomInv', Next, NEW p \in Users,
         \A h \in Clients : csock[h] = p => cstate'[h] # "removed"
  PROVE  IsPrefix(Stream(p), Stream(p)')
<1> USE DEF RoomInv
<1>1. /\ p \in Peers /\ user[p].handle \in Clients /\ csock[user[p].handle] = p
      /\ Stream(p) \in Seq(Msg)
  BY UserFacts, StreamType
<1>2. ASSUME Stream(p)' = Stream(p)  PROVE IsPrefix(Stream(p), Stream(p)')
  BY <1>1, <1>2, SamePrefix
<1>3. CASE Silent \/ Cut \/ Refused \/ \E u \in Peers : Greeted(u)
  BY <1>1, <1>2, <1>3 DEF Silent, Calm, Cut, Refused, Greeted
<1>4. ASSUME NEW u, Asked(u)  PROVE IsPrefix(Stream(p), Stream(p)')
  <2>1. Plain("confirm") \in Msg /\ Spoken({u}, Plain("confirm"))
    BY <1>4 DEF Asked, Plain, M, Msg, ReplyKinds
  <2> QED  BY <1>1, <2>1, SpokenKeeps
<1>5. ASSUME NEW u, Parted(u)  PROVE IsPrefix(Stream(p), Stream(p)')
  <2>1. Stream(p)' = Stream(p)
    BY <1>1, <1>5 DEF Parted
  <2> QED  BY <1>2, <2>1
<1>6. ASSUME NEW u, NEW x, Replied(u, x)  PROVE IsPrefix(Stream(p), Stream(p)')
  BY <1>1, <1>6, SpokenKeeps DEF Replied
<1>7. ASSUME NEW u, NEW x, Returned(u, x)  PROVE IsPrefix(Stream(p), Stream(p)')
  <2>1. M("welcome", x, NoName) \in Msg /\ Spoken({u}, M("welcome", x, NoName))
    BY <1>7 DEF Returned, M, Msg, ReplyKinds
  <2> QED  BY <1>1, <2>1, SpokenKeeps
<1>8. ASSUME NEW u, NEW x, Departed(u, x)  PROVE IsPrefix(Stream(p), Stream(p)')
  <2>1. /\ M("left", x, NoName) \in Msg
        /\ Spoken(InChat \ {u}, M("left", x, NoName))
    BY <1>8 DEF Departed, M, Msg, NoticeKinds
  <2> QED  BY <1>1, <2>1, SpokenKeeps
<1>9. ASSUME NEW u, NEW x, Entered(u, x)  PROVE IsPrefix(Stream(p), Stream(p)')
  <2>1. /\ M("joined", x, NoName) \in Msg /\ M("welcome", x, NoName) \in Msg
        /\ Announced(InChat, M("joined", x, NoName), u, M("welcome", x, NoName))
    BY <1>9 DEF Entered, M, Msg, NoticeKinds, ReplyKinds
  <2> QED  BY <1>1, <2>1, AnnouncedKeeps DEF Announced
<1>10. ASSUME NEW h \in Handles, Say(h)  PROVE IsPrefix(Stream(p), Stream(p)')
  <2>0. PICK u, x : Said(u, x)
    BY <1>10, SaySays
  <2>1. /\ M("said", user[u].username, x) \in Msg /\ M("you", NoName, x) \in Msg
        /\ Announced(InChat \ {u}, M("said", user[u].username, x),
                     u, M("you", NoName, x))
    BY <2>0 DEF Said, M, Msg, NoticeKinds, ReplyKinds
  <2> QED  BY <1>1, <2>1, AnnouncedKeeps DEF Announced
<1>11. ASSUME NEW u, NEW x, Whispered(u, x)  PROVE IsPrefix(Stream(p), Stream(p)')
  <2>1. /\ M("whispered", user[u].username, NoName) \in Msg
        /\ M("ack", user[x].username, NoName) \in Msg
        /\ Announced({x}, M("whispered", user[u].username, NoName),
                     u, M("ack", user[x].username, NoName))
    BY <1>11 DEF Whispered, M, Msg, NoticeKinds, ReplyKinds
  <2> QED  BY <1>1, <2>1, AnnouncedKeeps DEF Announced
<1> QED  BY <1>3, <1>4, <1>5, <1>6, <1>7, <1>8, <1>9, <1>10, <1>11, StreamSteps DEF Served

(* Flushing moves messages within the streams.                             *)
LEMMA FlushKeeps ==
  ASSUME RoomInv, RoomInv', Next, pc = "flush", NEW p \in Peers
  PROVE  Stream(p)' = Stream(p)
<1>0. Inv /\ Inv'
  BY DEF RoomInv
<1>1. UNCHANGED <<sent, csock, cout>> /\ Clients' = Clients => Stream(p)' = Stream(p)
  BY SameQueues DEF Calm
<1>2. CASE PeerStep /\ UNCHANGED <<netVars, appVars>>
  <2>1. UNCHANGED sent
    BY <1>2 DEF PeerStep, Connect, Type, Close, Reset, Abort
  <2> QED  BY <1>1, <1>2, <2>1 DEF netVars, Clients
<1>3. CASE EndFlush \/ ReadFreedBucket \/ \E h \in Handles : FlushFails(h) \/ FlushKilled(h)
  <2>1. UNCHANGED <<sent, csock, cstate, cout>>
    BY <1>3 DEF EndFlush, ReadFreedBucket, FlushFails, FlushKilled, socketVars
  <2> QED  BY <1>1, <2>1 DEF Clients
<1>4. ASSUME NEW h \in Handles, FlushSome(h)  PROVE Stream(p)' = Stream(p)
  BY <1>0, <1>4, FlushIsCalm DEF Calm
<1>5. ~UpdateStep /\ ~EndUpdate /\ ~EndReap
  BY DEF UpdateStep, EndUpdate, EndReap, LoginRefused, Login, Answered, Whisper, Say,
     AskExit, ConfirmExit, CancelExit, CreateUser, RemoveUser, GetLine
<1>6. PollStep => \/ ReadFreedBucket
                  \/ \E h \in Handles : FlushSome(h) \/ FlushFails(h) \/ FlushKilled(h)
  BY DEF PollStep, Listen, ListenFails, Sweep, Poll, PollFails, AcceptFails, Refuse,
     RefuseKilled, EndRecv, AddClient, RecvData, RecvNothing, RecvEnd
<1> QED  BY <1>2, <1>3, <1>4, <1>5, <1>6 DEF Next, ServerStep

(* Only the loops of ac_app_update add to them, and only a goodbye is sent *)
(* by these.                                                               *)
LEMMA UpdateQueues ==
  ASSUME UpdateStep
  PROVE  /\ pc \in {"update", "reap"}
         /\ sent' = sent \/ \E h \in Handles : ConfirmExit(h)
<1>1. ASSUME NEW h \in Handles, CreateUser(h) \/ RemoveUser(h)
      PROVE  pc = "reap" /\ sent' = sent
  BY <1>1 DEF CreateUser, RemoveUser, socketVars
<1>2. ASSUME NEW h \in Handles, NEW u, NEW state, GetLine(h, u, state)
      PROVE  pc = "update"
  BY <1>2 DEF GetLine
<1>3. ASSUME NEW h \in Handles, TakesAndAnswers(h)
      PROVE  pc = "update" /\ sent' = sent
  <2>1. LoginRefused(h) \/ Login(h) \/ Answered(h) \/ Whisper(h) \/ Say(h)
          => pc = "update" /\ sent' = sent
    BY <1>2 DEF LoginRefused, Login, Answered, Whisper, Say, socketVars
  <2>2. AskExit(h) \/ CancelExit(h) => pc = "update" /\ sent' = sent
    BY <1>2 DEF AskExit, CancelExit, socketVars
  <2> QED  BY <1>3, <2>1, <2>2 DEF TakesAndAnswers, Serves
<1>4. ASSUME NEW h \in Handles, ConfirmExit(h)  PROVE pc = "update"
  BY <1>2, <1>4 DEF ConfirmExit
<1> QED  BY <1>1, <1>3, <1>4 DEF UpdateStep, TakesAndAnswers, Serves

LEMMA StepKeeps ==
  ASSUME RoomInv, RoomInv', Next, NEW u \in Users,
         \A h \in Clients : csock[h] = u => cstate'[h] # "removed"
  PROVE  \/ Stream(u)' = Stream(u)
         \/ /\ pc \in {"update", "reap"}
            /\ sent'[u] = sent[u]
            /\ IsPrefix(Stream(u), Stream(u)')
<1>0. Inv /\ Inv'
  BY DEF RoomInv
<1>1. u \in Peers /\ user[u].handle \in Clients /\ csock[user[u].handle] = u
  BY <1>0, UserFacts
<1>2. CASE UpdateStep /\ sent' = sent
  BY <1>2, StepExtends, UpdateQueues
<1>3. ASSUME NEW h \in Handles, ConfirmExit(h)  PROVE Stream(u)' = Stream(u)
  <2>1. PICK v \in Users : PartsWith(h, v)
    BY <1>0, <1>3, ConfirmExitSays
  <2> QED  BY <1>1, <2>1 DEF PartsWith
<1>4. CASE Silent \/ Cut \/ Refused
  BY <1>1, <1>4 DEF Silent, Calm, Cut, Refused
<1> QED  BY <1>2, <1>3, <1>4, PollIsSilent, UpdateQueues


-----------------------------------------------------------------------------
(* Goodbye is never queued.                                                *)
Clean(s) == \A i \in DOMAIN s : s[i].kind # "goodbye"

LEMMA CleanParts ==
  /\ Clean(<<>>)
  /\ \A m \in Msg : m.kind # "goodbye" => Clean(<<m>>)
  /\ \A s, t \in Seq(Msg) : Clean(s) /\ Clean(t) => Clean(s \o t)
  /\ \A s \in Seq(Msg), n \in Nat : n <= Len(s) /\ Clean(s) =>
       Clean(SubSeq(s, 1, n)) /\ Clean(SubSeq(s, n + 1, Len(s)))
<1>1. Clean(<<>>) /\ \A m \in Msg : m.kind # "goodbye" => Clean(<<m>>)
  BY DEF Clean
<1>2. ASSUME NEW s \in Seq(Msg), NEW t \in Seq(Msg), Clean(s), Clean(t)
      PROVE  Clean(s \o t)
  <2>1. PICK x : x = s \o t
    OBVIOUS
  <2>2. /\ x \in Seq(Msg) /\ Len(x) = Len(s) + Len(t)
        /\ \A k \in 1 .. Len(s) + Len(t) :
             x[k] = IF k <= Len(s) THEN s[k] ELSE t[k - Len(s)]
    BY <2>1, ConcatProperties
  <2>3. /\ Len(s) \in Nat /\ Len(t) \in Nat /\ DOMAIN x = 1 .. Len(s) + Len(t)
        /\ DOMAIN s = 1 .. Len(s) /\ DOMAIN t = 1 .. Len(t)
    BY <2>2, LenProperties
  <2>4. Clean(x)
    <3> SUFFICES ASSUME NEW k \in DOMAIN x  PROVE x[k].kind # "goodbye"
      BY DEF Clean
    <3>1. CASE k <= Len(s)
      BY <1>2, <2>2, <2>3, <3>1 DEF Clean
    <3>2. CASE ~(k <= Len(s))
      <4>1. k - Len(s) \in DOMAIN t /\ x[k] = t[k - Len(s)]
        BY <2>2, <2>3, <3>2
      <4> QED  BY <1>2, <4>1 DEF Clean
    <3> QED  BY <3>1, <3>2
  <2> QED  BY <2>1, <2>4
<1>3. ASSUME NEW s \in Seq(Msg), NEW n \in Nat, n <= Len(s), Clean(s)
      PROVE  Clean(SubSeq(s, 1, n)) /\ Clean(SubSeq(s, n + 1, Len(s)))
  <2>1. Len(s) \in Nat /\ DOMAIN s = 1 .. Len(s)
    BY LenProperties
  <2>2. Clean(SubSeq(s, 1, n))
    BY <1>3, <2>1 DEF Clean
  <2>3. Clean(SubSeq(s, n + 1, Len(s)))
    BY <1>3, <2>1 DEF Clean
  <2> QED  BY <2>2, <2>3
<1> QED  BY <1>1, <1>2, <1>3

(* A batch without a goodbye, for all users of the table.                  *)
CleanBatch(batch) ==
  batch \in [Handles -> Seq(Msg)] /\ \A g \in Handles : Clean(batch[g])

LEMMA CleanTo ==
  ASSUME NEW people, NEW m \in Msg, m.kind # "goodbye"
  PROVE  CleanBatch(To(people, m))
<1>1. To(people, m) \in [Handles -> Seq(Msg)]
  BY ToType
<1>2. ASSUME NEW g \in Handles  PROVE Clean(To(people, m)[g])
  <2>1. To(people, m)[g] = <<m>> \/ To(people, m)[g] = <<>>
    BY DEF To
  <2> QED  BY <2>1, CleanParts
<1> QED  BY <1>1, <1>2 DEF CleanBatch

LEMMA ReplyIsClean ==
  ASSUME NEW u, NEW m \in Msg, m.kind # "goodbye", Reply(u, m)
  PROVE  \E batch : CleanBatch(batch) /\ Send(batch)
BY CleanTo DEF Reply

LEMMA AnnounceIsClean ==
  ASSUME NEW others, NEW notice \in Msg, NEW u, NEW m \in Msg,
         notice.kind # "goodbye", m.kind # "goodbye", Announce(others, notice, u, m)
  PROVE  \E batch : CleanBatch(batch) /\ Send(batch)
<1>1. CleanBatch(To(others, notice)) /\ CleanBatch(To({u}, m))
  BY CleanTo
<1>2. PICK a, b : a = To(others, notice) /\ b = To({u}, m)
  OBVIOUS
<1>3. CleanBatch(a) /\ CleanBatch(b)
  BY <1>1, <1>2
<1>4. Send([g \in Handles |-> a[g] \o b[g]])
  BY <1>2 DEF Announce
<1>5. CleanBatch([g \in Handles |-> a[g] \o b[g]])
  <2>1. \A g \in Handles : a[g] \o b[g] \in Seq(Msg) /\ Clean(a[g] \o b[g])
    BY <1>3, CleanParts, ConcatProperties DEF CleanBatch
  <2> QED  BY <2>1 DEF CleanBatch
<1> QED  BY <1>4, <1>5


LEMMA CleanSends ==
  ASSUME Inv, NEW h \in Handles,
         \/ LoginRefused(h) \/ Login(h) \/ Answered(h) \/ Whisper(h) \/ Say(h)
         \/ AskExit(h) \/ CancelExit(h) \/ RemoveUser(h)
  PROVE  \E batch : CleanBatch(batch) /\ Send(batch)
<1>1. TypeOK
  BY DEF Inv
<1>2. \A u \in Peers : user[u].username \in Names \cup {NoName}
  BY <1>1 DEF TypeOK, AppTypeOK
<1>3. \A kind \in ReplyKinds \cup NoticeKinds,
         name \in Names \cup {NoName},
         body \in Words \cup {NoName} :
        M(kind, name, body) \in Msg /\ M(kind, name, body).kind = kind
  BY MsgType DEF M
<1>4. \A kind \in ReplyKinds : Plain(kind) \in Msg /\ Plain(kind).kind = kind
  BY MsgType DEF Plain, M
<1>5. CASE LoginRefused(h)
  <2>1. PICK u \in Peers : LoginRefused(h)!(u)
    BY <1>5 DEF LoginRefused
  <2>2. PICK kind \in {"prompt", "taken", "invalid"} : Reply(u, Plain(kind))
    BY <2>1
  <2>3. Plain(kind) \in Msg /\ Plain(kind).kind # "goodbye"
    BY <1>4 DEF ReplyKinds
  <2> QED  BY <2>2, <2>3, ReplyIsClean
<1>6. CASE Answered(h)
  <2>1. PICK u \in Peers : Answered(h)!(u)
    BY <1>6 DEF Answered
  <2>2. PICK line, m : line = Input(u) /\ m = Answer(line)
    OBVIOUS
  <2>3. /\ GetLine(h, u, "chat") /\ Reply(u, m) /\ ~CanWhisper(line)
        /\ line.kind \notin {"text", "exit"}
    BY <2>1, <2>2
  <2>4. m \in Msg
    BY <1>1, <2>2, <2>3, GetLineType, AnswerType
  <2>5. m.kind # "goodbye"
    BY <2>2 DEF Answer, WhisperError, Plain, M
  <2> QED  BY <2>3, <2>4, <2>5, ReplyIsClean
<1>7. CASE Login(h)
  <2>1. PICK u \in Peers : Login(h)!(u)
    BY <1>7 DEF Login
  <2>2. PICK n : n = Input(u).word
    OBVIOUS
  <2>3. n \in Names /\ Announce(InChat \ {u}, M("joined", n, NoName),
                                 u, M("welcome", n, NoName))
    BY <2>1, <2>2 DEF ValidUsername
  <2>4. /\ M("joined", n, NoName) \in Msg /\ M("joined", n, NoName).kind # "goodbye"
        /\ M("welcome", n, NoName) \in Msg /\ M("welcome", n, NoName).kind # "goodbye"
    BY <1>3, <2>3 DEF ReplyKinds, NoticeKinds
  <2> QED  BY <2>3, <2>4, AnnounceIsClean
<1>8. CASE Whisper(h)
  <2>1. PICK u \in Peers : Whisper(h)!(u)
    BY <1>8 DEF Whisper
  <2>2. PICK n, v : n = Input(u).word /\ v = user[u].username
    OBVIOUS
  <2>3. n \in Names /\ v \in Names \cup {NoName}
        /\ Announce({from_username[n]}, M("whispered", v, NoName),
                    u, M("ack", n, NoName))
    BY <1>2, <2>1, <2>2 DEF CanWhisper, Registered
  <2>4. /\ M("whispered", v, NoName) \in Msg /\ M("whispered", v, NoName).kind # "goodbye"
        /\ M("ack", n, NoName) \in Msg /\ M("ack", n, NoName).kind # "goodbye"
    BY <1>3, <2>3 DEF ReplyKinds, NoticeKinds
  <2> QED  BY <2>3, <2>4, AnnounceIsClean
<1>9. CASE Say(h)
  <2>1. PICK u \in Peers : Say(h)!(u)
    BY <1>9 DEF Say
  <2>2. PICK w, v : w = Input(u).word /\ v = user[u].username
    OBVIOUS
  <2>3. GetLine(h, u, "chat")
        /\ Announce(InChat \ {u}, M("said", v, w), u, M("you", NoName, w))
    BY <2>1, <2>2
  <2>4. w \in Words /\ v \in Names \cup {NoName}
    BY <1>1, <1>2, <2>2, <2>3, GetLineType
  <2>5. /\ M("said", v, w) \in Msg /\ M("said", v, w).kind # "goodbye"
        /\ M("you", NoName, w) \in Msg /\ M("you", NoName, w).kind # "goodbye"
    BY <1>3, <2>4 DEF ReplyKinds, NoticeKinds
  <2> QED  BY <2>3, <2>5, AnnounceIsClean
<1>10. CASE AskExit(h)
  <2>1. PICK u \in Peers : Reply(u, Plain("confirm"))
    BY <1>10 DEF AskExit
  <2>2. Plain("confirm") \in Msg /\ Plain("confirm").kind # "goodbye"
    BY <1>4 DEF ReplyKinds
  <2> QED  BY <2>1, <2>2, ReplyIsClean
<1>11. CASE CancelExit(h)
  <2>1. PICK u \in Peers : Reply(u, M("welcome", user[u].username, NoName))
    BY <1>11 DEF CancelExit
  <2>2. PICK v : v = user[u].username /\ v \in Names \cup {NoName}
    BY <1>2
  <2>3. M("welcome", v, NoName) \in Msg /\ M("welcome", v, NoName).kind # "goodbye"
    <3>1. "welcome" \in ReplyKinds
      BY DEF ReplyKinds
    <3> QED  BY <1>3, <2>2, <3>1
  <2> QED  BY <2>1, <2>2, <2>3, ReplyIsClean
<1>12. CASE RemoveUser(h)
  <2>1. PICK u \in Peers : Send(To(InChat \ {u}, M("left", user[u].username, NoName)))
    BY <1>12 DEF RemoveUser
  <2>2. PICK v : v = user[u].username /\ v \in Names \cup {NoName}
    BY <1>2
  <2>3. M("left", v, NoName) \in Msg /\ M("left", v, NoName).kind # "goodbye"
    BY <1>3, <2>2 DEF NoticeKinds
  <2> QED  BY <2>1, <2>2, <2>3, CleanTo
<1> QED  BY <1>5, <1>6, <1>7, <1>8, <1>9, <1>10, <1>11, <1>12

QueuesClean == \A h \in Handles : Clean(cout[h])

LEMMA QueuesStep ==
  ASSUME Inv, Next, QueuesClean
  PROVE  \A h \in Handles : Clean(cout'[h])
<1> SUFFICES ASSUME NEW h \in Handles  PROVE Clean(cout'[h])
  OBVIOUS
<1>0. cout \in [Handles -> Seq(Msg)] /\ Clean(cout[h])
  BY DEF Inv, TypeOK, NetTypeOK, QueuesClean
<1>1. cout'[h] \in {cout[h], <<>>} => Clean(cout'[h])
  BY <1>0, CleanParts
<1>2. ASSUME NEW g \in Handles, AddClient(g)  PROVE cout'[h] \in {cout[h], <<>>}
  BY <1>0, <1>2 DEF AddClient
<1>3. CASE Sweep
  BY <1>1, <1>3 DEF Sweep
<1>4. ASSUME NEW g \in Handles, FlushSome(g)  PROVE Clean(cout'[h])
  <2>1. PICK n \in 0 .. Len(cout[g]) : cout' = [cout EXCEPT ![g] = Unsent(@, n)]
    BY <1>4 DEF FlushSome
  <2>2. PICK s : s = cout[h] /\ s \in Seq(Msg) /\ Clean(s)
    BY <1>0
  <2>3. cout'[h] = s \/ (n <= Len(s) /\ cout'[h] = SubSeq(s, n + 1, Len(s)))
    BY <1>0, <2>1, <2>2 DEF Unsent
  <2>4. n <= Len(s) => Clean(SubSeq(s, n + 1, Len(s)))
    BY <2>2, CleanParts
  <2> QED  BY <2>2, <2>3, <2>4
<1>5. ASSUME NEW g \in Handles, CreateUser(g)  PROVE Clean(cout'[h])
  <2>1. PICK s : s = cout[h] /\ s \in Seq(Msg) /\ Clean(s)
    BY <1>0
  <2>2. PICK m : m = Plain("greeting") /\ m \in Msg /\ m.kind # "goodbye"
    BY MsgType DEF ReplyKinds, Plain, M
  <2>3. cout'[h] = s \/ cout'[h] = Append(s, m)
    BY <1>0, <1>5, <2>1, <2>2 DEF CreateUser
  <2>4. Clean(Append(s, m))
    BY <2>1, <2>2, AppendProperties DEF Clean
  <2> QED  BY <2>1, <2>3, <2>4
<1>6. ASSUME NEW g \in Handles,
             \/ LoginRefused(g) \/ Login(g) \/ Answered(g) \/ Whisper(g) \/ Say(g)
             \/ AskExit(g) \/ CancelExit(g) \/ RemoveUser(g)
      PROVE  Clean(cout'[h])
  <2>1. PICK batch : CleanBatch(batch) /\ Send(batch)
    BY <1>6, CleanSends
  <2>2. /\ cout'[h] = cout[h] \o batch[h] /\ batch[h] \in Seq(Msg) /\ Clean(batch[h])
    BY <2>1 DEF Send, CleanBatch
  <2>3. Clean(cout[h] \o batch[h])
    BY <1>0, <2>2, CleanParts
  <2> QED  BY <2>2, <2>3
<1>7. CASE PollStep
  BY <1>1, <1>2, <1>3, <1>4, <1>7
     DEF PollStep, Listen, ListenFails, Poll, PollFails, AcceptFails, Refuse,
         RefuseKilled, EndRecv, ReadFreedBucket, RecvData, RecvNothing, RecvEnd,
         FlushFails, FlushKilled
<1>8. CASE UpdateStep
  <2>1. \A g \in Handles : ConfirmExit(g) => UNCHANGED cout
    BY DEF ConfirmExit
  <2> QED  BY <1>1, <1>5, <1>6, <1>8, <2>1 DEF UpdateStep
<1>9. CASE PeerStep /\ UNCHANGED <<netVars, appVars>>
  BY <1>1, <1>9 DEF netVars
<1>10. CASE EndFlush \/ EndUpdate \/ EndReap
  BY <1>1, <1>10 DEF EndFlush, EndUpdate, EndReap
<1> QED  BY <1>7, <1>8, <1>9, <1>10 DEF Next, ServerStep


(* Who was told goodbye is done with.                                      *)
Dismissed ==
  \A h \in Clients :
    Told(csock[h]) =>
      /\ cstate[h] = "removed"
      /\ pc \in {"update", "reap", "sweep"} \cup Ends
      /\ pc = "update" => h \notin todo

LEMMA LastWordIs == LastWord <=> Dismissed /\ QueuesClean
BY DEF LastWord, Dismissed, QueuesClean, Clean

LEMMA ToldKept ==
  ASSUME NEW p, UNCHANGED sent
  PROVE  Told(p)' <=> Told(p)
BY DEF Told

(* As long as nobody is told anything, who is dismissed remains so.        *)
LEMMA DismissedKept ==
  ASSUME RoomInv, Next, Dismissed, UNCHANGED sent
  PROVE  Dismissed'
<1> SUFFICES ASSUME NEW h \in Handles, cstate'[h] # "none", Told(csock'[h])
             PROVE  /\ cstate'[h] = "removed"
                    /\ pc' \in {"update", "reap", "sweep"} \cup Ends
                    /\ pc' = "update" => h \notin todo'
  <2>1. \A p : Told(p)' <=> Told(p)
    BY ToldKept
  <2> QED  BY <2>1 DEF Dismissed, Clients
<1>0. Inv /\ cstate \in [Handles -> ClientStates]
  BY DEF RoomInv, Inv, TypeOK, NetTypeOK
<1>1. ASSUME cstate[h] # "none", csock'[h] = csock[h]
      PROVE  /\ cstate[h] = "removed"
             /\ pc \in {"update", "reap", "sweep"} \cup Ends
             /\ pc = "update" => h \notin todo
  BY <1>1 DEF Dismissed, Clients
<1> DEFINE Goal == /\ cstate'[h] = "removed"
                   /\ pc' \in {"update", "reap", "sweep"} \cup Ends
                   /\ pc' = "update" => h \notin todo'
<1>2. ASSUME UNCHANGED <<cstate, csock, pc>>, todo' \subseteq todo \/ pc # "update"
      PROVE  Goal
  BY <1>1, <1>2
<1>3. ASSUME UNCHANGED <<cstate, csock>>, pc' \in Ends  PROVE Goal
  BY <1>1, <1>3 DEF Ends
<1>4. CASE PeerStep /\ UNCHANGED <<netVars, appVars>>
  BY <1>2, <1>4 DEF netVars
<1>5. ASSUME pc \in {"start", "poll", "accept", "recv", "flush"}, UNCHANGED <<cstate, csock>>
      PROVE  Goal
  BY <1>1, <1>5 DEF Ends
<1>6. CASE PollStep /\ UNCHANGED appVars
  <2>1. CASE Sweep
    <3>1. cstate[h] # "none" /\ csock'[h] = csock[h] /\ cstate[h] # "removed"
      BY <1>0, <2>1 DEF Sweep
    <3> QED  BY <1>1, <3>1
  <2>2. ASSUME NEW g \in Handles, AddClient(g)  PROVE Goal
    <3>1. CASE h = g
      <4>1. PICK q : q = Head(backlog)
        OBVIOUS
      <4>2. csock'[h] = q /\ backlog \in Seq(Peers) /\ backlog # <<>>
        BY <1>0, <2>2, <3>1, <4>1 DEF AddClient, Inv, TypeOK, NetTypeOK, SocketTypeOK
      <4>3. q \in Peers /\ NotYet(q)
        BY <4>1, <4>2 DEF NotYet, Waiting
      <4>4. sent[q] = <<>>
        BY <4>3 DEF RoomInv, Unknown
      <4> QED  BY <4>2, <4>4 DEF Told
    <3>2. CASE h # g
      <4>1. cstate[h] # "none" /\ csock'[h] = csock[h] /\ pc = "accept"
        BY <1>0, <2>2, <3>2 DEF AddClient, Inv, TypeOK, NetTypeOK
      <4> QED  BY <1>1, <4>1 DEF Ends
    <3> QED  BY <3>1, <3>2
  <2>3. ASSUME NEW g \in Handles, RecvEnd(g)  PROVE Goal
    <3>1. cstate[h] # "none" /\ csock'[h] = csock[h] /\ pc = "recv"
      <4>1. /\ cstate' \in {cstate, [cstate EXCEPT ![g] = "removed"]}
            /\ cstate[g] # "none" /\ UNCHANGED csock
        BY <1>0, <2>3, MarkStep
      <4> QED  BY <1>0, <2>3, <4>1 DEF RecvEnd
    <3> QED  BY <1>1, <3>1 DEF Ends
  <2>4. CASE \/ Listen \/ Poll \/ AcceptFails \/ Refuse \/ EndRecv
             \/ \E g \in Handles : \/ RecvData(g) \/ RecvNothing(g)
                                   \/ FlushSome(g) \/ FlushFails(g)
    <3>1. /\ pc \in {"start", "poll", "accept", "recv", "flush"}
          /\ UNCHANGED <<cstate, csock>>
      BY <2>4 DEF Listen, Poll, AcceptFails, Refuse, EndRecv, RecvData, RecvNothing,
                  FlushSome, FlushFails
    <3> QED  BY <1>5, <3>1
  <2>5. CASE \/ ListenFails \/ PollFails \/ RefuseKilled \/ ReadFreedBucket
             \/ \E g \in Handles : FlushKilled(g)
    <3>1. pc' \in Ends /\ UNCHANGED <<cstate, csock>>
      BY <2>5 DEF ListenFails, PollFails, RefuseKilled, ReadFreedBucket, FlushKilled, Ends
    <3> QED  BY <1>3, <3>1
  <2> QED  BY <1>6, <2>1, <2>2, <2>3, <2>4, <2>5 DEF PollStep
<1>7. CASE UpdateStep
  <2>1. ASSUME NEW g \in Handles,
               \/ LoginRefused(g) \/ Login(g) \/ Answered(g) \/ Whisper(g) \/ Say(g)
               \/ AskExit(g) \/ CancelExit(g) \/ CreateUser(g) \/ RemoveUser(g)
        PROVE  Goal
    <3>1. UNCHANGED <<cstate, csock, pc>> /\ todo' \subseteq todo
      BY <2>1 DEF LoginRefused, Login, Answered, Whisper, Say, AskExit, CancelExit,
                  CreateUser, RemoveUser, GetLine, Visit
    <3> QED  BY <1>2, <3>1
  <2>2. ASSUME NEW g \in Handles, ConfirmExit(g)  PROVE Goal
    <3>1. PICK u \in Peers : ConfirmExit(g)!(u)
      BY <2>2 DEF ConfirmExit
    <3>2. /\ cstate' \in {cstate, [cstate EXCEPT ![g] = "removed"]}
          /\ cstate[g] # "none" /\ UNCHANGED csock
      BY <1>0, <2>2, MarkStep
    <3>3. pc = "update" /\ todo' \subseteq todo
      BY <3>1 DEF GetLine, Visit
    <3>4. pc' \in {"update", "sigpipe"}
      BY <3>1, <3>3 DEF RemoveClient
    <3>5. cstate[h] # "none" /\ csock'[h] = csock[h]
      BY <1>0, <3>2
    <3>6. cstate'[h] = "removed"
      BY <1>0, <1>1, <3>2, <3>5
    <3> QED  BY <1>1, <3>3, <3>4, <3>5, <3>6 DEF Ends
  <2> QED  BY <1>7, <2>1, <2>2 DEF UpdateStep
<1>8. CASE EndFlush
  BY <1>5, <1>8 DEF EndFlush
<1>9. CASE EndUpdate \/ EndReap
  BY <1>1, <1>9 DEF EndUpdate, EndReap
<1> QED  BY <1>4, <1>6, <1>7, <1>8, <1>9 DEF Next, ServerStep


LEMMA NotTold ==
  ASSUME NEW p, ~Told(p)
  PROVE  Clean(sent[p])
BY DEF Told, Clean

(* Before the loops of ac_app_update nobody is about to leave, and nothing *)
(* that is sent there is a goodbye.                                        *)
LEMMA SentClean ==
  ASSUME Inv, Dismissed, GoodbyeIsLast, pc \in {"accept", "flush"},
         UNCHANGED <<cstate, csock>>,
         \A p \in Peers : sent'[p] = sent[p] \/ Clean(sent'[p])
  PROVE  Dismissed' /\ GoodbyeIsLast'
<1>1. ASSUME NEW h \in Clients  PROVE ~Told(csock[h])'
  <2>1. ~Told(csock[h]) /\ csock[h] \in Peers
    BY DEF Dismissed, Ends, Inv, LoopsOK
  <2>2. Clean(sent'[csock[h]])
    BY <2>1, NotTold
  <2> QED  BY <2>2 DEF Told, Clean
<1>2. Dismissed'
  BY <1>1 DEF Dismissed, Clients
<1>3. GoodbyeIsLast'
  <2> SUFFICES ASSUME NEW p \in Peers, NEW i \in DOMAIN sent'[p],
                      sent'[p][i].kind = "goodbye"
               PROVE  i = Len(sent'[p])
    BY DEF GoodbyeIsLast
  <2>1. sent'[p] = sent[p]
    BY DEF Clean
  <2> QED  BY <2>1 DEF GoodbyeIsLast
<1> QED  BY <1>2, <1>3

LEMMA RefuseSendsClean ==
  ASSUME RoomInv, Refuse, NEW p \in Peers
  PROVE  sent'[p] = sent[p] \/ Clean(sent'[p])
<1>1. PICK q : q = Head(backlog)
  OBVIOUS
<1>2. backlog \in Seq(Peers) /\ backlog # <<>> /\ sent \in [Peers -> Seq(Msg)]
  BY DEF RoomInv, Inv, TypeOK, SocketTypeOK, Refuse
<1>3. q \in Peers /\ NotYet(q)
  <2>1. q = backlog[1] /\ 1 \in DOMAIN backlog /\ q \in Peers
    BY <1>1, <1>2
  <2> QED  BY <2>1 DEF NotYet, Waiting
<1>4. sent[q] = <<>>
  BY <1>3 DEF RoomInv, Unknown
<1>5. sent' = sent \/ sent' = [sent EXCEPT ![q] = Append(@, Plain("refused"))]
  BY <1>1 DEF Refuse
<1>6. Append(<<>>, Plain("refused")) = <<Plain("refused")>>
  OBVIOUS
<1>7. Clean(<<Plain("refused")>>)
  BY GreetingFits, CleanParts DEF Plain, M
<1> QED  BY <1>2, <1>3, <1>4, <1>5, <1>6, <1>7

LEMMA FlushSendsClean ==
  ASSUME Inv, Dismissed, QueuesClean, NEW h \in Handles, FlushSome(h), NEW p \in Peers
  PROVE  sent'[p] = sent[p] \/ Clean(sent'[p])
<1>1. PICK q : q = csock[h]
  OBVIOUS
<1>2. PICK n \in 0 .. Len(cout[h]) : sent' = [sent EXCEPT ![q] = @ \o SubSeq(cout[h], 1, n)]
  BY <1>1 DEF FlushSome
<1>3. h \in Clients /\ pc = "flush" /\ q \in Peers
  BY <1>1 DEF FlushSome, Visit, Inv, LoopsOK
<1>4. ~Told(q)
  BY <1>1, <1>3 DEF Dismissed, Ends
<1>5. PICK s, c : s = sent[q] /\ c = cout[h]
  OBVIOUS
<1>6. s \in Seq(Msg) /\ c \in Seq(Msg) /\ Clean(s) /\ Clean(c)
  BY <1>3, <1>4, <1>5, NotTold
     DEF QueuesClean, Inv, TypeOK, SocketTypeOK, NetTypeOK, Clients
<1>7. Clean(SubSeq(c, 1, n)) /\ SubSeq(c, 1, n) \in Seq(Msg)
  <2>1. n \in Nat /\ n <= Len(c)
    BY <1>5, <1>6
  <2> QED  BY <1>6, <2>1, CleanParts, CutInTwo
<1>8. Clean(s \o SubSeq(c, 1, n))
  BY <1>6, <1>7, CleanParts
<1>9. sent \in [Peers -> Seq(Msg)]
  BY DEF Inv, TypeOK, SocketTypeOK
<1> QED  BY <1>2, <1>3, <1>5, <1>8, <1>9

LEMMA ConfirmExitIsLast ==
  ASSUME Inv, Dismissed, GoodbyeIsLast, NEW h \in Handles, ConfirmExit(h), sent' # sent
  PROVE  Dismissed' /\ GoodbyeIsLast'
<1>1. PICK u \in Peers : ConfirmExit(h)!(u)
  BY DEF ConfirmExit
<1>2. /\ user[u].handle = h /\ csock[h] = u /\ h \in Clients
      /\ pc = "update" /\ h \in todo /\ todo' = todo \ {h}
  <2>1. GetLine(h, u, "exit")
    BY <1>1
  <2> QED  BY <2>1, RemovesOwnClient DEF GetLine, Visit, Clients
<1>3. /\ sent' = [sent EXCEPT ![u] = Append(@, Plain("goodbye"))]
      /\ cstate' = [cstate EXCEPT ![h] = "removed"] /\ UNCHANGED <<csock, pc>>
  BY <1>1, <1>2 DEF RemoveClient, MarkRemoved
<1>4. /\ sent \in [Peers -> Seq(Msg)] /\ cstate \in [Handles -> ClientStates]
      /\ \A g \in Clients : g # h => csock[g] # u
  BY <1>2 DEF Inv, TypeOK, SocketTypeOK, NetTypeOK, SocketsAccounted
<1>5. \A p \in Peers : p # u => sent'[p] = sent[p]
  BY <1>3, <1>4
<1>6. Dismissed'
  <2> SUFFICES ASSUME NEW g \in Handles, cstate'[g] # "none", Told(csock[g])'
               PROVE  cstate'[g] = "removed" /\ g \notin todo' /\ pc' = "update"
    BY <1>2, <1>3 DEF Dismissed, Clients
  <2>1. CASE g = h
    BY <1>2, <1>3, <1>4, <2>1
  <2>2. CASE g # h
    <3>1. g \in Clients /\ csock[g] # u /\ csock[g] \in Peers
      BY <1>3, <1>4, <2>2 DEF Clients, Inv, LoopsOK
    <3>2. sent'[csock[g]] = sent[csock[g]] /\ csock'[g] = csock[g]
      BY <1>3, <1>5, <3>1
    <3>3. Told(csock[g])
      BY <3>2 DEF Told
    <3>4. cstate[g] = "removed" /\ g \notin todo
      BY <1>2, <3>1, <3>3 DEF Dismissed
    <3> QED  BY <1>2, <1>3, <1>4, <2>2, <3>4
  <2> QED  BY <2>1, <2>2
<1>7. GoodbyeIsLast'
  <2> SUFFICES ASSUME NEW p \in Peers, NEW i \in DOMAIN sent'[p],
                      sent'[p][i].kind = "goodbye"
               PROVE  i = Len(sent'[p])
    BY DEF GoodbyeIsLast
  <2>1. CASE p # u
    BY <1>5, <2>1 DEF GoodbyeIsLast
  <2>2. CASE p = u
    <3>1. ~Told(u)
      BY <1>2 DEF Dismissed
    <3>2. PICK s : s = sent[u] /\ s \in Seq(Msg) /\ Clean(s)
      BY <1>4, <3>1, NotTold
    <3>3. sent'[u] = Append(s, Plain("goodbye"))
      BY <1>3, <1>4, <3>2
    <3>4. /\ Len(Append(s, Plain("goodbye"))) = Len(s) + 1
          /\ DOMAIN Append(s, Plain("goodbye")) = 1 .. Len(s) + 1
          /\ \A k \in 1 .. Len(s) : Append(s, Plain("goodbye"))[k] = s[k]
          /\ DOMAIN s = 1 .. Len(s) /\ Len(s) \in Nat
      BY <3>2
    <3> QED  BY <2>2, <3>2, <3>3, <3>4 DEF Clean
  <2> QED  BY <2>1, <2>2
<1> QED  BY <1>6, <1>7

LEMMA SentSteps ==
  ASSUME Inv, Next
  PROVE  \/ UNCHANGED sent \/ Refuse
         \/ \E h \in Handles : FlushSome(h) \/ ConfirmExit(h)
<1>1. CASE PeerStep
  BY <1>1 DEF PeerStep, Connect, Type, Close, Reset, Abort
<1>2. CASE PollStep
  BY <1>2 DEF PollStep, Listen, ListenFails, Sweep, Poll, PollFails, AcceptFails,
         RefuseKilled, EndRecv, ReadFreedBucket, AddClient, RecvData,
         RecvNothing, RecvEnd, FlushFails, FlushKilled, socketVars
<1>3. CASE UpdateStep
  BY <1>3 DEF UpdateStep, LoginRefused, Login, Answered, Whisper, Say, AskExit,
         CancelExit, CreateUser, RemoveUser, socketVars
<1>4. CASE EndFlush \/ EndUpdate \/ EndReap
  BY <1>4 DEF EndFlush, EndUpdate, EndReap, socketVars
<1> QED  BY <1>1, <1>2, <1>3, <1>4 DEF Next, ServerStep

LEMMA LastWordStep ==
  ASSUME RoomInv, Next, LastWord, GoodbyeIsLast
  PROVE  LastWord' /\ GoodbyeIsLast'
<1>1. Inv /\ Dismissed /\ QueuesClean
  BY LastWordIs DEF RoomInv
<1>2. QueuesClean'
  <2>1. \A h \in Handles : Clean(cout'[h])
    BY <1>1, QueuesStep
  <2> QED  BY <2>1 DEF QueuesClean, Clean
<1>3. Dismissed' /\ GoodbyeIsLast'
  <2>1. CASE UNCHANGED sent
    BY <1>1, <2>1, DismissedKept DEF GoodbyeIsLast
  <2>2. CASE Refuse
    <3>1. pc \in {"accept", "flush"} /\ UNCHANGED <<cstate, csock>>
      BY <2>2 DEF Refuse
    <3>2. \A p \in Peers : sent'[p] = sent[p] \/ Clean(sent'[p])
      BY <2>2, RefuseSendsClean
    <3> QED  BY <1>1, <3>1, <3>2, SentClean
  <2>3. ASSUME NEW h \in Handles, FlushSome(h)  PROVE Dismissed' /\ GoodbyeIsLast'
    <3>1. pc \in {"accept", "flush"} /\ UNCHANGED <<cstate, csock>>
      BY <2>3 DEF FlushSome
    <3>2. \A p \in Peers : sent'[p] = sent[p] \/ Clean(sent'[p])
      BY <1>1, <2>3, FlushSendsClean
    <3> QED  BY <1>1, <3>1, <3>2, SentClean
  <2>4. ASSUME NEW h \in Handles, ConfirmExit(h), sent' # sent
        PROVE  Dismissed' /\ GoodbyeIsLast'
    BY <1>1, <2>4, ConfirmExitIsLast
  <2> QED  BY <1>1, <2>1, <2>2, <2>3, <2>4, SentSteps
<1> QED  BY <1>2, <1>3 DEF LastWord, Dismissed, QueuesClean, Clean


-----------------------------------------------------------------------------
(* The same from the start on, and of every behaviour.                     *)
LEMMA InitStreams == Init => Followed /\ LastWord /\ GoodbyeIsLast
<1> SUFFICES ASSUME Init  PROVE Followed /\ LastWord /\ GoodbyeIsLast
  OBVIOUS
<1> USE DEF Init, SocketInit, NetInit, AppInit
<1>1. Clients = {} /\ Users = {}
  BY DEF Clients, Users
<1>2. ASSUME NEW p \in Peers  PROVE Sound(Stream(p))
  <2>1. Stream(p) = <<>>
    <3>1. sent[p] = <<>> /\ Queued(p) = <<>>
      BY <1>1 DEF Queued
    <3>2. <<>> \in Seq(Msg)
      BY EmptySeq
    <3> QED  BY <3>1, <3>2, ConcatEmptySeq DEF Stream
  <2>2. Sound(<<>>)
    BY EmptySeq DEF Sound, QuietIn, Coherent
  <2> QED  BY <2>1, <2>2
<1>3. LastWord /\ GoodbyeIsLast
  BY <1>1 DEF LastWord, GoodbyeIsLast
<1> QED  BY <1>1, <1>2, <1>3 DEF Followed

LEMMA StepFollowed == RoomInv /\ Followed /\ [Next]_vars => Followed'
<1> SUFFICES ASSUME RoomInv, Followed, [Next]_vars  PROVE Followed'
  OBVIOUS
<1>1. RoomInv'
  BY StepRoomInv
<1>2. CASE Next
  BY <1>1, <1>2, StepFollows
<1>3. CASE UNCHANGED vars
  <2>1. SamePeople /\ Calm
    BY <1>3, SameTables, SameQueues DEF vars, socketVars, netVars, Clients
  <2>2. ASSUME NEW p \in Peers  PROVE Follows(p)
    BY <2>1, SilentFollows DEF Calm
  <2>3. \A u \in Users : u \in Peers
    BY UserFacts DEF RoomInv
  <2>4. \A p \in Peers : Sound(Stream(p)')
    BY <2>2 DEF Follows
  <2>5. \A u \in Users' : Abreast(Stream(u)', u, InChat', from_username')
    BY <2>1, <2>2, <2>3 DEF Follows, SamePeople
  <2> QED  BY <2>4, <2>5 DEF Followed
<1> QED  BY <1>2, <1>3

LEMMA StepLastWord ==
  RoomInv /\ LastWord /\ GoodbyeIsLast /\ [Next]_vars => (LastWord /\ GoodbyeIsLast)'
<1> SUFFICES ASSUME RoomInv, LastWord, GoodbyeIsLast, [Next]_vars
             PROVE  LastWord' /\ GoodbyeIsLast'
  OBVIOUS
<1>1. CASE Next
  BY <1>1, LastWordStep
<1>2. CASE UNCHANGED vars
  BY <1>2 DEF vars, socketVars, netVars, LastWord, GoodbyeIsLast, Told, Clients
<1> QED  BY <1>1, <1>2

-----------------------------------------------------------------------------
(* One reply for each line.                                                *)
Count(s) == Cardinality(Replies(s))

LEMMA CountOneMore ==
  ASSUME NEW s \in Seq(Msg), NEW m \in Msg
  PROVE  /\ Count(s) \in Nat
         /\ Count(s \o <<m>>) = IF Notice(m) THEN Count(s) ELSE Count(s) + 1
<1>1. PICK t : t = s \o <<m>>
  OBVIOUS
<1>2. /\ DOMAIN s = 1 .. Len(s) /\ DOMAIN t = 1 .. Len(s) + 1 /\ Len(s) \in Nat
      /\ t[Len(s) + 1] = m /\ \A k \in 1 .. Len(s) : t[k] = s[k]
  BY <1>1, OneMore
<1>3. IsFiniteSet(Replies(s)) /\ Len(s) + 1 \notin Replies(s)
  <2>1. IsFiniteSet(1 .. Len(s)) /\ Replies(s) \in SUBSET (1 .. Len(s))
    BY <1>2, FS_Interval DEF Replies
  <2> QED  BY <1>2, <2>1, FS_Subset
<1>4. Replies(t) = IF Notice(m) THEN Replies(s) ELSE Replies(s) \cup {Len(s) + 1}
  BY <1>2 DEF Replies
<1>5. Cardinality(Replies(s)) \in Nat
  BY <1>3, FS_CardinalityType
<1>6. Cardinality(Replies(s) \cup {Len(s) + 1}) = Cardinality(Replies(s)) + 1
  BY <1>3, FS_AddElement
<1> QED  BY <1>1, <1>4, <1>5, <1>6 DEF Count

LEMMA CountFor ==
  ASSUME NEW s \in Seq(Msg), NEW p, NEW people, NEW m \in Msg
  PROVE  /\ s \o For(p, people, m) \in Seq(Msg) /\ Count(s) \in Nat
         /\ Count(s \o For(p, people, m))
              = IF p \in people /\ ~Notice(m) THEN Count(s) + 1 ELSE Count(s)
<1>1. CASE p \in people
  BY <1>1, OneMore, CountOneMore DEF For
<1>2. CASE p \notin people
  <2>1. s \o For(p, people, m) = s
    BY <1>2, ConcatEmptySeq DEF For
  <2> QED  BY <1>2, <2>1, CountOneMore
<1> QED  BY <1>1, <1>2

(* An answer is one reply to its user, and none to the others.             *)
OneReplyTo(u) ==
  \A p \in Peers :
    Count(Stream(p)') = IF p = u THEN Count(Stream(p)) + 1 ELSE Count(Stream(p))

LEMMA SpokenCount ==
  ASSUME Inv, NEW people, NEW m \in Msg, Spoken(people, m), NEW p \in Peers
  PROVE  Count(Stream(p)')
           = IF p \in people /\ ~Notice(m) THEN Count(Stream(p)) + 1
             ELSE Count(Stream(p))
<1>1. PICK s : s = Stream(p)
  OBVIOUS
<1>2. s \in Seq(Msg) /\ Stream(p)' = s \o For(p, people, m)
  BY <1>1, StreamType DEF Spoken
<1> QED  BY <1>1, <1>2, CountFor

LEMMA AnnouncedCount ==
  ASSUME Inv, NEW others, NEW notice \in Msg, Notice(notice), NEW u,
         NEW m \in Msg, ~Notice(m), Announced(others, notice, u, m)
  PROVE  OneReplyTo(u)
<1> SUFFICES ASSUME NEW p \in Peers
             PROVE  Count(Stream(p)') = IF p = u THEN Count(Stream(p)) + 1
                                        ELSE Count(Stream(p))
  BY DEF OneReplyTo
<1>1. PICK s : s = Stream(p)
  OBVIOUS
<1>2. PICK t : t = s \o For(p, others, notice)
  OBVIOUS
<1>3. s \in Seq(Msg) /\ Stream(p)' = t \o For(p, {u}, m)
  BY <1>1, <1>2, StreamType DEF Announced
<1>4. t \in Seq(Msg) /\ Count(t) = Count(s)
  BY <1>2, <1>3, CountFor
<1>5. Count(t \o For(p, {u}, m)) = IF p \in {u} THEN Count(t) + 1 ELSE Count(t)
  BY <1>4, CountFor
<1> QED  BY <1>1, <1>3, <1>4, <1>5

LEMMA ServedCount ==
  ASSUME Inv, NEW u, Served(u)
  PROVE  OneReplyTo(u)
<1>1. ASSUME NEW m \in Msg, ~Notice(m), Spoken({u}, m)  PROVE OneReplyTo(u)
  BY <1>1, SpokenCount DEF OneReplyTo
<1>2. CASE Asked(u)
  <2>1. Plain("confirm") \in Msg /\ ~Notice(Plain("confirm"))
    BY MsgType DEF ReplyKinds, Notice, NoticeKinds, Plain, M
  <2> QED  BY <1>1, <1>2, <2>1 DEF Asked
<1>3. ASSUME NEW m, Replied(u, m)  PROVE OneReplyTo(u)
  BY <1>1, <1>3 DEF Replied, PlainKinds, Notice, NoticeKinds
<1>4. ASSUME NEW n, Returned(u, n)  PROVE OneReplyTo(u)
  <2>1. M("welcome", n, NoName) \in Msg /\ ~Notice(M("welcome", n, NoName))
    BY <1>4, MsgType DEF Returned, ReplyKinds, Notice, NoticeKinds, M
  <2> QED  BY <1>1, <1>4, <2>1 DEF Returned
<1>5. ASSUME NEW n, Entered(u, n)  PROVE OneReplyTo(u)
  <2>1. /\ M("joined", n, NoName) \in Msg /\ Notice(M("joined", n, NoName))
        /\ M("welcome", n, NoName) \in Msg /\ ~Notice(M("welcome", n, NoName))
    BY <1>5, MsgType DEF Entered, ReplyKinds, Notice, NoticeKinds, M
  <2> QED  BY <1>5, <2>1, AnnouncedCount DEF Entered
<1>6. ASSUME NEW q, Whispered(u, q)  PROVE OneReplyTo(u)
  <2>1. PICK n, w : n = user[u].username /\ w = user[q].username
    OBVIOUS
  <2>2. /\ M("whispered", n, NoName) \in Msg /\ Notice(M("whispered", n, NoName))
        /\ M("ack", w, NoName) \in Msg /\ ~Notice(M("ack", w, NoName))
    BY <1>6, <2>1, MsgType DEF Whispered, ReplyKinds, Notice, NoticeKinds, M
  <2> QED  BY <1>6, <2>1, <2>2, AnnouncedCount DEF Whispered
<1> QED  BY <1>2, <1>3, <1>4, <1>5, <1>6 DEF Served


LEMMA SaidCount ==
  ASSUME Inv, NEW u, NEW w, Said(u, w)
  PROVE  OneReplyTo(u)
<1>1. PICK n : n = user[u].username
  OBVIOUS
<1>2. /\ M("said", n, w) \in Msg /\ Notice(M("said", n, w))
      /\ M("you", NoName, w) \in Msg /\ ~Notice(M("you", NoName, w))
  BY <1>1, MsgType DEF Said, ReplyKinds, Notice, NoticeKinds, M
<1> QED  BY <1>1, <1>2, AnnouncedCount DEF Said

LEMMA AnswerCounts ==
  ASSUME Inv, Inv', NEW h \in Handles, TakesAndAnswers(h)
  PROVE  OneReplyTo(from_handle[h])
BY SaySays, SaidCount, LineServed, ServedCount DEF TakesAndAnswers

(* On its way from the peer to its user a line waits in the kernel, then   *)
(* in the client; none is lost there, and none appears from nowhere.       *)
LEMMA InputOnItsWay ==
  ASSUME Inv, Next, \A h \in Handles : ~TakesAndAnswers(h) /\ ~ConfirmExit(h),
         NEW g \in Clients, NEW p, p = csock[g], cstate[g] # "removed"
  PROVE  /\ typed'[p] + Len(inq[p]) + Len(cin[g])
              = typed[p] + Len(inq'[p]) + Len(cin'[g])
         /\ typed[p] \in Nat /\ Len(inq[p]) \in Nat /\ Len(cin[g]) \in Nat
<1> DEFINE Goal == typed'[p] + Len(inq[p]) + Len(cin[g])
                     = typed[p] + Len(inq'[p]) + Len(cin'[g])
<1>1. p \in Peers /\ ~Waiting(p) /\ \A h \in Clients : csock[h] = p => h = g
  BY DEF Inv, SocketsAccounted, LoopsOK
<1>2. /\ typed \in [Peers -> Nat] /\ inq \in [Peers -> Seq(Line)]
      /\ cin \in [Handles -> Seq(Line)] /\ g \in Handles
  BY DEF Inv, TypeOK, SocketTypeOK, NetTypeOK, Clients
<1>3. typed[p] \in Nat /\ Len(inq[p]) \in Nat /\ Len(cin[g]) \in Nat
  BY <1>1, <1>2, LenProperties
<1> SUFFICES Goal
  BY <1>3
<1>4. UNCHANGED typed /\ inq'[p] = inq[p] /\ cin'[g] = cin[g] => Goal
  BY <1>3
<1>5. CASE PeerStep /\ UNCHANGED <<netVars, appVars>>
  <2>1. ASSUME NEW i \in DOMAIN backlog, Abort(i)  PROVE Goal
    <3>1. backlog[i] # p
      BY <1>1 DEF Waiting
    <3>2. UNCHANGED <<typed, cin>> /\ inq' = [inq EXCEPT ![backlog[i]] = <<>>]
      BY <1>5, <2>1 DEF Abort, netVars
    <3> QED  BY <1>1, <1>2, <1>4, <3>1, <3>2
  <2>2. ASSUME NEW q \in Peers, NEW l \in Line, Type(q, l)  PROVE Goal
    <3>1. /\ inq' = [inq EXCEPT ![q] = Append(@, l)]
          /\ typed' = [typed EXCEPT ![q] = @ + 1] /\ UNCHANGED cin
      BY <1>5, <2>2 DEF Type, netVars
    <3>2. CASE q # p
      BY <1>1, <1>2, <1>3, <3>1, <3>2
    <3>3. CASE q = p
      <4>1. Len(Append(inq[p], l)) = Len(inq[p]) + 1
        BY <1>1, <1>2, AppendProperties
      <4>2. Len(inq'[p]) = Len(inq[p]) + 1 /\ typed'[p] = typed[p] + 1
        BY <1>1, <1>2, <3>1, <3>3, <4>1
      <4>3. cin'[g] = cin[g]
        BY <3>1
      <4> QED  BY <1>3, <4>2, <4>3
    <3> QED  BY <3>2, <3>3
  <2>3. ASSUME NEW q \in Peers, Connect(q) \/ Close(q) \/ Reset(q)  PROVE Goal
    BY <1>4, <1>5, <2>3 DEF Connect, Close, Reset, netVars
  <2> QED  BY <1>5, <2>1, <2>2, <2>3 DEF PeerStep
<1>6. CASE PollStep /\ UNCHANGED appVars
  <2>1. ASSUME \/ Listen \/ ListenFails \/ Poll \/ PollFails \/ AcceptFails
               \/ RefuseKilled \/ EndRecv \/ ReadFreedBucket
               \/ \E h \in Handles : \/ RecvNothing(h) \/ RecvEnd(h) \/ FlushSome(h)
                                     \/ FlushFails(h) \/ FlushKilled(h)
        PROVE  Goal
    BY <1>4, <2>1 DEF Listen, ListenFails, Poll, PollFails, AcceptFails,
       RefuseKilled, EndRecv, ReadFreedBucket, RecvNothing, RecvEnd, FlushSome,
       FlushFails, FlushKilled, socketVars
  <2>2. CASE Sweep
    <3>1. p \notin {csock[h] : h \in {k \in Handles : cstate[k] = "removed"}}
      BY <1>1 DEF Clients
    <3>2. inq'[p] = inq[p] /\ UNCHANGED typed
      BY <1>1, <2>2, <3>1 DEF Sweep, CloseSockets
    <3>3. cin'[g] = cin[g]
      BY <1>2, <2>2 DEF Sweep
    <3> QED  BY <1>4, <3>2, <3>3
  <2>3. CASE Refuse
    <3>1. Head(backlog) # p
      <4>1. backlog \in Seq(Peers) /\ backlog # <<>>
        BY <2>3 DEF Refuse, Inv, TypeOK, SocketTypeOK
      <4>2. Head(backlog) = backlog[1] /\ 1 \in DOMAIN backlog
        BY <4>1
      <4> QED  BY <1>1, <4>2 DEF Waiting
    <3>2. inq'[p] = inq[p] /\ UNCHANGED <<typed, cin>>
      BY <1>1, <2>3, <3>1 DEF Refuse, CloseSockets
    <3> QED  BY <1>4, <3>2
  <2>4. ASSUME NEW h \in Handles, AddClient(h)  PROVE Goal
    <3>1. h # g
      BY <2>4 DEF AddClient, LowestFree
    <3> QED  BY <1>2, <1>4, <2>4, <3>1 DEF AddClient
  <2>5. ASSUME NEW h \in Handles, RecvData(h)  PROVE Goal
    <3>1. PICK q : q = csock[h]
      OBVIOUS
    <3>2. PICK n \in 1 .. Len(inq[q]) :
            /\ cin' = [cin EXCEPT ![h] = @ \o SubSeq(inq[q], 1, n)]
            /\ inq' = [inq EXCEPT ![q] = SubSeq(@, n + 1, Len(@))]
            /\ UNCHANGED typed
      BY <2>5, <3>1 DEF RecvData
    <3>3. h \in Clients
      BY <2>5 DEF RecvData, ReadSocket, Inv, LoopsOK
    <3>4. CASE h # g
      BY <1>1, <1>2, <1>4, <3>1, <3>2, <3>3, <3>4
    <3>5. CASE h = g
      <4>1. PICK s, t : s = inq[p] /\ t = cin[g]
        OBVIOUS
      <4>2. s \in Seq(Line) /\ t \in Seq(Line) /\ n \in 1 .. Len(s)
        BY <1>1, <1>2, <3>1, <3>2, <3>5, <4>1
      <4>3. /\ cin'[g] = t \o SubSeq(s, 1, n)
            /\ inq'[p] = SubSeq(s, n + 1, Len(s))
        BY <1>1, <1>2, <3>1, <3>2, <3>5, <4>1
      <4>4. /\ SubSeq(s, 1, n) \in Seq(Line) /\ Len(SubSeq(s, 1, n)) = n
            /\ Len(SubSeq(s, n + 1, Len(s))) = Len(s) - n
        BY <4>2
      <4>5. Len(t \o SubSeq(s, 1, n)) = Len(t) + n
        BY <4>2, <4>4, ConcatProperties
      <4>6. PICK a, b, c : a = typed[p] /\ b = Len(s) /\ c = Len(t)
        OBVIOUS
      <4>7. a \in Nat /\ b \in Nat /\ c \in Nat /\ n \in 1 .. b
        BY <1>3, <4>1, <4>2, <4>6
      <4>8. Len(cin'[g]) = c + n /\ Len(inq'[p]) = b - n
        BY <4>3, <4>4, <4>5, <4>6
      <4>9. a + b + c = a + (b - n) + (c + n)
        BY <4>7
      <4> QED  BY <3>2, <4>1, <4>6, <4>8, <4>9
    <3> QED  BY <3>4, <3>5
  <2> QED  BY <1>6, <2>1, <2>2, <2>3, <2>4, <2>5 DEF PollStep
<1>7. CASE UpdateStep
  <2>1. PICK h \in Handles : CreateUser(h) \/ RemoveUser(h)
    BY <1>7 DEF UpdateStep, TakesAndAnswers, Serves
  <2> QED  BY <1>4, <2>1 DEF CreateUser, RemoveUser, socketVars
<1>8. CASE EndFlush \/ EndUpdate \/ EndReap
  BY <1>4, <1>8 DEF EndFlush, EndUpdate, EndReap, socketVars
<1> QED  BY <1>3, <1>5, <1>6, <1>7, <1>8 DEF Next, ServerStep


(* A connection whose user is still to be made is open, ...                *)
LEMMA NotYetOpen == (Inv => \A p \in Peers : NotYet(p) => sock[p] # "closed")'
<1>1. Inv => \A p \in Peers : NotYet(p) => sock[p] # "closed"
  BY DEF NotYet, Unmet, Clients, Inv, SocketsAccounted, HasDescriptor
<1> QED  BY <1>1, PTL

(* ... so what it typed is still in the kernel, ...                        *)
LEMMA NotYetUntaken ==
  ASSUME Inv, Inv', Next, Untaken, NEW p \in Peers, NotYet(p)'
  PROVE  typed'[p] = Len(inq'[p])
<1>1. NotYet(p) /\ typed[p] = Len(inq[p]) /\ sock'[p] # "closed"
  BY NotYetStep, NotYetOpen DEF Untaken
<1>2. /\ typed \in [Peers -> Nat] /\ inq \in [Peers -> Seq(Line)]
      /\ sock \in [Peers -> SockStates] /\ backlog \in Seq(Peers)
  BY DEF Inv, TypeOK, SocketTypeOK
<1>3. typed'[p] = typed[p] /\ inq'[p] = inq[p] => typed'[p] = Len(inq'[p])
  BY <1>1
<1>4. CASE PeerStep
  <2>1. ASSUME NEW i \in DOMAIN backlog, Abort(i)  PROVE typed'[p] = Len(inq'[p])
    <3>1. backlog[i] \in Peers
      BY <1>2
    <3>2. /\ inq' = [inq EXCEPT ![backlog[i]] = <<>>] /\ UNCHANGED typed
          /\ sock' = [sock EXCEPT ![backlog[i]] = "closed"]
      BY <2>1 DEF Abort
    <3> QED  BY <1>1, <1>2, <1>3, <3>1, <3>2
  <2>2. ASSUME NEW q \in Peers, NEW l \in Line, Type(q, l)
        PROVE  typed'[p] = Len(inq'[p])
    <3>1. CASE q # p
      BY <1>2, <1>3, <2>2, <3>1 DEF Type
    <3>2. CASE q = p
      <4>1. Len(Append(inq[p], l)) = Len(inq[p]) + 1
        BY <1>2, AppendProperties
      <4> QED  BY <1>1, <1>2, <2>2, <3>2, <4>1 DEF Type
    <3> QED  BY <3>1, <3>2
  <2> QED  BY <1>3, <1>4, <2>1, <2>2 DEF PeerStep, Connect, Close, Reset
<1>5. CASE PollStep
  <2>1. CASE Sweep \/ Refuse
    BY <1>1, <1>3, <2>1 DEF Sweep, Refuse, CloseSockets
  <2>2. ASSUME NEW h \in Handles, RecvData(h)  PROVE typed'[p] = Len(inq'[p])
    <3>1. h \in Clients /\ ~Unmet(h)
      BY <2>2 DEF RecvData, ReadSocket, Unmet, Inv, LoopsOK
    <3>2. csock[h] # p
      BY <1>1, <3>1, MetClient
    <3>3. inq'[p] = inq[p] /\ UNCHANGED typed
      <4>1. PICK q, n : inq' = [inq EXCEPT ![q] = SubSeq(@, n + 1, Len(@))] /\ q # p
        BY <2>2, <3>2 DEF RecvData
      <4> QED  BY <1>2, <2>2, <4>1 DEF RecvData
    <3> QED  BY <1>3, <3>3
  <2> QED  BY <1>3, <1>5, <2>1, <2>2
           DEF PollStep, Listen, ListenFails, Poll, PollFails, AcceptFails,
               RefuseKilled, EndRecv, ReadFreedBucket, AddClient, RecvNothing,
               RecvEnd, FlushSome, FlushFails, FlushKilled, socketVars
<1>6. CASE UpdateStep
  BY <1>3, <1>6 DEF UpdateStep, LoginRefused, Login, Answered, Whisper, Say, AskExit,
     ConfirmExit, CancelExit, CreateUser, RemoveUser, socketVars
<1>7. CASE EndFlush \/ EndUpdate \/ EndReap
  BY <1>3, <1>7 DEF EndFlush, EndUpdate, EndReap, socketVars
<1> QED  BY <1>4, <1>5, <1>6, <1>7 DEF Next, ServerStep

(* ... and its client has received none of it.                             *)
LEMMA LineTaken ==
  ASSUME Inv, NEW h \in Handles, TakesAndAnswers(h) \/ ConfirmExit(h)
  PROVE  \E u \in Users :
           /\ from_handle[h] = u /\ user[u].handle = h
           /\ cin[h] # <<>> /\ cin' = [cin EXCEPT ![h] = Tail(@)]
           /\ UNCHANGED <<inq, typed, from_handle>>
           /\ \A v \in Users : user'[v].handle = user[v].handle
<1>1. ASSUME NEW u \in Peers, NEW state, GetLine(h, u, state)
      PROVE  /\ u \in Users /\ from_handle[h] = u /\ user[u].handle = h
             /\ cin[h] # <<>> /\ cin' = [cin EXCEPT ![h] = Tail(@)]
  BY <1>1, RemovesOwnClient DEF GetLine
<1>2. \E u \in Peers : \E state : GetLine(h, u, state)
  BY DEF TakesAndAnswers, Serves, LoginRefused, Login, Answered, Whisper, Say, AskExit,
         CancelExit, ConfirmExit
<1>3. UNCHANGED <<inq, typed, from_handle>>
  BY DEF TakesAndAnswers, Serves, LoginRefused, Login, Answered, Whisper, Say, AskExit,
         CancelExit, ConfirmExit, socketVars, appVars
<1>4. \A v \in Users : user'[v].handle = user[v].handle
  <2>1. UNCHANGED user \/ Login(h) \/ AskExit(h) \/ CancelExit(h)
    BY DEF TakesAndAnswers, Serves, LoginRefused, Answered, Whisper, Say, ConfirmExit, appVars
  <2>2. \A v \in Users : v \in Peers
    BY UserFacts
  <2> QED  BY <2>1, <2>2, LineStep
<1> QED  BY <1>1, <1>2, <1>3, <1>4

LEMMA UntakenStep ==
  ASSUME Inv, Inv', Next, Untaken
  PROVE  Untaken'
<1>1. \A p \in Peers : NotYet(p)' => typed'[p] = Len(inq'[p])
  BY NotYetUntaken
<1>2. ASSUME NEW h \in Handles, Unmet(h)'  PROVE cin'[h] = <<>>
  <2>0. cin \in [Handles -> Seq(Line)]
    BY DEF Inv, TypeOK, NetTypeOK
  <2>1. CASE AddClient(h)
    BY <2>0, <2>1 DEF AddClient
  <2> SUFFICES ASSUME ~AddClient(h)  PROVE cin'[h] = <<>>
    BY <2>1
  <2>2. Unmet(h) /\ cin[h] = <<>>
    BY <1>2, UnmetStep DEF Untaken
  <2>3. CASE UNCHANGED cin \/ Sweep
    BY <2>2, <2>3 DEF Sweep
  <2>4. ASSUME NEW g \in Handles, AddClient(g)  PROVE cin'[h] = <<>>
    BY <2>0, <2>2, <2>4 DEF AddClient
  <2>5. ASSUME NEW g \in Handles, RecvData(g)  PROVE cin'[h] = <<>>
    <3>1. g # h
      BY <2>2, <2>5 DEF RecvData, ReadSocket, Unmet, Inv, LoopsOK
    <3>2. \E lines : cin' = [cin EXCEPT ![g] = @ \o lines]
      BY <2>5 DEF RecvData
    <3> QED  BY <2>0, <2>2, <3>1, <3>2
  <2>6. ASSUME NEW g \in Handles, TakesAndAnswers(g) \/ ConfirmExit(g)
        PROVE  cin'[h] = <<>>
    <3>1. PICK u \in Users : /\ from_handle[g] = u
                             /\ cin' = [cin EXCEPT ![g] = Tail(@)]
      BY <2>6, LineTaken
    <3>2. g # h
      BY <2>2, <3>1 DEF Unmet, Users
    <3> QED  BY <2>0, <2>2, <3>1, <3>2
  <2>7. CASE PollStep
    BY <2>3, <2>4, <2>5, <2>7
       DEF PollStep, Listen, ListenFails, Poll, PollFails, AcceptFails, Refuse,
           RefuseKilled, EndRecv, ReadFreedBucket, RecvNothing, RecvEnd, FlushSome,
           FlushFails, FlushKilled
  <2>8. CASE UpdateStep
    BY <2>3, <2>6, <2>8 DEF UpdateStep, TakesAndAnswers, Serves, CreateUser, RemoveUser
  <2>9. CASE (PeerStep /\ UNCHANGED <<netVars, appVars>>)
             \/ EndFlush \/ EndUpdate \/ EndReap
    BY <2>3, <2>9 DEF EndFlush, EndUpdate, EndReap, netVars
  <2> QED  BY <2>7, <2>8, <2>9 DEF Next, ServerStep
<1> QED  BY <1>1, <1>2 DEF Untaken


LEMMA PhaseBefore ==
  ASSUME Inv, Next, pc' \in Phases
  PROVE  pc \in Phases
<1>1. CASE PollStep
  BY <1>1 DEF PollStep, Listen, ListenFails, Sweep, Poll, PollFails, AcceptFails, Refuse,
     RefuseKilled, EndRecv, ReadFreedBucket, AddClient, RecvData, RecvNothing, RecvEnd,
     FlushSome, FlushFails, FlushKilled, Phases
<1>2. CASE UpdateStep
  BY <1>2 DEF Phases, UpdateStep, LoginRefused, Login, Answered, Whisper, Say, AskExit,
     ConfirmExit, CancelExit, CreateUser, RemoveUser, GetLine
<1>3. CASE EndFlush \/ EndUpdate \/ EndReap
  BY <1>3 DEF EndFlush, EndUpdate, EndReap, Phases
<1>4. CASE UNCHANGED netVars
  BY <1>4 DEF netVars
<1> QED  BY <1>1, <1>2, <1>3, <1>4 DEF Next, ServerStep

(* A client that is to be removed is not kept.                             *)
LEMMA RemovedStays ==
  ASSUME Inv, Next, pc \in Phases, NEW u \in Users,
         cstate'[user[u].handle] # "removed"
  PROVE  cstate[user[u].handle] # "removed"
<1> DEFINE g == user[u].handle
<1>1. g \in Clients /\ g \in Handles /\ from_handle[g] # NoPeer
  BY UserFacts, SocketsAssumption
<1>2. cstate \in [Handles -> ClientStates]
  BY DEF Inv, TypeOK, NetTypeOK
<1>3. CASE UNCHANGED cstate
  BY <1>3
<1>4. CASE Sweep
  <2>1. HasUser(g) <=> from_handle[g] # NoPeer
    BY <1>1 DEF Inv, ClientHasUser
  <2>2. pc = "sweep"
    BY <1>4 DEF Sweep
  <2> QED  BY <1>1, <2>1, <2>2 DEF HasUser
<1>5. ASSUME NEW h \in Handles, AddClient(h)  PROVE cstate[g] # "removed"
  <2>1. h # g
    BY <1>1, <1>5 DEF AddClient, LowestFree
  <2> QED  BY <1>1, <1>2, <1>5, <2>1 DEF AddClient
<1>6. ASSUME NEW h \in Handles, RecvEnd(h) \/ ConfirmExit(h)
      PROVE  cstate[g] # "removed"
  BY <1>1, <1>2, <1>6, MarkStep
<1>7. CASE UNCHANGED tables
  BY <1>3, <1>7 DEF tables
<1>8. ASSUME NEW h \in Handles,
             Login(h) \/ AskExit(h) \/ CancelExit(h) \/ CreateUser(h) \/ RemoveUser(h)
      PROVE  cstate[g] # "removed"
  BY <1>3, <1>8 DEF Login, AskExit, CancelExit, CreateUser, RemoveUser
<1> QED  BY <1>4, <1>5, <1>6, <1>7, <1>8, TableSteps

(* The balance of one user: greeted once, and answered for what was taken. *)
Balance(replies, lines, kernel, client) == replies = 1 + lines - kernel - client

Balanced(u) ==
  Balance(Count(Stream(u)), typed[u], Len(inq[u]), Len(cin[user[u].handle]))

LEMMA OneForOne ==
  ASSUME NEW r, NEW l \in Nat, NEW k \in Nat, NEW c \in Nat, Balance(r, l, k, c)
  PROVE  Balance(r + 1, l, k, c - 1)
BY DEF Balance

LEMMA EveryLineIs ==
  EveryLineAnswered
    <=> (pc \in Phases => \A u \in Users : cstate[user[u].handle] # "removed" => Balanced(u))
BY DEF EveryLineAnswered, Balanced, Balance, Count

LEMMA AnsweredBalanced ==
  ASSUME RoomInv, RoomInv', Next, NEW h \in Handles,
         TakesAndAnswers(h) \/ ConfirmExit(h),
         NEW u \in Users, Balanced(u),
         pc' \in Phases, cstate'[user'[u].handle] # "removed"
  PROVE  Balanced(u)'
<1> USE DEF RoomInv
<1>1. PICK v \in Users :
        /\ from_handle[h] = v /\ user[v].handle = h
        /\ cin[h] # <<>> /\ cin' = [cin EXCEPT ![h] = Tail(@)]
        /\ UNCHANGED <<inq, typed, from_handle>>
        /\ \A w \in Users : user'[w].handle = user[w].handle
  BY LineTaken
<1>2. /\ u \in Peers /\ user[u].handle \in Handles /\ user'[u].handle = user[u].handle
      /\ user[u].handle = h => u = v
  BY <1>1, UserFacts
<1>3. /\ cin \in [Handles -> Seq(Line)] /\ typed[u] \in Nat /\ Len(inq[u]) \in Nat
      /\ Len(cin[user[u].handle]) \in Nat /\ Count(Stream(u)) \in Nat
  <2>1. cin \in [Handles -> Seq(Line)] /\ typed[u] \in Nat /\ inq[u] \in Seq(Line)
    BY <1>2 DEF Inv, TypeOK, NetTypeOK, SocketTypeOK
  <2>2. Count(Stream(u)) \in Nat
    <3>1. Stream(u) \in Seq(Msg) /\ Plain("greeting") \in Msg
      BY <1>2, StreamType, MsgType DEF ReplyKinds
    <3> QED  BY <3>1, CountOneMore
  <2> QED  BY <1>2, <2>1, <2>2, LenProperties
<1>4. CASE u # v
  <2>1. Count(Stream(u)') = Count(Stream(u))
    <3>1. CASE TakesAndAnswers(h)
      BY <1>1, <1>2, <1>4, <3>1, AnswerCounts DEF OneReplyTo
    <3>2. CASE ConfirmExit(h)
      <4>1. PICK w \in Users : PartsWith(h, w)
        BY <3>2, ConfirmExitSays
      <4>2. Stream(u)' = Stream(u)
        BY <1>1, <1>2, <1>4, <4>1 DEF PartsWith
      <4> QED  BY <4>2
    <3> QED  BY <3>1, <3>2
  <2>2. cin'[user[u].handle] = cin[user[u].handle]
    BY <1>1, <1>2, <1>3, <1>4
  <2> QED  BY <1>1, <1>2, <2>1, <2>2 DEF Balanced, Balance, Count
<1>5. CASE u = v
  <2>1. TakesAndAnswers(h)
    <3> SUFFICES ASSUME ConfirmExit(h)  PROVE FALSE
      OBVIOUS
    <3>1. RemoveClient(h)
      BY <1>1, RemovesOwnClient DEF ConfirmExit, GetLine
    <3>2. pc' = "sigpipe" \/ MarkRemoved(h)
      BY <3>1 DEF RemoveClient
    <3>3. pc' # "sigpipe"
      BY DEF Phases
    <3>4. cstate'[h] = "removed"
      BY <3>2, <3>3 DEF MarkRemoved, Inv, TypeOK, NetTypeOK
    <3> QED  BY <1>1, <1>2, <1>5, <3>4
  <2>2. Count(Stream(u)') = Count(Stream(u)) + 1
    BY <1>1, <1>2, <1>5, <2>1, AnswerCounts DEF OneReplyTo
  <2>3. Len(cin'[user[u].handle]) = Len(cin[user[u].handle]) - 1
    <3>1. PICK s : s = cin[h]
      OBVIOUS
    <3>2. s \in Seq(Line) /\ s # <<>> /\ cin'[h] = Tail(s)
      BY <1>1, <1>3, <3>1
    <3>3. Len(Tail(s)) = Len(s) - 1
      BY <3>2
    <3> QED  BY <1>1, <1>5, <3>1, <3>2, <3>3
  <2>4. Balance(Count(Stream(u)'), typed[u], Len(inq[u]), Len(cin'[user[u].handle]))
    BY <1>3, <2>2, <2>3, OneForOne DEF Balanced
  <2> QED  BY <1>1, <1>2, <2>4 DEF Balanced, Count
<1> QED  BY <1>4, <1>5

LEMMA GreetedBalanced ==
  ASSUME RoomInv, RoomInv', Next, Untaken, NEW h \in Handles, CreateUser(h),
         NEW u \in Users', u \notin Users
  PROVE  Balanced(u)'
<1> USE DEF RoomInv
<1>1. PICK v \in Peers : Greets(h, v)
  BY CreateUserGreets
<1>2. u = v /\ user'[u].handle = h /\ NotYet(u) /\ Stream(u)' = <<Plain("greeting")>>
  BY <1>1 DEF Greets
<1>3. typed[u] = Len(inq[u]) /\ cin[h] = <<>>
  <2>1. Unmet(h)
    BY FreshUser DEF CreateUser, Unmet
  <2> QED  BY <1>1, <1>2, <2>1 DEF Untaken
<1>4. UNCHANGED <<typed, inq, cin>>
  BY DEF CreateUser, socketVars
<1>5. Count(<<Plain("greeting")>>) = 1
  <2>1. Replies(<<Plain("greeting")>>) = {1}
    BY DEF Replies, Notice, NoticeKinds, Plain, M
  <2> QED  BY <2>1, FS_Singleton DEF Count
<1>6. typed[u] \in Nat /\ Len(<<>>) = 0
  BY <1>1, <1>2 DEF Inv, TypeOK, SocketTypeOK
<1> QED  BY <1>2, <1>3, <1>4, <1>5, <1>6 DEF Balanced, Balance, Count

(* A user keeps its client, and who becomes a user is created.             *)
LEMMA HandleKept ==
  ASSUME Inv, Next, NEW u \in Users
  PROVE  user'[u].handle = user[u].handle
<1>1. u \in Peers
  BY UserFacts
<1>2. ASSUME NEW h \in Handles, CreateUser(h)  PROVE user'[u] = user[u]
  <2>1. csock[h] # u /\ user' = [user EXCEPT ![csock[h]] =
                         [handle |-> h, username |-> NoName, state |-> "login"]]
    BY <1>2, FreshUser DEF CreateUser
  <2> QED  BY <1>1, <2>1 DEF Inv, TypeOK, AppTypeOK
<1>3. ASSUME NEW h \in Handles, RemoveUser(h)  PROVE user'[u].handle = user[u].handle
  <2>1. PICK v \in Peers : RemoveUser(h)!(v)
    BY <1>3 DEF RemoveUser
  <2> QED  BY <1>1, <2>1 DEF Inv, TypeOK, AppTypeOK
<1> QED  BY <1>1, <1>2, <1>3, TableSteps, LineStep DEF tables, appVars, ConfirmExit

LEMMA UsersAreCreated ==
  ASSUME RoomInv, RoomInv', Next, NEW u \in Users', u \notin Users
  PROVE  \E h \in Handles : CreateUser(h)
<1>1. ASSUME NEW h \in Handles, TakesAndAnswers(h) \/ ConfirmExit(h)  PROVE FALSE
  <2>1. UNCHANGED from_handle
    BY <1>1, LineTaken DEF RoomInv
  <2> QED  BY <2>1 DEF Users
<1>2. ASSUME NEW h \in Handles, RemoveUser(h)  PROVE FALSE
  BY <1>2, RemoveUserDeparts DEF Departed, RoomInv
<1> QED  BY <1>1, <1>2, PollIsSilent
         DEF UpdateStep, TakesAndAnswers, Serves, Silent, Cut, Refused, SamePeople

LEMMA OtherBalanced ==
  ASSUME RoomInv, RoomInv', Next,
         \A h \in Handles : ~TakesAndAnswers(h) /\ ~ConfirmExit(h),
         NEW u \in Users, u \in Users', Balanced(u),
         cstate[user[u].handle] # "removed"
  PROVE  Balanced(u)'
<1> USE DEF RoomInv
<1>1. /\ u \in Peers /\ user[u].handle \in Clients /\ csock[user[u].handle] = u
  BY UserFacts
<1>3. user'[u].handle = user[u].handle
  BY HandleKept
<1>4. Count(Stream(u)') = Count(Stream(u))
  <2>1. CASE Silent \/ Cut \/ Refused
    <3>1. Stream(u)' = Stream(u)
      BY <1>1, <2>1 DEF Silent, Calm, Cut, Refused
    <3> QED  BY <3>1
  <2>2. ASSUME NEW h \in Handles, CreateUser(h)
        PROVE  Count(Stream(u)') = Count(Stream(u))
    <3>1. PICK v \in Peers : Greets(h, v)
      BY <2>2, CreateUserGreets
    <3>2. Stream(u)' = Stream(u)
      BY <1>1, <3>1 DEF Greets
    <3> QED  BY <3>2
  <2>3. ASSUME NEW h \in Handles, RemoveUser(h)
        PROVE  Count(Stream(u)') = Count(Stream(u))
    <3>1. PICK v, n : Departed(v, n)
      BY <2>3, RemoveUserDeparts
    <3>2. PICK m : m = M("left", n, NoName)
      OBVIOUS
    <3>3. m \in Msg /\ Notice(m) /\ Spoken(InChat \ {v}, m)
      BY <3>1, <3>2, MsgType DEF Departed, Notice, NoticeKinds, M
    <3> QED  BY <1>1, <3>3, SpokenCount
  <2>4. CASE UpdateStep
    BY <2>2, <2>3, <2>4 DEF UpdateStep, TakesAndAnswers, Serves
  <2> QED  BY <2>1, <2>4, PollIsSilent
<1>5. PICK g : g = user[u].handle
  OBVIOUS
<1>6. /\ typed'[u] + Len(inq[u]) + Len(cin[g]) = typed[u] + Len(inq'[u]) + Len(cin'[g])
      /\ typed[u] \in Nat /\ Len(inq[u]) \in Nat /\ Len(cin[g]) \in Nat
  BY <1>1, <1>5, InputOnItsWay
<1>7. typed'[u] \in Nat /\ Len(inq'[u]) \in Nat /\ Len(cin'[g]) \in Nat
  <2>1. g \in Handles
    BY <1>1, <1>5 DEF Clients
  <2>2. typed'[u] \in Nat /\ inq'[u] \in Seq(Line) /\ cin'[g] \in Seq(Line)
    BY <1>1, <2>1 DEF Inv, TypeOK, NetTypeOK, SocketTypeOK
  <2> QED  BY <2>2, LenProperties
<1>8. 1 + typed'[u] - Len(inq'[u]) - Len(cin'[g]) = 1 + typed[u] - Len(inq[u]) - Len(cin[g])
  <2>1. PICK a, b, c : a = typed[u] /\ b = Len(inq[u]) /\ c = Len(cin[g])
    OBVIOUS
  <2>2. PICK x, y, z : x = typed'[u] /\ y = Len(inq'[u]) /\ z = Len(cin'[g])
    OBVIOUS
  <2>3. /\ a \in Nat /\ b \in Nat /\ c \in Nat /\ x + b + c = a + y + z
        /\ x \in Nat /\ y \in Nat /\ z \in Nat
    BY <1>6, <1>7, <2>1, <2>2
  <2>4. 1 + x - y - z = 1 + a - b - c
    BY <2>3
  <2> QED  BY <2>1, <2>2, <2>4
<1> QED  BY <1>3, <1>4, <1>5, <1>8 DEF Balanced, Balance, Count

LEMMA EveryLineStep ==
  ASSUME RoomInv, RoomInv', Next, Untaken, EveryLineAnswered
  PROVE  EveryLineAnswered'
<1> USE DEF RoomInv
<1>1. SUFFICES ASSUME pc' \in Phases, NEW u \in Users', cstate'[user'[u].handle] # "removed"
               PROVE  Balanced(u)'
  BY DEF EveryLineAnswered, Balanced, Balance, Count
<1>2. pc \in Phases
  BY <1>1, PhaseBefore
<1>3. CASE u \notin Users
  <2>1. PICK h \in Handles : CreateUser(h)
    BY <1>3, UsersAreCreated
  <2> QED  BY <1>3, <2>1, GreetedBalanced
<1>4. CASE u \in Users
  <2>1. user'[u].handle = user[u].handle
    BY <1>4, HandleKept
  <2>2. cstate[user[u].handle] # "removed"
    BY <1>1, <1>2, <1>4, <2>1, RemovedStays
  <2>3. Balanced(u)
    BY <1>2, <1>4, <2>2, EveryLineIs
  <2> QED  BY <1>1, <1>4, <2>2, <2>3, AnsweredBalanced, OtherBalanced
<1> QED  BY <1>3, <1>4


LEMMA InitAnswered == Init => Untaken /\ EveryLineAnswered
<1> SUFFICES ASSUME Init  PROVE Untaken /\ EveryLineAnswered
  OBVIOUS
<1>1. Users = {}
  BY DEF Users, Init, AppInit
<1>2. Untaken
  BY DEF Untaken, Init, SocketInit, NetInit, Unmet
<1> QED  BY <1>1, <1>2 DEF EveryLineAnswered

LEMMA StepAnswered ==
  RoomInv /\ Untaken /\ EveryLineAnswered /\ [Next]_vars
    => (Untaken /\ EveryLineAnswered)'
<1> SUFFICES ASSUME RoomInv, Untaken, EveryLineAnswered, [Next]_vars
             PROVE  Untaken' /\ EveryLineAnswered'
  OBVIOUS
<1>1. RoomInv'
  BY StepRoomInv
<1>2. CASE Next
  BY <1>1, <1>2, UntakenStep, EveryLineStep DEF RoomInv
<1>3. CASE UNCHANGED vars
  <2>1. UNCHANGED <<socketVars, netVars, appVars>>
    BY <1>3 DEF vars
  <2>2. Untaken'
    BY <2>1 DEF socketVars, netVars, appVars, Untaken, NotYet, Waiting, Unmet
  <2>3. Calm /\ Users' = Users
    BY <2>1, SameQueues, SameTables DEF socketVars, netVars, Clients, SamePeople
  <2>4. \A u \in Users : u \in Peers
    BY UserFacts DEF RoomInv
  <2>5. EveryLineAnswered'
    BY <2>1, <2>3, <2>4
       DEF socketVars, netVars, appVars, EveryLineAnswered, Calm
  <2> QED  BY <2>2, <2>5
<1> QED  BY <1>2, <1>3

-----------------------------------------------------------------------------
LEMMA NextFollowed ==
  (Inv => (Followed <=> /\ QuietOutsideChat /\ PresenceCoherent
                        /\ Welcomed /\ UpToDate))'
BY FollowedIs, PTL

LEMMA InitStreamInv == Init => StreamInv
<1> SUFFICES ASSUME Init  PROVE StreamInv
  OBVIOUS
<1>1. RoomInv /\ Inv
  BY InitRoomInv DEF RoomInv
<1>2. QuietOutsideChat /\ PresenceCoherent /\ Welcomed /\ UpToDate
  BY <1>1, InitStreams, FollowedIs
<1> QED  BY <1>1, <1>2, InitStreams, InitAnswered DEF StreamInv

LEMMA StepStreamInv == StreamInv /\ [Next]_vars => StreamInv'
<1> SUFFICES ASSUME StreamInv, [Next]_vars  PROVE StreamInv'
  OBVIOUS
<1>1. /\ RoomInv /\ Untaken /\ EveryLineAnswered /\ LastWord /\ GoodbyeIsLast
      /\ Welcomed /\ QuietOutsideChat /\ UpToDate /\ PresenceCoherent
  BY DEF StreamInv
<1>2. RoomInv' /\ Inv /\ Inv'
  BY <1>1, StepRoomInv DEF RoomInv
<1>3. Followed'
  BY <1>1, <1>2, FollowedIs, StepFollowed
<1>4. (Untaken /\ EveryLineAnswered /\ LastWord /\ GoodbyeIsLast)'
  BY <1>1, StepAnswered, StepLastWord
<1>5. (QuietOutsideChat /\ PresenceCoherent /\ Welcomed /\ UpToDate)'
  BY <1>2, <1>3, NextFollowed
<1> QED  BY <1>2, <1>4, <1>5 DEF StreamInv

(* The tables, the lines taken and the streams agree at every moment.      *)
THEOREM StreamInvHolds == Spec => []StreamInv
BY InitStreamInv, StepStreamInv, PTL DEF Spec

(* Every line the server takes gets one reply, and every user one          *)
(* greeting, for any peers, scripts, faults and reuse of descriptors.      *)
THEOREM EachLineAnsweredOnce == Spec => []EveryLineAnswered
<1>1. StreamInv => EveryLineAnswered
  BY DEF StreamInv
<1> QED  BY <1>1, StreamInvHolds, PTL

(* After goodbye nothing more is sent.                                     *)
THEOREM GoodbyeComesLast == Spec => []GoodbyeIsLast
<1>1. StreamInv => GoodbyeIsLast
  BY DEF StreamInv
<1> QED  BY <1>1, StreamInvHolds, PTL

(* Nobody hears of the others before it is welcomed or after it was asked  *)
(* whether it wants to exit, ...                                           *)
THEOREM NoticesKeptToTheChat == Spec => []QuietOutsideChat
<1>1. StreamInv => QuietOutsideChat
  BY DEF StreamInv
<1> QED  BY <1>1, StreamInvHolds, PTL

(* ... and what anybody reads of a name in between makes sense.            *)
THEOREM PresenceIsCoherent == Spec => []PresenceCoherent
<1>1. StreamInv => PresenceCoherent
  BY DEF StreamInv
<1> QED  BY <1>1, StreamInvHolds, PTL

(* However little of it send() takes, what is queued for a user is handed  *)
(* over once and in order: a flush changes no stream, and until the client *)
(* is being removed any other step at most queues something at the end.    *)
THEOREM StreamsAreKept == Spec => StreamKept
<1> DEFINE Kept ==
      /\ pc = "flush" => \A p \in Peers : Stream(p)' = Stream(p)
      /\ \A u \in Users :
           (\A h \in Clients : csock[h] = u => cstate'[h] # "removed") =>
             \/ Stream(u)' = Stream(u)
             \/ /\ pc \in {"update", "reap"}
                /\ sent'[u] = sent[u]
                /\ IsPrefix(Stream(u), Stream(u)')
<1>1. RoomInv /\ RoomInv' /\ [Next]_vars => [Kept]_vars
  BY StepKeeps, FlushKeeps
<1> QED  BY <1>1, RoomInvHolds, PTL DEF Spec, StreamKept

=============================================================================
