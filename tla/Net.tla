-------------------------------- MODULE Net --------------------------------
(***************************************************************************)
(* src/net.c: the table of clients and one call of ac_server_poll, cut at  *)
(* every system call, because peers and kernel act between them.  The      *)
(* process has one thread; pc says where it is.                            *)
(*                                                                         *)
(* The hash map server->clients is a function from descriptors.  That it   *)
(* behaves as one needs two facts.  Descriptors never share a bucket       *)
(* (HandlesDistinct in ServerProofs).  And ac_map_foreach reads only live  *)
(* buckets, which stops being true once the map has grown: grown and       *)
(* ReadFreedBucket model what follows.                                     *)
(***************************************************************************)
EXTENDS Sockets, FiniteSets

CONSTANTS
  AC_CLIENTS_MAX,  \* most clients, and the buckets a map starts with
  FirstFd          \* the lowest descriptor the kernel has free at startup

ASSUME NetAssumption ==
  /\ AC_CLIENTS_MAX \in Nat \ {0}
  /\ FirstFd \in Nat

VARIABLES
  pc,      \* what the thread does next, or how the process ended
  todo,    \* descriptors the loop at pc has not visited yet
  cstate,  \* ac_client_t.state, "none" for a descriptor not in the map
  csock,   \* the connection behind ac_client_t.conn
  cin,     \* ac_client_t.in, as the lines received and not consumed
  cout,    \* ac_client_t.out, as the messages queued and not sent
  grown    \* the maps keyed by descriptor that have been re-hashed

netVars == <<pc, todo, cstate, csock, cin, cout, grown>>

(* The kernel hands out the lowest free descriptor, so clients never need  *)
(* more than these.                                                        *)
Handles == FirstFd .. FirstFd + AC_CLIENTS_MAX - 1

Phases == {"start", "sweep", "poll", "accept", "recv", "flush", "update", "reap"}

(* exit: exit(EXIT_FAILURE).  sigpipe: killed in send().  segv: killed     *)
(* while reading a freed bucket.  That no lookup fails in an assert() is   *)
(* AssertsHold in Server.                                                  *)
Ends == {"exit", "sigpipe", "segv"}

ClientStates == {"none", "new", "online", "removed"}

Clients == {h \in Handles : cstate[h] # "none"}

NetInit ==
  /\ pc = "start"
  /\ todo = {}
  /\ cstate = [h \in Handles |-> "none"]
  /\ csock = [h \in Handles |-> NoPeer]
  /\ cin = [h \in Handles |-> <<>>]
  /\ cout = [h \in Handles |-> <<>>]
  /\ grown = {}

(* ac_map_foreach goes through the buckets in order.                       *)
Bucket(map, h) ==
  h % (IF map \in grown THEN 2 * AC_CLIENTS_MAX ELSE AC_CLIENTS_MAX)

Visit(map, h) ==
  /\ h \in todo
  /\ \A g \in todo : Bucket(map, h) <= Bucket(map, g)
  /\ todo' = todo \ {h}

(* ac_server_poll reads the sockets in the order of its own array.         *)
ReadSocket(h) == h \in todo /\ todo' = todo \ {h}

(* ac_map_set doubles the buckets when half of them are populated.         *)
Grow(map, size) ==
  grown' = IF size = AC_CLIENTS_MAX \div 2 THEN grown \cup {map} ELSE grown

(* Definitions named ...Wrong are slips in the code that the properties of *)
(* Server and Streams must notice; no specification uses them.             *)

CloseWrong(ps) == UNCHANGED <<sock, inq>>

(* close(): what the peers of these connections sent and was not received  *)
(* is lost.                                                                *)
CloseSockets(ps) ==
  /\ sock' = [p \in Peers |-> IF p \in ps THEN "closed" ELSE sock[p]]
  /\ inq' = [p \in Peers |-> IF p \in ps THEN <<>> ELSE inq[p]]

MarkWrong(h) == cstate' = [cstate EXCEPT ![h] = "none"]
MarkNothingWrong(h) == UNCHANGED cstate

(* TO_BE_REMOVED: the next round disconnects the client.                   *)
MarkRemoved(h) == cstate' = [cstate EXCEPT ![h] = "removed"]

UnflushedWrong == {h \in Clients : cout[h] # <<>> /\ cin[h] # <<>>}

Unflushed == {h \in Clients : cout[h] # <<>>}

UnsentWrong(queue, n) == <<>>
UnsentAgainWrong(queue, n) == queue

(* ac_arr_remove_n: what n sent messages leave of a queue.                 *)
Unsent(queue, n) == SubSeq(queue, n + 1, Len(queue))

(***************************************************************************)
(* ac_server_listen                                                        *)
(***************************************************************************)

ModeWrong == {"blocking"}

(* ac_socket_set_blocking answers EXIT_FAILURE when fcntl() fails, and its *)
(* caller looks for -1.                                                    *)
Mode == {"nonblocking"} \cup (IF "fcntl" \in Faults THEN {"blocking"} ELSE {})

Listen ==
  /\ pc = "start"
  /\ pc' = "sweep"
  /\ listener' \in Mode
  /\ UNCHANGED <<sock, backlog, inq, sent, typed, todo, cstate, csock, cin, cout, grown>>

(* socket(), bind() or listen() fails.  So does the start when log.txt,    *)
(* which the first message opens, cannot be opened.                        *)
ListenFails ==
  /\ pc = "start"
  /\ "listen" \in Faults
  /\ pc' = "exit"
  /\ UNCHANGED <<socketVars, todo, cstate, csock, cin, cout, grown>>

(***************************************************************************)
(* ac_server_poll                                                          *)
(***************************************************************************)

(* The first loop: new clients come online and those the last round marked *)
(* are disconnected.  It makes no system call but close().                 *)
Sweep ==
  /\ pc = "sweep"
  /\ pc' = "poll"
  /\ LET gone == {h \in Handles : cstate[h] = "removed"}
     IN  /\ CloseSockets({csock[h] : h \in gone})
         /\ cstate' = [h \in Handles |->
                         IF h \in gone THEN "none"
                         ELSE IF cstate[h] = "new" THEN "online"
                         ELSE cstate[h]]
         /\ csock' = [h \in Handles |-> IF h \in gone THEN NoPeer ELSE csock[h]]
         /\ cin' = [h \in Handles |-> IF h \in gone THEN <<>> ELSE cin[h]]
         /\ cout' = [h \in Handles |-> IF h \in gone THEN <<>> ELSE cout[h]]
  /\ UNCHANGED <<listener, backlog, sent, typed, todo, grown>>

(* poll() reports which sockets have something to read.  With no client    *)
(* its timeout is -1: it returns only when a connection is waiting.        *)
Poll ==
  /\ pc = "poll"
  /\ Clients # {} \/ backlog # <<>>
  /\ LET ready == {h \in Clients : Readable(csock[h])}
     IN  \/ todo' = ready
         \/ /\ "eagain" \in Faults
            /\ \E h \in Clients \ ready : todo' = ready \cup {h}
  /\ pc' = IF backlog # <<>> THEN "accept" ELSE "recv"
  /\ UNCHANGED <<socketVars, cstate, csock, cin, cout, grown>>

PollFails ==
  /\ pc = "poll"
  /\ "poll" \in Faults
  /\ pc' = "exit"
  /\ UNCHANGED <<socketVars, todo, cstate, csock, cin, cout, grown>>

(* ac_handle_conn: accept() returns -1.  With no connection left to accept *)
(* it does so only if the listener does not block.                         *)
AcceptFails ==
  /\ pc = "accept"
  /\ "accept" \in Faults \/ (backlog = <<>> /\ listener = "nonblocking")
  /\ pc' = "recv"
  /\ UNCHANGED <<socketVars, todo, cstate, csock, cin, cout, grown>>

(* ac_handle_conn: the accepted socket cannot be set up, or the server has *)
(* all the clients it takes and says so.                                   *)
Refuse ==
  /\ pc = "accept"
  /\ backlog # <<>>
  /\ pc' = "recv"
  /\ LET p == Head(backlog)
     IN  /\ CloseSockets({p})
         /\ \/ /\ "accept" \in Faults
               /\ UNCHANGED sent
            \/ /\ Cardinality(Clients) = AC_CLIENTS_MAX
               /\ ~SendKills(p)
               /\ sent' = IF Writable(p)
                          THEN [sent EXCEPT ![p] = Append(@, Plain("refused"))]
                          ELSE sent
  /\ backlog' = Tail(backlog)
  /\ UNCHANGED <<listener, typed, todo, cstate, csock, cin, cout, grown>>

(* The refusal goes to a connection that has been reset already.           *)
RefuseKilled ==
  /\ pc = "accept"
  /\ backlog # <<>>
  /\ Cardinality(Clients) = AC_CLIENTS_MAX
  /\ SendKills(Head(backlog))
  /\ pc' = "sigpipe"
  /\ UNCHANGED <<socketVars, todo, cstate, csock, cin, cout, grown>>

LowestFree(h) == h \notin Clients /\ \A g \in Handles : g < h => g \in Clients

(* ac_handle_conn: the connection becomes a client.                        *)
AddClient(h) ==
  /\ pc = "accept"
  /\ backlog # <<>>
  /\ Cardinality(Clients) # AC_CLIENTS_MAX
  /\ LowestFree(h)
  /\ pc' = "recv"
  /\ backlog' = Tail(backlog)
  /\ cstate' = [cstate EXCEPT ![h] = "new"]
  /\ csock' = [csock EXCEPT ![h] = Head(backlog)]
  /\ cin' = [cin EXCEPT ![h] = <<>>]
  /\ cout' = [cout EXCEPT ![h] = <<>>]
  /\ Grow("clients", Cardinality(Clients))
  /\ UNCHANGED <<listener, sock, inq, sent, typed, todo>>

(* recv() returns data: some of the lines that have arrived.               *)
RecvData(h) ==
  /\ pc = "recv"
  /\ ReadSocket(h)
  /\ LET p == csock[h]
     IN  \E n \in 1 .. Len(inq[p]) :
           /\ cin' = [cin EXCEPT ![h] = @ \o SubSeq(inq[p], 1, n)]
           /\ inq' = [inq EXCEPT ![p] = SubSeq(@, n + 1, Len(@))]
  /\ UNCHANGED <<listener, sock, backlog, sent, typed, pc, cstate, csock, cout, grown>>

(* recv() returns EAGAIN: the code logs it and goes on.                    *)
RecvNothing(h) ==
  /\ pc = "recv"
  /\ ReadSocket(h)
  /\ ~Readable(csock[h])
  /\ UNCHANGED <<socketVars, pc, cstate, csock, cin, cout, grown>>

(* recv() returns 0 at the end of the stream, or -1 with the error.        *)
RecvEnd(h) ==
  /\ pc = "recv"
  /\ ReadSocket(h)
  /\ LET p == csock[h]
     IN  /\ inq[p] = <<>>
         /\ sock[p] \in {"fin", "rst", "dead"}
         /\ sock' = [sock EXCEPT ![p] = IF @ = "rst" THEN "dead" ELSE @]
  /\ MarkRemoved(h)
  /\ UNCHANGED <<listener, backlog, inq, sent, typed, pc, csock, cin, cout, grown>>

(* Every reported socket has been read; the last loop flushes what is      *)
(* queued.                                                                 *)
EndRecv ==
  /\ pc = "recv"
  /\ todo = {}
  /\ pc' = "flush"
  /\ todo' = Unflushed
  /\ UNCHANGED <<socketVars, cstate, csock, cin, cout, grown>>

(* send() takes n of the queued messages, which leave the queue.           *)
FlushSome(h) ==
  /\ pc = "flush"
  /\ Visit("clients", h)
  /\ LET p == csock[h]
     IN  /\ Writable(p)
         /\ \E n \in 0 .. Len(cout[h]) :
              /\ "partial" \in Faults \/ n = Len(cout[h])
              /\ sent' = [sent EXCEPT ![p] = @ \o SubSeq(cout[h], 1, n)]
              /\ cout' = [cout EXCEPT ![h] = Unsent(@, n)]
  /\ UNCHANGED <<listener, sock, backlog, inq, typed, pc, cstate, csock, cin, grown>>

(* send() returns -1: the queue is kept.                                   *)
FlushFails(h) ==
  /\ pc = "flush"
  /\ Visit("clients", h)
  /\ SendFails(csock[h])
  /\ sock' = [sock EXCEPT ![csock[h]] = "dead"]
  /\ UNCHANGED <<listener, backlog, inq, sent, typed, pc, cstate, csock, cin, cout, grown>>

FlushKilled(h) ==
  /\ pc = "flush"
  /\ Visit("clients", h)
  /\ SendKills(csock[h])
  /\ pc' = "sigpipe"
  /\ UNCHANGED <<socketVars, cstate, csock, cin, cout, grown>>

(* ac_map_foreach over a map that has grown runs on into the buckets that  *)
(* the re-hash freed.  The behaviour is undefined: either the bytes it     *)
(* finds stop it at once and nothing happens, or the process is killed.    *)
(* Commands and notices go through from_handle too, at any moment of the   *)
(* two loops of ac_app_update.                                             *)
ReadFreedBucket ==
  /\ \/ pc \in {"sweep", "flush", "reap"} /\ todo = {} /\ "clients" \in grown
     \/ pc \in {"update", "reap"} /\ "from_handle" \in grown
  /\ pc' = "segv"
  /\ UNCHANGED <<socketVars, todo, cstate, csock, cin, cout, grown>>

PollStep ==
  \/ Listen \/ ListenFails
  \/ Sweep \/ Poll \/ PollFails
  \/ AcceptFails \/ Refuse \/ RefuseKilled \/ EndRecv \/ ReadFreedBucket
  \/ \E h \in Handles :
       \/ AddClient(h)
       \/ RecvData(h) \/ RecvNothing(h) \/ RecvEnd(h)
       \/ FlushSome(h) \/ FlushFails(h) \/ FlushKilled(h)

(***************************************************************************)
(* The calls the application makes                                         *)
(***************************************************************************)

(* ac_server_send to every client h, of the messages batch[h].             *)
Send(batch) == cout' = [h \in Handles |-> cout[h] \o batch[h]]

(* ac_server_remove_client: says goodbye past the queue and marks the      *)
(* client.  Its send() can fail as any other.                              *)
RemoveClient(h) ==
  LET p == csock[h]
  IN  \/ /\ Writable(p) /\ UNCHANGED <<sock, pc>>
         /\ \/ sent' = [sent EXCEPT ![p] = Append(@, Plain("goodbye"))]
            \/ "partial" \in Faults /\ UNCHANGED sent
         /\ MarkRemoved(h)
      \/ /\ SendFails(p) /\ UNCHANGED <<sent, pc>>
         /\ sock' = [sock EXCEPT ![p] = "dead"]
         /\ MarkRemoved(h)
      \/ /\ SendKills(p) /\ UNCHANGED <<sock, sent, cstate>>
         /\ pc' = "sigpipe"

NetTypeOK ==
  /\ pc \in Phases \cup Ends
  /\ todo \in SUBSET Handles
  /\ cstate \in [Handles -> ClientStates]
  /\ csock \in [Handles -> Peers \cup {NoPeer}]
  /\ cin \in [Handles -> Seq(Line)]
  /\ cout \in [Handles -> Seq(Msg)]
  /\ grown \subseteq {"clients", "from_handle"}

=============================================================================
