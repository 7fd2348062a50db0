------------------------------ MODULE Sockets ------------------------------
(***************************************************************************)
(* The environment of the server: the users' machines (peers) and the      *)
(* kernel's TCP sockets.  None of it is code of the repository; it is      *)
(* modelled from the calls net.c makes: accept, recv, send, close.         *)
(*                                                                         *)
(* A peer stands for ONE connection attempt, so a peer also names the      *)
(* connection, whatever descriptor the kernel later gives it.              *)
(***************************************************************************)
EXTENDS Naturals, Sequences, Messages

CONSTANTS
  Peers,     \* connection attempts; bounds the connections of a behaviour
  NoPeer,    \* no connection (a NULL pointer, an empty slot)
  Lines,     \* bound: Lines[p][k] is what peer p may type as its k-th line
  Faults     \* which failures of the environment may happen

(* accept: accept() or the setup of the accepted socket fails;             *)
(* partial: send() takes only part of the data or none;                    *)
(* eagain: poll() reports data and recv() then finds none;                 *)
(* poll: poll() itself fails; reset: a peer's TCP resets the connection;   *)
(* abort: the kernel drops a connection that was not accepted yet; listen, *)
(* fcntl: the listener cannot be made, or not made non-blocking.           *)
FaultKinds ==
  {"accept", "partial", "eagain", "poll", "reset", "abort", "listen", "fcntl"}

ASSUME SocketsAssumption ==
  /\ NoPeer \notin Peers
  /\ Lines \in [Peers -> Seq(SUBSET Line)]
  /\ Faults \subseteq FaultKinds

VARIABLES
  listener, \* the listening socket: off, blocking or nonblocking
  sock,     \* per connection, the state of its socket
  backlog,  \* connections the listener has not accepted yet, oldest first
  inq,      \* per connection, lines in the kernel the server has not received
  sent,     \* per connection, all the server handed over with send(), in order
  typed     \* per connection, how many lines the peer has typed

socketVars == <<listener, sock, backlog, inq, sent, typed>>

(* idle: not connected yet.  open: established.  fin: the peer closed its   *)
(* end.  rst: the peer's TCP sent a reset, the error is still pending on    *)
(* the socket.  dead: a recv() or send() has returned that error, or the    *)
(* reset followed a fin.  closed: the server closed its descriptor.         *)
SockStates == {"idle", "open", "fin", "rst", "dead", "closed"}

SocketInit ==
  /\ listener = "off"
  /\ sock = [p \in Peers |-> "idle"]
  /\ backlog = <<>>
  /\ inq = [p \in Peers |-> <<>>]
  /\ sent = [p \in Peers |-> <<>>]
  /\ typed = [p \in Peers |-> 0]

(* The kernel completes the handshake before the server calls accept().     *)
Connect(p) ==
  /\ listener # "off"
  /\ sock[p] = "idle"
  /\ sock' = [sock EXCEPT ![p] = "open"]
  /\ backlog' = Append(backlog, p)
  /\ UNCHANGED <<listener, inq, sent, typed>>

Type(p, l) ==
  /\ sock[p] = "open"
  /\ typed[p] < Len(Lines[p])
  /\ l \in Lines[p][typed[p] + 1]
  /\ inq' = [inq EXCEPT ![p] = Append(@, l)]
  /\ typed' = [typed EXCEPT ![p] = @ + 1]
  /\ UNCHANGED <<listener, sock, backlog, sent>>

Close(p) ==
  /\ sock[p] = "open"
  /\ sock' = [sock EXCEPT ![p] = "fin"]
  /\ UNCHANGED <<listener, backlog, inq, sent, typed>>

(* A reset follows a peer's failure, and the peer's TCP also answers with   *)
(* one when data reaches a connection the peer has closed.  The error of    *)
(* that second case is EPIPE, which send() never returns without SIGPIPE.   *)
Reset(p) ==
  /\ "reset" \in Faults
  /\ sock[p] \in {"open", "fin"}
  /\ sock' = [sock EXCEPT ![p] = IF @ = "fin" THEN "dead" ELSE "rst"]
  /\ UNCHANGED <<listener, backlog, inq, sent, typed>>

(* "the connection might have been removed by an asynchronous network      *)
(* error ... before accept is called" (accept(2)): poll() has reported it. *)
Abort(i) ==
  /\ "abort" \in Faults
  /\ backlog' = SubSeq(backlog, 1, i - 1) \o SubSeq(backlog, i + 1, Len(backlog))
  /\ sock' = [sock EXCEPT ![backlog[i]] = "closed"]
  /\ inq' = [inq EXCEPT ![backlog[i]] = <<>>]
  /\ UNCHANGED <<listener, sent, typed>>

PeerStep ==
  \/ \E i \in DOMAIN backlog : Abort(i)
  \/ \E p \in Peers :
       \/ Connect(p)
       \/ \E l \in Line : Type(p, l)
       \/ Close(p)
       \/ Reset(p)

(* poll() reports POLLIN for data, for the end of the stream and for an     *)
(* error.                                                                   *)
Readable(p) == inq[p] # <<>> \/ sock[p] \in {"fin", "rst", "dead"}

(* send() succeeds; fails with the pending error; or, that error having     *)
(* been returned once, raises SIGPIPE: net.c passes no MSG_NOSIGNAL and the *)
(* program installs no handler, so the signal ends the process.             *)
Writable(p) == sock[p] \in {"open", "fin"}
SendFails(p) == sock[p] = "rst"
SendKills(p) == sock[p] = "dead"

SocketTypeOK ==
  /\ listener \in {"off", "blocking", "nonblocking"}
  /\ sock \in [Peers -> SockStates]
  /\ backlog \in Seq(Peers)
  /\ inq \in [Peers -> Seq(Line)]
  /\ sent \in [Peers -> Seq(Msg)]
  /\ typed \in [Peers -> Nat]

=============================================================================
