------------------------------- MODULE Session -------------------------------
(***************************************************************************)
(* One user at the grain of bytes: what its peer types, in segments cut    *)
(* anywhere, becomes lines, the lines become replies, and the replies the  *)
(* bytes queued for the peer (net.c:213-251, io.c, state.c:81-206).        *)
(*                                                                         *)
(* The session is looked at from a moment when the user is in one of its   *)
(* three states and its buffers are empty.  The other users stay as they   *)
(* are.  Fixed wording is one character; what varies in it is verbatim.    *)
(***************************************************************************)
EXTENDS Commands, DynArray

CONSTANTS
  Streams,     \* bound: what the peer may type, by the state it starts in
  Buf,         \* sizeof buf in ac_server_poll
  Reserve,     \* bytes reserved for a formatted message: 1024
  UserName,    \* the user's name, where it has one already
  Others,      \* the names of other users, and the state each is in
  MaxIncidents \* bound on the incidents

UserStates == {"login", "chat", "exit"}

ASSUME SessionAssumption ==
  /\ {Buf, Reserve} \subseteq Nat \ {0}
  /\ MaxIncidents \in Nat
  /\ Streams \in [UserStates -> SUBSET Seq(Byte)]
  /\ UserName \in Seq(NameChar) /\ ValidateUsername(UserName)
  /\ IsFiniteSet(DOMAIN Others) /\ DOMAIN Others \subseteq Seq(NameChar)
  /\ Others \in [DOMAIN Others -> {"chat", "exit"}]
  /\ \A name \in DOMAIN Others : ValidateUsername(name) /\ name # UserName

VARIABLES
  phase,     \* where the round is, or how the session ended
  stream,    \* what the peer types
  got,       \* how much of it has been received
  in,        \* ac_client_t.in
  out,       \* ac_client_t.out
  owed,      \* what the user has been told and not been sent
  state,     \* ac_user_t.state
  username,  \* ac_user_t.username
  turns,     \* per line taken: the line, the state then, and the reply
  incidents  \* how often send() took too little, or another user was heard of

vars == <<phase, stream, got, in, out, owed, state, username, turns, incidents>>

Init ==
  /\ phase = "recv"
  /\ got = 0
  /\ in = NewReserve(0)
  /\ out = NewReserve(0)
  /\ owed = <<>>
  /\ state \in UserStates
  /\ stream \in Streams[state]
  /\ username = IF state = "login" THEN <<>> ELSE UserName
  /\ turns = <<>>
  /\ incidents = 0

(***************************************************************************)
(* Output.  A message is made of literals and of formatted texts.          *)
(***************************************************************************)

Literal(text) == [formatted |-> FALSE, text |-> text]
Formatted(text) == [formatted |-> TRUE, text |-> text]

NewLine == Literal(<<CR, LF>>)
PromptSign == Literal(<<62>>)
Wording == <<35>>

VsnprintfWrong(size, text) ==
  [len |-> Len(text) + 1, mem |-> [k \in 1 .. size |-> IF k <= Len(text) THEN text[k] ELSE 0]]

(* vsnprintf() puts at most size - 1 characters and a NUL into the buffer, *)
(* and returns how many characters there are to put.                       *)
Vsnprintf(size, text) ==
  [len |-> Len(text),
   mem |-> [k \in 1 .. size |->
              IF k <= Len(text) /\ k < size THEN text[k]
              ELSE IF k = Min({Len(text) + 1, size}) THEN 0
              ELSE Garbage]]

ArrayOf(piece) ==
  IF piece.formatted THEN Vsnprintf(Reserve, piece.text)
  ELSE FromLiteral(piece.text, Len(piece.text) % 256, Len(piece.text) \div 256)

(* The array after ac_server_send of each piece, and the texts of them.    *)
Sent(array, pieces) ==
  LET after[i \in 0 .. Len(pieces)] ==
        IF i = 0 THEN array ELSE AppendN(after[i - 1], Elems(ArrayOf(pieces[i])))
  IN  after[Len(pieces)]

TextOf(pieces) ==
  LET text[i \in 0 .. Len(pieces)] ==
        IF i = 0 THEN <<>> ELSE text[i - 1] \o pieces[i].text
  IN  text[Len(pieces)]

Tell(pieces) ==
  /\ out' = Sent(out, pieces)
  /\ owed' = owed \o TextOf(pieces)

(* Reading past a buffer may be fatal.                                     *)
Overreads(pieces) ==
  \E i \in DOMAIN pieces : ArrayOf(pieces[i]).len > Cap(ArrayOf(pieces[i]))

(* ac_print_fmt, AC_PRINT_AFTER_ENTER and AC_PRINT_INTERRUPT.              *)
AfterEnter(text) == <<Formatted(text), NewLine, PromptSign>>
Interrupt(text) == <<NewLine>> \o AfterEnter(text)

(***************************************************************************)
(* What a line is answered with                                            *)
(***************************************************************************)

R(kind, to, said) == [kind |-> kind, to |-> to, said |-> said]

Kinds ==
  {"prompt", "taken", "invalid", "welcome", "you", "help", "info", "list", "confirm",
   "notfound", "notinchat", "usage", "ack", "goodbye"}

Replies == [kind : Kinds, to : Seq(Byte), said : Seq(Byte)]

LoginReply(line) ==
  IF line = <<>> THEN R("prompt", <<>>, <<>>)
  ELSE IF line \in DOMAIN Others THEN R("taken", <<>>, <<>>)
  ELSE IF ~ValidateUsername(line) THEN R("invalid", <<>>, <<>>)
  ELSE R("welcome", line, <<>>)

WhisperReply(line) ==
  LET to == Recipient(line)
  IN  IF to \notin DOMAIN Others \cup {username} THEN R("notfound", to, <<>>)
      ELSE IF to # username /\ Others[to] # "chat" THEN R("notinchat", to, <<>>)
      ELSE IF MsgStart(line) >= Len(line) THEN R("usage", <<>>, <<>>)
      ELSE R("ack", to, Message(line))

ChatReply(line) ==
  IF line = <<>> THEN R("prompt", <<>>, <<>>)
  ELSE IF ~IsCommand(line) THEN R("you", <<>>, line)
  ELSE IF Command(line) = "whisper" THEN WhisperReply(line)
  ELSE R(IF Command(line) = "exit" THEN "confirm" ELSE Command(line), <<>>, <<>>)

ExitReply(line) ==
  IF EqIgnoreCase(line, <<121>>) THEN R("goodbye", <<>>, <<>>)
  ELSE R("welcome", username, <<>>)

Reply(line) ==
  CASE state = "login" -> LoginReply(line)
    [] state = "chat" -> ChatReply(line)
    [] state = "exit" -> ExitReply(line)

(* The pieces of a reply.  A whisper to oneself is heard as well.          *)
Pieces(r) ==
  CASE r.kind = "prompt" -> <<PromptSign>>
    [] r.kind = "goodbye" -> <<>>
    [] r.kind = "list" ->
         <<Formatted(Wording), Formatted(username)>>
           \o [i \in 1 .. Cardinality(DOMAIN Others) |->
                 Formatted(SetToSeq(DOMAIN Others)[i])]
           \o <<PromptSign>>
    [] r.kind = "ack" /\ r.to = username ->
         Interrupt(username \o r.said) \o AfterEnter(r.to \o r.said)
    [] OTHER -> AfterEnter(Wording \o r.to \o r.said)

StateAfter(r) ==
  CASE r.kind = "welcome" -> "chat"
    [] r.kind = "confirm" -> "exit"
    [] OTHER -> state

(***************************************************************************)
(* A round                                                                 *)
(***************************************************************************)

(* What has arrived may have been cut anywhere.                            *)
Recv ==
  /\ phase = "recv"
  /\ phase' = "flush"
  /\ \E n \in 0 .. Min({Buf, Len(stream) - got}) :
       /\ got' = got + n
       /\ in' = AppendN(in, SubSeq(stream, got + 1, got + n))
  /\ UNCHANGED <<stream, out, owed, state, username, turns, incidents>>

(* send() takes all, or less than that.                                    *)
Flush ==
  /\ phase = "flush"
  /\ phase' = "update"
  /\ \E n \in 0 .. out.len :
       /\ n < out.len => incidents < MaxIncidents
       /\ incidents' = IF n < out.len THEN incidents + 1 ELSE incidents
       /\ out' = IF out.len > 0 THEN RemoveN(out, 0, n) ELSE out
       /\ owed' = SubSeq(owed, n + 1, Len(owed))
  /\ UNCHANGED <<stream, got, in, state, username, turns>>

(* Another user joins, leaves, says or whispers something.                 *)
Notice ==
  /\ phase = "update"
  /\ state = "chat"
  /\ incidents < MaxIncidents
  /\ incidents' = incidents + 1
  /\ Tell(Interrupt(Wording))
  /\ UNCHANGED <<phase, stream, got, in, state, username, turns>>

GetLineWrong(bytes) == SubSeq(bytes, 1, LineEnd(bytes))

GetLine(bytes) == LineOf(bytes)

(* ac_state_update, with a complete line.                                  *)
TakeLine ==
  /\ phase = "update"
  /\ HasCompleteLine(Elems(in))
  /\ LET line == GetLine(Elems(in))
         r == Reply(line)
     IN  /\ in' = RemoveN(in, 0, Consumed(Elems(in)))
         /\ turns' = Append(turns, [state |-> state, line |-> line, reply |-> r])
         /\ Tell(Pieces(r))
         /\ state' = StateAfter(r)
         /\ username' = IF state = "login" /\ r.kind = "welcome" THEN line
                        ELSE username
         /\ phase' \in (IF r.kind = "goodbye" THEN {"gone"} ELSE {"recv"})
                         \cup (IF Overreads(Pieces(r)) THEN {"segv"} ELSE {})
  /\ UNCHANGED <<stream, got, incidents>>

TakeNothing ==
  /\ phase = "update"
  /\ ~HasCompleteLine(Elems(in))
  /\ phase' = "recv"
  /\ UNCHANGED <<stream, got, in, out, owed, state, username, turns, incidents>>

Next == Recv \/ Flush \/ Notice \/ TakeLine \/ TakeNothing

Spec == Init /\ [][Next]_vars

TypeOK ==
  /\ phase \in {"recv", "flush", "update", "gone", "segv"}
  /\ stream \in Seq(Byte)
  /\ got \in 0 .. Len(stream)
  /\ ProperArray(in, Byte \cup {Garbage})
  /\ ProperArray(out, Byte \cup {Garbage})
  /\ owed \in Seq(Byte)
  /\ state \in UserStates
  /\ username \in Seq(NameChar)
  /\ turns \in Seq([state : UserStates, line : Seq(Byte), reply : Replies])
  /\ incidents \in 0 .. MaxIncidents

(***************************************************************************)
(* Properties                                                              *)
(***************************************************************************)

Taken == [i \in DOMAIN turns |-> turns[i].line]

(* However the stream is cut into segments, and however many wait: the     *)
(* lines taken are those typed so far, none lost, doubled, or made of      *)
(* pieces of two; lines with nothing to see in them aside (io.c:56).       *)
LinesAsTyped ==
  Only(Taken, Texts) = LinesTyped(SubSeq(stream, 1, got - in.len))

(* An end of line is taken with its line, however many CRs and LFs it has, *)
(* as long as they arrive together: no empty line remains of it (io.c:74). *)
EndsTaken ==
  [][turns' # turns /\ in'.len > 0 => ~EndsLine(Elems(in')[1])]_vars

(* What has been received and not taken waits in the input as it came,     *)
(* through every growth and shift of the array (net.c:235, io.c:78).       *)
InputKept ==
  /\ in.len <= got
  /\ Elems(in) = SubSeq(stream, got - in.len + 1, got)

(* Who is past the login has a name that it accepts.                       *)
Named ==
  IF state = "login" THEN username = <<>> ELSE ValidateUsername(username)

(* The inductive invariant of SessionProofs.                               *)
SessionInv == TypeOK /\ InputKept /\ Named

(* To the rest of the server the input is a queue of lines: receiving only *)
(* adds to it, and a line is taken as the queue promised it.               *)
Lines == INSTANCE LineQueue WITH queue <- LinesIn(Elems(in)), taken <- Taken

IsLineQueue == Lines!Spec

(* A whisper goes to the user named in it and says what follows the name,  *)
(* blanks within included, if and only if the line has the form that the   *)
(* usage gives (io.c:294-331).                                             *)
WhispersAsTyped ==
  turns # <<>> /\ Last(turns).state = "chat" =>
    LET line == Last(turns).line
        r == Last(turns).reply
        InChat(to) == to = username \/ (to \in DOMAIN Others /\ Others[to] = "chat")
    IN  IF r.kind = "ack" THEN InChat(r.to) /\ IsWhisper(line, r.to, r.said)
        ELSE ~\E m, n, k \in DOMAIN line :
               /\ InChat(SubSeq(line, m, n))
               /\ IsWhisper(line, SubSeq(line, m, n), SubSeq(line, k, Len(line)))

(* A name that a login accepts can be whispered to: no accepted name is    *)
(* cut where a command is, or taken for one (state.c:100, io.c:294).       *)
NamesAddressable ==
  username # <<>> =>
    LET line == <<Prefix, 119, Blank>> \o username \o <<Blank, 33>>
    IN  /\ Command(line) = "whisper"
        /\ Recipient(line) = username
        /\ Message(line) = <<33>>
        /\ ~IsCommand(username)

(* What waits to be sent is what the user was told and has not been sent:  *)
(* whole, in order, once, with the ends of lines and prompts around it     *)
(* (io.h:42 and :61), whatever parts of it send() takes.                   *)
SentAsTold == phase # "segv" => Elems(out) = owed

(* "Consume line and newline characters." (io.c:72): each line that is     *)
(* typed, with its CR LF, is one line.                                     *)
TypedWithCrLf ==
  /\ \A i \in DOMAIN stream :
       /\ stream[i] = CR => i < Len(stream) /\ stream[i + 1] = LF
       /\ stream[i] = LF => i > 2 /\ stream[i - 1] = CR /\ ~EndsLine(stream[i - 2])

OneLineEach ==
  TypedWithCrLf /\ (\A i \in DOMAIN stream : stream[i] # Blank) =>
    \A i \in DOMAIN turns : turns[i].line # <<>>

=============================================================================
