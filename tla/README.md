# AuroraComms in TLA+

A specification of the AuroraComms chat server (C99, one process, one thread),
with the model-checking runs and the machine-checked proofs kept beside it.
Paths and line numbers are those of the repository.

## 1. The system

`main` (`src/main.c`) sets up one application and one server and then loops for
ever: `ac_server_poll`, `ac_app_update`. One pass is called a **round** here.

| Part | Code | State | Operations |
|---|---|---|---|
| Networking layer | `src/net.c`, `inc/ac/net.h` | `server->clients`: descriptor -> client (state NEW / ONLINE / TO_BE_REMOVED, input bytes, output bytes) | `ac_server_poll` (sweep, poll, accept, receive, flush), `ac_server_send`, `ac_server_remove_client` |
| Application | `src/app.c`, `src/state.c` | `users.from_handle`: descriptor -> user, `users.from_username`: name -> user; per user the descriptor, the name and the state LOGIN / CHAT / EXIT | `ac_app_update`: first loop, each user takes one line; second loop, users are created for new clients and removed for leaving ones |
| Commands | `src/io.c:85-366` | none of its own | help, exit, info, list, whisper; every kind of output |
| Line reader | `src/io.c:16-83` | consumes a client's input | `ac_get_line`, `ac_trim_whitespace` |
| Hash map | `inc/ac/meta.h:223-404` | buckets, entries, populated buckets | set (with growth), get, contains, remove, foreach |
| Dynamic arrays | `inc/ac/meta.h:31-221` | length, capacity, elements | append, insert, remove, resize |
| Strings, logging, literals | `src/str.c`, `src/log.c`, `inc/ac/hex.h` | none that matters | hash, compare, write a log, the lengths of embedded literals |
| Startup | `src/net.c:55-96`, `src/main.c` | the listener | socket, bind, listen |

**Interaction.** The application reads a client's input through a pointer, and
speaks to it only through `ac_server_send` (which queues) and
`ac_server_remove_client` (which sends a goodbye at once and marks the client).
The two layers tell each other about arrivals and departures through the state of
a client alone. An arrival is `NEW` for the rest of its round, so the second loop
makes its user; it is `ONLINE` from the next sweep. A departure is
`TO_BE_REMOVED` for the rest of its round, so the second loop removes its user;
the next sweep closes the descriptor and forgets the client. Everything is keyed
by the descriptor, which the kernel hands out again as soon as it is closed.

**What is hard here.** There is one thread, but the peers and the kernel act
between any two system calls: they connect, type, close, reset. Descriptors and
names are reused at once. Five tables or queues (clients, two maps of users, the
input and the output of a client) have to agree across three loops in two
functions. `send` may take part of what it is given, may fail, and may kill the
process. Several loops run over a map while their bodies change it.

**What makes it correct**, per part: a client, its user, its name and its
descriptor come and go together (net, app); every line gets its reply and every
queued message is delivered once and in order, or its client is gone (net, app);
who hears what follows the states (app, commands); lines, names and whispers are
what was typed, however the bytes arrive (line reader, commands); the map is a
dictionary and a loop over it visits each entry once (hash map); an array holds
the elements that were put into it, and no others (dynamic arrays). Together: the
server is one room, in which all who are in the chat hear a thing at once and in
one order (`ChatRoom`).

## 2. The modules

| Module | Models | Of the code |
|---|---|---|
| `Messages` | kinds of lines and of messages | `io.c`, `state.c` at the grain the properties need |
| `Sockets` | peers and TCP sockets | external, from how `net.c` calls the kernel |
| `Net` | the client table and `ac_server_poll`, one action per system call | `net.c` |
| `App` | users, names, states, commands, `ac_app_update` | `app.c`, `state.c`, `io.c` |
| `Server` | the loop of `main` composing `Net`, `App` and `Sockets`; invariants of the tables, action and liveness properties | `main.c` |
| `Streams` | what each user sees, the properties of it, and what the tables have to do with it | - |
| `Chronicle` | the server with a record of the conversation, and what each user reads of it | - |
| `ChatRoom` | what the server promises its users: people, names, what each has heard | - |
| `Room` | the mapping under which `Server` implements `ChatRoom`, and the invariant that shows it | - |
| `MCServer`, `MCChronicle` | instances: scripts, symmetry, bounds | - |
| `LineReader` | bytes to lines, and a reference definition of the lines somebody typed | `io.c:16-83` |
| `Commands` | what is a name, a command, a recipient, a message, by positions in a line | `io.c:137-343`, `str.c` |
| `DynArray` | arrays as a length and a memory, with growth; arrays made from literals | `meta.h:31-215`, `hex.h` |
| `Session` | one user at the grain of bytes: input in segments, lines, replies, output in parts | `net.c:213-272`, `io.c`, `state.c` |
| `LineQueue` | what a client's input is to the rest of the server | - |
| `MCSession` | instances: what is typed, who else is there | - |
| `KVMap` | what a map promises: a dictionary | - |
| `HashMap` | the hash map with its buckets and its growth, and the refinement of `KVMap` | `meta.h` |
| `MCHashMap` | an instance with colliding keys | - |
| `ServerProofs`, `RoomProofs`, `StreamProofs`, `ChronicleProofs` | theorems about `Server`, `Room`, `Streams` and `Chronicle` for all constants | - |
| `HashMapProofs`, `DynArrayProofs`, `SessionProofs` | theorems about `HashMap`, `DynArray` and `Session` for all constants | - |
| `SeqFacts` | facts about sequences, recursion and division that the proofs share | - |

**How they fit.** `Server` is at the grain of lines and messages, `Session` at that
of bytes. The two meet in `LineQueue`: what `Session` does to a client's input is,
for the lines in it, exactly what `Net` does to `cin`, that is, whole lines are
added at one end and taken at the other. `DynArrayProofs` is why both may have sequences
where the code has arrays, and `HashMapProofs` why `Net` and `App` may have functions
where the code has maps. Above `Server` stands `ChatRoom`, without sockets,
descriptors, queues or rounds.

**State.** `listener`, `sock`, `backlog`, `inq`, `sent`, `typed` belong to the
environment: whether the listener blocks, per connection the state of its socket,
the listener's queue, lines not received
yet, all that was handed to `send`, and how much the peer has typed. `pc` says
which loop the thread is in and `todo` which descriptors that loop has still to
visit. `cstate`, `csock`, `cin`, `cout` are the fields of `ac_client_t`.
`from_handle`, `from_username` and `user` are the maps and the objects of the
application. `grown` remembers which maps have been re-hashed.

**Actions.** Startup is `Listen` or `ListenFails`. A round is `Sweep`, `Poll`, then (when a connection waits)
`AddClient`, `Refuse`, `RefuseKilled` or `AcceptFails`, one `RecvData`, `RecvEnd` or `RecvNothing`
per reported socket, `EndRecv`, one `FlushSome`, `FlushFails` or `FlushKilled` per
client with output, `EndFlush`, one handler per user with a line (`LoginRefused`,
`Login`, `Answered`, `Whisper`, `Say`, `AskExit`, `ConfirmExit`, `CancelExit`),
`EndUpdate`, one `CreateUser` or `RemoveUser` per client that came or went,
`EndReap`. Each is a whole handler with all it calls. Steps of peers and kernel
(`Connect`, `Type`, `Close`, `Reset`, `Abort`) come between any two of them. `ac_handle_conn` is one
step: its calls to `fcntl` and `inet_ntop` only add ways to fail.

A session has the same round for one user: `Recv` appends what `recv` returns to
`in`, cut anywhere; `Flush` sends a part of `out`; `Notice` is another user heard
of; `TakeLine` is `ac_state_update` with a complete line, and queues the pieces of
the reply as `ac_server_send` is called for them; `TakeNothing` is the same without
one. `got`, `owed` and `turns` record what has been received, what the user has been
told and not been sent, and what was taken with which reply. `in` and `out` are
arrays of `DynArray`, with the memory behind them.

**Abstractions.**
- In `Server` a line is its kind and one word; a message is its kind, the user it is
  about and one datum. Wording, the line breaks and the `>` after each message are
  left out.
- In `Session` all bytes are there, but a fixed wording is one character; the other
  users and their states do not change. The user may start in any of its three
  states, with empty buffers.
- A connection (a member of `Peers`) happens once, and stands for the address of
  the user object made for it. Reuse of descriptors is modelled, of heap addresses
  it is not.
- `Handles` are the `AC_CLIENTS_MAX` descriptors from `FirstFd` on: the kernel hands
  out the lowest free one and no more clients are let in. Such descriptors never
  share a bucket, before or after a map has grown (theorem `HandlesDistinct`),
  which is why
  `Net` and `App` may use functions for the two maps keyed by descriptors, and why
  the loops may remove the entry they are at (`HashMap!MayRemove`). The map keyed
  by names is never looped over, and is a dictionary whatever its keys' hashes
  (theorem `ImplementsDictionary`).
- A map that has grown is read past its end by every loop (section 5). That is
  undefined behaviour, modelled by a choice: nothing happens, or the process is
  killed (`ReadFreedBucket`).
- Memory is never exhausted, and freeing it is not modelled. A read past an array
  (`Overreads`) finds arbitrary bytes (`Garbage`) or kills the process.
- `Reset` of a connection the peer had closed gives an error that raises SIGPIPE at
  the first `send`; of another one, at the second. This is Linux.

Definitions whose name ends in `Wrong` are plausible slips in the operator that
follows them. No specification uses them. Each property was also run against a
slip of this kind, and is violated by it.

## 3. The runs

No run checks deadlock, because the system may rest: with no client and no
connection `poll` blocks, and `exit`, SIGPIPE and a crash end the process.

| Run | Question | Bounds |
|---|---|---|
| `MCChat` | Does every line get one reply, do all read all of it in one order, is it a chat room? | 3 connections: one says the same twice, one says it once, the third may be refused at its login, only reads and may go; `TalkBounds` |
| `MCExit` | Who hears what while one user leaves or changes its mind, and do the streams fit the tables? | 2 connections, 3 + 2 lines, partial sends; `ExitBounds` |
| `MCFaults` | Do the tables, the queues and the room survive every failure? | 2 connections, 2 + 1 lines, all eight kinds of failure |
| `MCWatch` | Do the tables agree when descriptors, places and names are reused, and does a listener see names join, speak and leave coherently? | 4 connections, 3 places; 2 of them with 2 lines each and the fourth with 1, all under one name; resets; `WatchBounds` |
| `MCLive` | Does what must happen happen? | 2 connections, 3 + 0 lines, resets, spurious readiness, connections dropped before they are accepted |
| `MCHashMap` | Is the map a dictionary, are its counters exact, do its loops visit all once? | 5 keys, 2 values, 4 buckets growing to 8 |
| `MCText` | Are lines, names, whispers and output what was typed and told, and is the invariant of the session one? | all streams of up to 3 bytes over 6 characters and up to 4 over 4 of them, whispers and other commands of up to 8; segments of up to 3 bytes; one short send or notice |
| `MCStrangers`, `MCReset`, `MCLoad`, `MCCrLf`, `MCLong` | Section 5 | as above; `MCLong` with 4 bytes reserved for a message |

**Properties.** `EveryLineAnswered`: greetings, replies and lines taken are counted
against each other over the whole life of a connection. `SameOrder`: the n-th thing
a user reads is the n-th thing said while it was in the chat. `NothingMissed`: who
is in the room has been handed all of it. `QuietOutsideChat`: notices come only
between a welcome and the next question whether to exit. `GoodbyeIsLast`: nothing
is sent after the goodbye although it overtakes the queue. `StreamKept`: a flush changes
no stream, so that what is queued is handed over once and in order, and until a client is being removed
anything else only adds to the end of its queue. `PresenceCoherent`: to one
listener, a name that left is silent until it joins again. `UserHasClient`,
`ClientHasUser`, `NamesExact`, `SocketsAccounted`: users, clients, names and
descriptors agree in every phase. `AssertsHold`: the lookups that may not fail do
not. `NameHeld`: a name passes only through nobody. `LinesTaken`, `OutputFlushed`,
`DeadForgotten`, `GoodbyeKept`: input is taken, output is flushed, ended connections
are forgotten, who was told goodbye is disconnected. For the map: `CountsExact`,
`Housed`, `VisitsAllOnce`, `IsDictionary`.

Messages carry no mark by which two users could tell that they read the same one,
and comparing names and texts does not do: somebody may say the same twice. So
`Chronicle` adds a history variable, `log`, with an entry per thing said, its
speaker and those who were in the chat. It hinders no step: `ChronicleSpec` is `Spec`
together with a definition of `log`, which follows from what the server does (`RecordOnlyWatches`),
and `SameOrder` compares each stream with it by counting.

`IsChatRoom`: the server implements `ChatRoom`. In the room a person arrives, enters
under a name nobody else has, says, whispers, asks, turns to go, returns, hangs up
and leaves; a thing said is heard by all members in one step. The mapping takes what a
person has heard to be what was handed to the kernel for it and what still waits in
its queue, so that every `send` is a stutter. A person who hung up (whose client is
marked for removal) hears nothing more but is still in the room, with the name,
until the second loop tells the others: this window between two functions is
visible to users, and the promise says so.

For sessions: `LinesAsTyped` compares the lines taken, with those that show
something, to `LinesTyped`, which says what the lines of a stream are without
taking them one by one: for each end of line the text since the end before it, from
its first visible character to its last, less what cannot be printed; `InputKept` follows the bytes not yet taken through
every growth and shift of the array; `IsLineQueue` is the refinement of
`LineQueue`; `EndsTaken` says that the ends of a line go with it as far as they
have arrived. `WhispersAsTyped` holds the walk of positions over a line
against `IsWhisper`, which describes the words of a line without positions,
in both directions; `NamesAddressable` says that each name a login accepts can be whispered
to. `SentAsTold` compares `out`, byte by byte, with what the user has been told.

**Why these bounds are enough to be of use.** A client, a user and a name interact
with at most one other of their kind at a time: two connections give contested
names, broadcasts and whispers, three give a listener to two others and a reused
descriptor with its former and its next owner both around, and a fourth finds the
server full and, later, a place. `AC_CLIENTS_MAX` of 3 reaches the full server; with
it the maps grow after one client, and the invariants are checked in spite of it;
4 keeps two connections, and 6 three (`MCChat`), below growth's threshold where growth is not the question. Two
lines per user put a line in the input, one in the kernel and replies in the queue
at the same time. `partial` is what lets something wait in the queue at the goodbye
(`MCExit`). The script of `MCWatch`, the run with symmetry, is the same under its permutations. `WatchBounds` is a state constraint that keeps `MCWatch` affordable: the
watcher stays, the two users of one name connect once it is in the chat and type that name before they hang up,
the fourth connection comes when the server is full or a connection has been closed, and it goes only by a reset,
before it types; no other is reset. So it is refused, or waits for a place or finds one, and gets the descriptor and, if it
types, the name of one that left, among two others. None of its
properties is a liveness property, which a constraint would spoil. `ExitBounds` in `MCExit` has the second user connect once
the first has typed its name, since it is the first that leaves and the second that listens; both may hang up at any time.
Other runs (`MCLive`, `MCFaults`) have no such bounds. `TalkBounds` does the same for `MCChat`, where what matters is three who are
in the chat at once and one who repeats itself: the speakers' connections last, and
the second of them comes once the others are there or gone. In `MCHashMap` some keys share a bucket at both
sizes, some at the first only, and some at neither, and five keys reach the growth.

`MCText` has the characters that the code tells apart: CR, LF, blank, the prefix,
a letter that is a command and a name, and one that is not printable; `y`, `Y` and
the user's own name where they matter. A segment of 3 bytes (`Buf`; the code has 512) is less than a
line and more than two empty ones; names are of 1 or 2 characters (`UsernameMin`,
`UsernameMax`; 2 and 16) so that one too short and one too long are typed; 16 bytes
(`Reserve`; 1024) hold every message of the run, and 4 do not hold that of
`MCLong`; a word of 3 bytes (`WordBytes`; 8) has zeroes behind both bytes of a length.
`MaxIncidents` is 1: a short send or a notice happens once in a session, anywhere.
The theorems of section 4 have no bounds.

**Fairness.** `FairSpec` is `WF_vars(ServerStep)`: the one thread runs when it can.
This is what an operating system gives a process. Nothing is asked of peers: they
may stop typing, and never close. No fairness is needed between the server's own
actions because its loops are finite and each step moves one of them on. `partial`,
`accept`, `poll` and `listen` are not among the failures of `MCLive`: a peer that never reads
keeps its queue for ever, a connection that is never accepted keeps its place in
the listener's queue, and rightly so. Nor is `fcntl`: with a listener that blocks,
a connection dropped before `accept` stops the server, which is the finding on
`net.c:68`; with one that does not, `abort` is harmless, and `OutputFlushed` shows it. Every liveness property allows the process to
end (`Ended`), since a `send` to a reset connection ends it (section 5).

## 4. The theorems

The theorems are about every value of the constants: any peers, scripts, names,
failures and limits; any keys, hash and capacity; any bytes typed, cut anywhere. They
rest on the assumptions named where the constants are declared (names are words,
`NoPeer` is no peer, the limit is at least 1, the hash is a natural number, names of
users are valid ones) and on nothing else; `MessagesWhole` and `LiteralIsItself`
have hypotheses of their own, discussed below.

| Module | Theorem | Property |
|---|---|---|
| `ServerProofs` | `InvHolds` | `Spec => []Inv` |
| | `TypeCorrect` | `TypeOK` |
| | `UsersReachTheirClients`, `ClientsHaveUsers`, `NamesAreExact`, `NoSocketLeaks` | the four invariants of the tables |
| | `NoAssertFails` | `AssertsHold` |
| | `NamesAreHeld` | the action property `NameHeld` |
| | `HandlesDistinct` | descriptors of clients never share a bucket |
| `RoomProofs` | `RoomInvHolds` | `RoomInv` |
| | `ServerIsChatRoom` | `IsChatRoom`: the server implements the room |
| `StreamProofs` | `StreamInvHolds` | `StreamInv` |
| | `EachLineAnsweredOnce` | `EveryLineAnswered` |
| | `GoodbyeComesLast` | `GoodbyeIsLast` |
| | `NoticesKeptToTheChat` | `QuietOutsideChat` |
| | `PresenceIsCoherent` | `PresenceCoherent` |
| | `StreamsAreKept` | the action property `StreamKept` |
| `ChronicleProofs` | `ChronicleInvHolds` | `ChronicleInv` |
| | `OneOrderForAll` | `SameOrder` |
| | `NothingIsMissed` | `NothingMissed` |
| | `RecordOnlyWatches` | `ChronicleSpec <=> Spec /\ RecordKept` |
| `HashMapProofs` | `TypeCorrect`, `CountersExact`, `EntriesHoused`, `LoopVisitsAllOnce` | `TypeOK`, `CountsExact`, `Housed`, `VisitsAllOnce` |
| | `ImplementsDictionary` | `IsDictionary`: the map implements `KVMap` |
| `DynArrayProofs` | `NewIsEmpty`, `InsertInserts`, `AppendAppends`, `RemoveRemoves` | arrays are sequences, and stay proper (`ProperArray`) |
| | `LiteralIsItself` | an array made of a literal has its characters |
| `SessionProofs` | `SessionInvHolds` | `SessionInv` |
| | `InputIsKept` | `InputKept` |
| | `EndsAreTaken` | the action property `EndsTaken` |
| | `InputIsLineQueue` | `IsLineQueue`: reading lines implements `LineQueue` |
| | `AcceptedNamesAddressable` | `NamesAddressable` |
| | `LinesAreAsTyped` | `LinesAsTyped` |
| | `WhispersAreAsTyped` | `WhispersAsTyped` |
| | `MessagesWhole` | `SentAsTold`, where messages fit |

**The tables.** None of the table invariants is inductive by itself. That a user's
client is there (`UserHasClient`) holds across `Sweep` only because no client
marked for removal still has a user then, which is `ClientHasUser`; that in turn
holds only because the second loop has visited every client that came or went,
which `LoopsOK` says of `todo`; the client table can only be right about its
connections if no two clients share one and none waits in the listener's queue,
which is `SocketsAccounted`; and `NamesExact` needs that each user holds the name
its state says (`NamedInChat`) and is reached under one descriptor only. `Inv` is
the conjunction of these parts with `TypeOK`; it is proved inductive, one lemma per
part (`StepType`, `LoopsStep`, `SocketsStep`, `UserHasClientStep`,
`ClientHasUserStep`, `NamesStep`), each with a step per action that can disturb it. Lemmas stated once say what marking a client, removing a user, making one and
taking from a sequence without repetition do to the tables.

**The room.** Every step of the server must be a step of the room or leave what is
seen of it alone. The state of people and names is that of the tables (`RoomPeople`);
what they have heard is the concatenation of what was sent and what is queued, which a flush
leaves alone (`SameHeard`) and a message to some users extends for just those who are
online (`HeardBatch`, `TellsAll`, `Tells`). The step that needs more than `Inv` is
`CreateUser`: an arrival must find a person who has never been in the room and has heard nothing, although
its descriptor had an owner before. So `RoomInv` adds `Listed` (whoever has a state is in the map of
users), `Unknown` (a connection whose user is still to be made has no state, no
name, and was sent nothing) and `Quiet` (nothing is queued for it). `MCFaults`
checks `RoomInv`, with `Inv` in it, before it is proved inductive. Next to these,
the room's steps ask for the facts of the tables: that a name being entered
is free is `NamesExact`, that the receiver of a whisper is a member
is `NamedInChat` and `NamesExact`, that one who leaves has hung up is the mark on
its client.

**The streams.** That replies and lines balance (`EveryLineAnswered`) is inductive only
with `Untaken`: before a connection has a user nothing it typed is taken, so that the
greeting is the first reply. `GoodbyeIsLast` needs `LastWord`: whoever was told
goodbye is marked for removal and not visited again before it is gone, and a goodbye
is never in a queue. What is read of others is a matter of two facts about the
tables that the streams must tell too: who is in the chat has read so (`Welcomed`), and the
last that was read of a name is true (`UpToDate`): if it was that the name left, nobody
has it, and if it was that it joined, somebody has. With them `QuietOutsideChat`
and `PresenceCoherent` are inductive. `StreamSteps` says what the actions do to streams,
once for all of them: nothing is said (`Silent`), the sweep cuts the ends off the
streams of the clients it removes, a line is said, answered or refused, or somebody is
greeted, says goodbye or is reported gone, with what each adds to whose stream. `StreamInv` is the conjunction, checked by `MCExit`.

**The record.** `ChronicleInv` has with `SameOrder` the stronger `NothingMissed`,
which is what makes the next thing said the next in everybody's stream, and `Past`:
who has no user yet has missed nothing. That the record hinders no step is shown without
quantifying over behaviours: `LogAfter` says what the record is after a step, for any step
and any record before it, since in one step at most one user says something
(`OneSpeaks`), and `ChronicleSpec` is `Spec` with a record that is kept so. So every behaviour of the server has
its record, and what is proved with the record about streams holds without it.

**The map.** What a loop over a chain or a re-hash computes would be shown by induction over
the data. The theorems of the library that state induction take an operator as a
parameter and cannot be used; `LeastNat` stands in for them, since a set of natural numbers that is
not empty has a least member: the least length, or index, at which a claim fails contradicts the
definition. Growth keeps each entry because of `ModuloDouble`, a fact about division,
and the counters are cardinalities (`Counts`) that each step changes by one
or not at all.

**A session.** `SessionInv` is `TypeOK` with `InputKept` and `Named` (who is past the
login has an acceptable name), and `MCText` checks it. The rest is about the recursive
functions of the model. Such a function is a `CHOOSE`, so that one that satisfies the equations
must be shown to exist: `Recursion` builds it, and a least counterexample again
stands for induction (`OnlyKeeps`, `FromExists`, `SentAre`). The lemmas they lead to:
`LinesInIs` (the first line, then the lines of the rest), `ArrivingAdds`
(bytes added to an input add lines at the end of its lines, wherever the cut is),
`TakeIs` (what a line leaves behind is a suffix), `SentIs` (sending pieces appends their
texts). `InputIsLineQueue` is the first three together.

`LinesAsTyped` is inductive with `AtLineStart`: what has been taken of the stream is
empty or ends with an end of line, so that the next line starts where the reading of the
stream starts one too. That a sequence is filtered part by part (`OnlyJoin`) gives both
halves of a step: a line with its ends adds its own text to the lines typed, and the further ends, with
nothing between them, add none (`TypedMore`); and what is shown of a line is the same
whether it is filtered and then trimmed, as in the code, or cut at its first and last visible
characters and then filtered (`ShownIs`).

Whispers are compared by way of `Words`, the four positions in a line at which the
command ends, the recipient begins and ends and the message begins: the code's loops find
these positions if there are any (`WordsAreFound`, `FoundAreWords`), and a line
has the form of the usage if and only if it has such positions (`WordsWhisper`,
`WhisperHasWords`).

`MessagesWhole` has two hypotheses, each needed. `LinesFit`: a typed line, and the longest
name, are shorter than what is reserved for a message, by two at least (the code's
1024 bytes; a message has one character besides names and text here); without it
`MCLong` is the counterexample and a finding. And the machine is
little-endian, as it is for `LiteralIsItself`, which shows that the table of `hex.h` and
the two bytes made of it give back the length of every literal shorter than 65536.

`SeqFacts` has the facts about concatenation, parts and equality of sequences,
recursion and division that these proofs rest on.

**Only model-checked:** the liveness properties, because neither temporal reasoning under
fairness nor `ENABLED` is within the prover's reach, and the properties that the code
violates. Every other property of a passing run has a theorem above, or is a part of
one.

## 5. Where code and comments disagree

- `MCStrangers`: a connection that ends before login is announced with an empty name
  (" has left the chat."), where `app.c:84` speaks of users who left the chat; and the
  list of online users (`io.c:198`) prints an entry without a name for each
  connection still at the login prompt, since `io.c:278` tests the wrong user's state.
  The run shows whichever it meets first; either alone violates `StrangersUnseen`.
- `MCReset`: a connection that is reset while output waits for it ends the process
  with SIGPIPE (`net.c:245`, `net.c:260`, also `net.c:135`), although `net.c:229` treats the end of a
  connection as that client's alone.
- `MCLoad`: `meta.h:380` shortens the capacity of a re-hashed map and not its
  length, so that loops read freed buckets once half of `AC_CLIENTS_MAX` clients
  and one more have come. `MCLoad` shows it with a limit of 4 and 3 connections.
- `MCCrLf`: a CR LF that arrives in two segments ends two lines (`io.c:74`), where
  `io.c:72` consumes "line and newline characters". After `/exit` the second, empty
  line is taken for a no, and the user is back in the chat.
- `MCLong`: a message longer than the 1024 bytes reserved is queued with the memory
  behind them (`io.c:122`, also `io.c:91`), since the length that `vsnprintf` would have
  needed is taken as the length of the array. The run has 4 bytes instead of 1024.
- Without a run: `ac_server_listen` looks for -1 where `ac_socket_set_blocking` answers
  EXIT_FAILURE (`net.c:68`), so that the listener of `net.c:66` may block. `Mode` has
  both outcomes. With a listener that blocks, a connection dropped
  between `poll` and `accept` stops the server for all, which `OutputFlushed` notices.

## 6. What is not modelled

- The port argument; `ac_server_free`, `ac_app_free` and `ac_map_free`, which are never
  reached; the variants of the array's constructors that nothing calls. `ac_arr_new_n` and
  `ac_arr_resize` serve the map only, whose module says what becomes of its buckets.
- Memory: that arrays and strings are freed once, and that `cmd_str` is not when a command
  is unknown (`io.c:236`); pointers into the buckets of a map (`app.c:76`).
- What the log says. A message is cut at 924 bytes and always fits the 1024 of its line. A log that
  cannot be opened ends the process at its first message, which is part of `ListenFails`.
- The FNV hash (`HashMap` has any hash function), tests, build and deployment: no state
  of the server.
- Limits of a client's buffers: the code has none.
- A big-endian machine: `DynArray` has the branch of `meta.h:115`, which puts the
  length into the most significant bytes of the word; the runs are of
  little-endian ones.

## 7. Plan

Done: `Messages`, `Sockets`, `Net`, `App`, `Server`, `Streams`, `KVMap`, `HashMap`,
`ServerProofs`; then startup and dropped connections in `Net` and `Sockets`; `DynArray` with
its proofs, `LineReader`, `Commands`, `Session`; `ChatRoom`, `Room` and `RoomProofs`; then
`Chronicle`, and the proofs about the map, the streams, the record and the session.

Every safety property that holds has its theorem. What could follow: the two loops that
`App` has as actions for each user put over `HashMap`, so that the growth of the
tables is part of the server's model; and a hypothesis weaker than `LinesFit`, which asks
more than the code needs of lines that are no message.
