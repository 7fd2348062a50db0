----------------------------- MODULE MCSession -----------------------------
(* A small instance of Session: what is typed, and who else is there.      *)
EXTENDS Session

CONSTANTS MaxLen

(* CR, LF, blank, '/', 'm' (an alias of whisper, and a name), DEL.         *)
Typed ==
  BoundedSeq({13, 10, 32, 47, 109, 127}, MaxLen)
  \cup BoundedSeq({13, 10, 32, 109}, MaxLen + 1)

(* Lines that begin with a command: whispers to 'm', to 'mm', to 'q' who   *)
(* is the user, and to nobody; and other commands.                         *)
Commanded ==
  {<<47>> \o s \o <<10>> : s \in [1 .. 3 -> {32, 109, 113}]}
  \cup {<<47, 109, 32>> \o s \o <<10>> :
          s \in [1 .. 4 -> {32, 109}] \cup {<<113, 32, 109>>}}
  \cup {<<47, 113, 10, 89, 10>>, <<47, 105, 10>>, <<47, 108, 10>>}

(* At the login, 'q' is free and 'm' is taken; 'y' and 'Y' confirm.        *)
MCStreams ==
  [s \in UserStates |->
     CASE s = "login" -> BoundedSeq({10, 32, 47, 109, 113}, MaxLen)
       [] s = "chat" -> Typed \cup Commanded
       [] s = "exit" -> BoundedSeq({13, 10, 32, 89, 121}, MaxLen)]

MCUserName == <<113>>
MCOthers == <<109>> :> "chat" @@ <<109, 109>> :> "exit"

(* Ask to exit, and end the line as telnet does.                           *)
CrLfStreams ==
  [s \in UserStates |-> IF s = "chat" THEN {<<47, 101, 13, 10>>} ELSE {}]

(* Something to say that is longer than the buffer.                        *)
LongStreams ==
  [s \in UserStates |->
     IF s = "chat" THEN {<<109, 109, 109, 109, 109, 109, 10>>} ELSE {}]

=============================================================================
