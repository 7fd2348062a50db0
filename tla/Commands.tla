------------------------------ MODULE Commands ------------------------------
(***************************************************************************)
(* src/io.c:137-343, the part that reads: what is a username, what is a    *)
(* command, which command it is, to whom a whisper goes and what it says.  *)
(* Positions are C's: how many characters are before them.                 *)
(***************************************************************************)
EXTENDS LineReader

CONSTANTS UsernameMin, UsernameMax   \* 2 and 16

ASSUME CommandsAssumption == UsernameMin \in Nat \ {0} /\ UsernameMax \in Nat

Prefix == 47   \* AC_COMMAND_PREFIX

Lower == 97 .. 122
Upper == 65 .. 90
NameChar == Lower \cup Upper \cup 48 .. 57 \cup {95}

ValidateUsernameWrong(name) == Len(name) \in UsernameMin .. UsernameMax

ValidateUsername(name) ==
  /\ Len(name) \in UsernameMin .. UsernameMax
  /\ \A i \in DOMAIN name : name[i] \in NameChar

IsCommand(line) == line # <<>> /\ line[1] = Prefix

(* The aliases of ac_init_commands, by the codes of their letters.         *)
Aliases ==
  [help |-> {<<104>>, <<104, 101, 108, 112>>},
   exit |-> {<<101>>, <<101, 120, 105, 116>>, <<113>>, <<113, 117, 105, 116>>},
   info |-> {<<105>>, <<105, 110, 102, 111>>},
   list |-> {<<108>>, <<108, 105, 115, 116>>},
   whisper |-> {<<119>>, <<119, 104, 105, 115, 112, 101, 114>>,
                <<109>>, <<109, 115, 103>>}]

(* The loops that move a position over characters of a kind.  One that is  *)
(* past the end stays there.                                               *)
Pass(line, start, kind) ==
  IF start >= Len(line) THEN start
  ELSE Min({k \in start .. Len(line) : k = Len(line) \/ line[k + 1] \notin kind})

NotBlank == Byte \ {Blank}

CmdEnd(line) == Pass(line, 1, NotBlank)
RecipientStart(line) == Pass(line, CmdEnd(line) + 1, {Blank})
RecipientEnd(line) == Pass(line, RecipientStart(line), NotBlank)

MsgStartWrong(line) == RecipientEnd(line) + 1

MsgStart(line) == Pass(line, RecipientEnd(line) + 1, {Blank})

CmdStr(line) == SubSeq(line, 2, CmdEnd(line))
Recipient(line) == SubSeq(line, RecipientStart(line) + 1, RecipientEnd(line))
Message(line) == SubSeq(line, MsgStart(line) + 1, Len(line))

(* The command a line that IsCommand stands for; help also for the prefix  *)
(* alone and for what is no alias.                                         *)
Command(line) ==
  IF \E c \in DOMAIN Aliases : CmdStr(line) \in Aliases[c]
  THEN CHOOSE c \in DOMAIN Aliases : CmdStr(line) \in Aliases[c]
  ELSE "help"

(* ac_string_eq_ignore_case.                                               *)
ToLower(c) == IF c \in Upper THEN c + 32 ELSE c

EqIgnoreCase(s, t) ==
  Len(s) = Len(t) /\ \A i \in DOMAIN s : ToLower(s[i]) = ToLower(t[i])

(***************************************************************************)
(* "Usage: /whisper <username> <message>": the words of a line, without    *)
(* positions.                                                              *)
(***************************************************************************)

IsWhisper(line, to, said) ==
  /\ Blank \notin ToSet(to) /\ to # <<>>
  /\ said # <<>> /\ Head(said) # Blank
  /\ \E alias \in Aliases.whisper :
       /\ IsPrefix(<<Prefix>> \o alias, line)
       /\ \E m, n \in DOMAIN line :
            line = <<Prefix>> \o alias \o [k \in 1 .. m |-> Blank]
                     \o to \o [k \in 1 .. n |-> Blank] \o said

=============================================================================
