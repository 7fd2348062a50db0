------------------------------ MODULE Messages ------------------------------
(***************************************************************************)
(* What users and server say to each other, at the grain the properties    *)
(* tell apart: a line of input is its kind and one word, a message to a    *)
(* user is its kind, the user it is about and one more datum.  Wording,    *)
(* line breaks and the '>' after each message are left out.                *)
(***************************************************************************)
CONSTANTS
  Words,   \* the words a line may hold
  Names,   \* the words ac_validate_username accepts
  Yes,     \* the word "y", in either case
  NoName   \* the empty string a user has for a name before login

ASSUME MessagesAssumption ==
  /\ Names \subseteq Words
  /\ Yes \in Words \ Names
  /\ NoName \notin Words

(* What io.c makes of a line.  text: no leading '/'.  help: an unknown     *)
(* command too, or the prefix alone.  bare_whisper: no message follows.    *)
LineKinds ==
  {"empty", "text", "help", "exit", "info", "list", "whisper", "bare_whisper"}

Line == [kind : LineKinds, word : Words]

ReplyKinds ==
  {"greeting", "prompt", "taken", "invalid", "welcome", "you", "help", "info",
   "list", "notfound", "notinchat", "usage", "ack", "confirm", "goodbye",
   "refused"}

(* Messages that reach a user because of what another one did.             *)
NoticeKinds == {"joined", "said", "left", "whispered"}

Msg ==
  [kind : ReplyKinds \cup NoticeKinds,
   name : Names \cup {NoName},
   body : Words \cup {NoName} \cup SUBSET (Names \cup {NoName})]

M(kind, name, body) == [kind |-> kind, name |-> name, body |-> body]

(* A message that is about nobody.                                         *)
Plain(kind) == M(kind, NoName, NoName)

=============================================================================
