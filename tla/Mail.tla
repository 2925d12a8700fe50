-------------------------------- MODULE Mail --------------------------------
(***************************************************************************)
(* One mail: SmtpSender::run() (smtpsender.cpp) and the SmtpClient it      *)
(* drives (3dparty/smtp/smtpclient.cpp) against a server that answers      *)
(* slowly, refuses, or goes away.  run() asks for the connection, the      *)
(* login and the mail one after the other and looks at no result, so a     *)
(* reply that comes after its wait has timed out is read by the next wait. *)
(* A reply is its code and whether it is its last line; addresses are left *)
(* out.  Of the text of a mail each line is kept as what it is to SMTP:    *)
(* sendMail() writes it as it is, so that a line that is a single dot ends *)
(* the mail there, and the lines behind it are commands to the server (of  *)
(* no kind it knows: a text that spells out commands is left out).  The    *)
(* socket has no event loop: bytes come in only inside a wait.             *)
(***************************************************************************)
EXTENDS Naturals, Sequences, FiniteSets, SequencesExt

CONSTANTS
  Recipients,  \* how many recipients the mail has: To, Cc and Bcc
  MaxReplies,  \* bound: replies under way or unread
  MailTexts    \* the texts a mail may have, line by line

TextLines == {"content", "dot"}

ASSUME MailAssumption ==
  Recipients \in Nat /\ MaxReplies \in Nat /\ MailTexts \subseteq Seq(TextLines)

VARIABLES
  mode,     \* [connection, auth, text]: connectionType, authMethod and the mail's lines
  pc,       \* the step run() is at
  waiting,  \* whether it waits for the reply to that step
  acked,    \* RCPT commands that were accepted
  sent,     \* what sendMail() returned: "none", "yes" or "no"
  buffer,   \* lines in the socket's buffer
  replies,  \* lines under way to the client
  smtp,     \* commands under way to the server
  session,  \* where the server is with it
  rcpts,    \* recipients the server has accepted for the mail at hand
  queued    \* recipients of the mail it took over, 0 for none

wires == <<buffer, replies, smtp>>
peers  == <<session, rcpts, queued>>
mail  == <<mode, pc, waiting, acked, sent, wires, peers>>

LastLine(c) == [code |-> c, last |-> TRUE]

MailInit ==
  /\ mode \in [connection : {"ssl", "tls"}, auth : {"plain", "login"}, text : MailTexts]
  /\ pc = "idle" /\ waiting = FALSE /\ acked = 0 /\ sent = "none"
  /\ buffer = <<>> /\ replies = <<>> /\ smtp = <<>>
  /\ session = "away" /\ rcpts = 0 /\ queued = 0

----------------------------------------------------------------------------
(* run(): "connectToHost", then each pair of a command and the wait for    *)
(* its reply.                                                              *)

(* What follows a wait whose reply was as it should be. *)
Following ==
  [greeting |-> "EHLO", EHLO |-> IF mode.connection = "tls" THEN "STARTTLS" ELSE "AUTH",
   STARTTLS |-> "encrypt", EHLO2 |-> "AUTH",
   AUTH |-> IF mode.auth = "login" THEN "user" ELSE "MAIL",
   user |-> "password", password |-> "MAIL",
   MAIL |-> IF Recipients = 0 THEN "DATA" ELSE "RCPT",
   RCPT |-> IF acked + 1 < Recipients THEN "RCPT" ELSE "DATA",
   DATA |-> "content", dot |-> "QUIT"]

(* The code a wait is for. *)
Wanted ==
  [greeting |-> 220, EHLO |-> 250, STARTTLS |-> 220, EHLO2 |-> 250,
   AUTH |-> IF mode.auth = "login" THEN 334 ELSE 235, user |-> 334, password |-> 235,
   MAIL |-> 250, RCPT |-> 250, DATA |-> 354, dot |-> 250]

GoodAnyRecipient(c, step) == c = Wanted[step] \/ step = "RCPT"

GoodAnyData(c, step) == c = Wanted[step] \/ step = "DATA"

Good(c, step) == c = Wanted[step]

(* A step that fails ends the function it is in; run() calls the next one. *)
Abandon(step) ==
  IF step \in {"greeting", "EHLO", "STARTTLS", "encrypt", "EHLO2"} THEN "AUTH"
  ELSE IF step \in {"AUTH", "user", "password"} THEN "MAIL"
  ELSE IF step = "QUIT" THEN "returned"
  ELSE "QUIT"

Commands == {"EHLO", "STARTTLS", "EHLO2", "AUTH", "user", "password", "MAIL", "RCPT",
             "DATA", "content", "dot", "QUIT"}

Replied == {"greeting", "EHLO", "STARTTLS", "EHLO2", "AUTH", "user", "password", "MAIL",
            "RCPT", "DATA", "dot"}

InSendMail(step) == step \in {"MAIL", "RCPT", "DATA", "content", "dot"}

Verdict(step, good) ==
  sent' = IF step = "dot" /\ good THEN "yes" ELSE IF InSendMail(step) /\ ~good THEN "no" ELSE sent

(* Bytes that have come in are taken up by whatever waits on the socket.   *)
Absorb(k) ==
  /\ buffer' = buffer \o SubSeq(replies, 1, k)
  /\ replies' = SubSeq(replies, k + 1, Len(replies))

ConnectToHost ==
  /\ pc = "idle"
  /\ \/ pc' = "greeting" /\ waiting' = TRUE /\ session' = "accepted"
     \/ pc' = Abandon("greeting") /\ waiting' = FALSE /\ session' = "away"
  /\ UNCHANGED <<mode, acked, sent, wires, rcpts, queued>>

(* What is written at a step: the lines of the text as they are, or the    *)
(* command.                                                                *)
Written(step) == IF step = "content" THEN mode.text ELSE <<step>>

(* sendMessage(): write() and waitForBytesWritten(), which may also read   *)
(* what has come in.                                                       *)
SendMessage(step) ==
  /\ pc = step /\ ~waiting /\ session # "away"
  /\ smtp' = smtp \o Written(step)
  /\ \E k \in 0..Len(replies) : Absorb(k)
  /\ pc' = CASE step = "content" -> "dot"
             [] step = "QUIT" -> "returned"
             [] OTHER -> step
  /\ waiting' = (step \in Replied)
  /\ UNCHANGED <<mode, acked, sent, peers>>

SendMessageTimeout(step) ==
  /\ pc = step /\ ~waiting
  /\ pc' = Abandon(step) /\ Verdict(step, FALSE)
  /\ UNCHANGED <<mode, waiting, acked, wires, peers>>

(* The lines up to the end of the first reply; all of them if it is not    *)
(* complete.                                                               *)
ReplyEnd(lines) ==
  IF \E i \in DOMAIN lines : lines[i].last
  THEN CHOOSE i \in DOMAIN lines :
         lines[i].last /\ \A j \in 1..(i - 1) : ~lines[j].last
  ELSE Len(lines)

(* waitForResponse(): waitForReadyRead() returns for new bytes only; the   *)
(* lines read afterwards may be older ones.                                *)
WaitForResponse(step) ==
  /\ pc = step /\ waiting
  /\ \E k \in 1..Len(replies) :
       LET lines == buffer \o SubSeq(replies, 1, k)
           n == ReplyEnd(lines)
           good == Good(lines[n].code, step)
       IN /\ buffer' = SubSeq(lines, n + 1, Len(lines))
          /\ replies' = SubSeq(replies, k + 1, Len(replies))
          /\ IF ~lines[n].last
             THEN UNCHANGED <<pc, waiting, sent, acked>>
             ELSE /\ waiting' = FALSE
                  /\ pc' = IF good THEN Following[step] ELSE Abandon(step)
                  /\ Verdict(step, good)
                  /\ acked' = IF step = "RCPT" /\ good THEN acked + 1 ELSE acked
  /\ UNCHANGED <<mode, smtp, peers>>

ResponseTimeout(step) ==
  /\ pc = step /\ waiting
  /\ waiting' = FALSE
  /\ pc' = Abandon(step) /\ Verdict(step, FALSE)
  /\ UNCHANGED <<mode, acked, wires, peers>>

(* startClientEncryption() and waitForEncrypted(). *)
WaitForEncrypted ==
  /\ pc = "encrypt"
  /\ pc' \in {"EHLO2", Abandon("encrypt")}
  /\ UNCHANGED <<mode, waiting, acked, sent, wires, peers>>
----------------------------------------------------------------------------
(* The server, as RFC 5321 has it.  It takes the lines one by one, answers *)
(* every one but those of a mail's content, and may refuse or go away.     *)

Reply(lines) ==
  /\ Len(replies) + Len(lines) <= MaxReplies
  /\ replies' = replies \o lines

Refuse == <<LastLine(500)>>

Greet ==
  /\ session = "accepted"
  /\ Reply(<<LastLine(220)>>) /\ session' = "greeted"
  /\ UNCHANGED <<mode, pc, waiting, acked, sent, buffer, smtp, rcpts, queued>>

(* What a command does in a state it is meant for: the next state and the  *)
(* reply.                                                                  *)
Granted ==
  CASE Head(smtp) \in {"EHLO", "EHLO2"} ->
         <<"hello", <<[code |-> 250, last |-> FALSE], LastLine(250)>>>>
    [] Head(smtp) = "STARTTLS" /\ session = "hello" -> <<"greeted", <<LastLine(220)>>>>
    [] Head(smtp) = "AUTH" /\ session = "hello" ->
         IF mode.auth = "login" THEN <<"user", <<LastLine(334)>>>> ELSE <<"authed", <<LastLine(235)>>>>
    [] Head(smtp) = "user" /\ session = "user" -> <<"password", <<LastLine(334)>>>>
    [] Head(smtp) = "password" /\ session = "password" -> <<"authed", <<LastLine(235)>>>>
    [] Head(smtp) = "MAIL" /\ session = "authed" -> <<"mail", <<LastLine(250)>>>>
    [] Head(smtp) = "RCPT" /\ session = "mail" -> <<"mail", <<LastLine(250)>>>>
    [] Head(smtp) = "DATA" /\ session = "mail" /\ rcpts > 0 -> <<"data", <<LastLine(354)>>>>
    [] Head(smtp) = "content" /\ session = "data" -> <<"data", <<>>>>
    [] Head(smtp) = "dot" /\ session = "data" -> <<"authed", <<LastLine(250)>>>>
    [] Head(smtp) = "QUIT" -> <<"gone", <<LastLine(221)>>>>
    [] OTHER -> <<session, Refuse>>

(* What is left of its state when it refuses. *)
Refused ==
  IF session \in {"user", "password"} THEN "hello" ELSE IF session = "data" THEN "authed"
  ELSE session

Serve ==
  /\ smtp # <<>> /\ session \notin {"away", "accepted", "gone"}
  /\ smtp' = Tail(smtp)
  /\ \/ /\ Reply(Granted[2]) /\ session' = Granted[1]
        /\ rcpts' = CASE Granted = <<"mail", <<LastLine(250)>>>> ->
                           IF Head(smtp) = "RCPT" THEN rcpts + 1 ELSE 0
                      [] OTHER -> rcpts
        /\ queued' = IF Head(smtp) = "dot" /\ session = "data" THEN rcpts ELSE queued
     \/ /\ Head(smtp) # "content" /\ Reply(Refuse) /\ session' = Refused
        /\ UNCHANGED <<rcpts, queued>>
  /\ UNCHANGED <<mode, pc, waiting, acked, sent, buffer>>

GoAway ==
  /\ session \notin {"away", "gone"}
  /\ session' = "gone"
  /\ UNCHANGED <<mode, pc, waiting, acked, sent, wires, rcpts, queued>>

----------------------------------------------------------------------------
MailNext ==
  \/ ConnectToHost
  \/ \E step \in Commands : SendMessage(step) \/ SendMessageTimeout(step)
  \/ \E step \in Replied : WaitForResponse(step) \/ ResponseTimeout(step)
  \/ WaitForEncrypted
  \/ Greet \/ Serve \/ GoAway

MailSpec == MailInit /\ [][MailNext]_mail

----------------------------------------------------------------------------
(* sendMail() returns true only for a mail that the server has taken over   *)
(* for every recipient, although run() goes on after steps that failed and *)
(* then reads the replies to those steps as replies to later ones.         *)
AcceptedIsTrue == sent = "yes" => queued = Recipients

(* The text has a line that is a single dot. *)
Dotted == \E i \in DOMAIN mode.text : mode.text[i] = "dot"

(* The text of a mail goes only to a server that is waiting for it.  Lines  *)
(* of it are taken for commands in one case alone: behind a line of the    *)
(* text that is a single dot, at which the server has ended the mail.      *)
ContentOnlyAsData ==
  smtp # <<>> /\ Head(smtp) \in TextLines =>
    \/ session \in {"data", "gone"}
    \/ Dotted /\ session = "authed" /\ rcpts = Recipients
=============================================================================
