----------------------------- MODULE MCServices -----------------------------
(***************************************************************************)
(* The parts that share no state with the rest: what a request handler may *)
(* call besides the cache and the scheduler (broadcasts, mail, the log,    *)
(* the database, objects that are rows, pages and their phrases) and the   *)
(* build tool.  Checking each by itself checks them side by side: a        *)
(* behaviour runs one of them.                                             *)
(***************************************************************************)
EXTENDS WebSocketsListener, Mail, Logger, SqlConnections, ObjectMapping, Toolkit,
        Translations, TLC

CONSTANTS s1, s2, s3, email, nick, plain, quoted

VARIABLE part

vars == <<part, sockets, mail, logger, connections, mapping, toolkit, translating>>

McListenerOf == [s \in Sockets |-> IF s = s3 THEN 2 ELSE 1]

(* A join behind a splitter, and one with a key of the same name. *)
McJoins == {<<"splitter", "id">>, <<"c", "id">>}

(* The second field tells rows apart for nobody: all match it. *)
McValues == [f \in Fields |-> IF f = email THEN {1, 2} ELSE {1}]

(* The text behind the quotation mark is not read back. *)
McReread == [p \in Phrases |-> plain]

McPhrasesOf == [page \in Pages |-> {plain}]

(* A plain text, and one with a line that is a single dot. *)
McTexts == {<<"content">>, <<"content", "dot", "content">>}

Init ==
  /\ part \in {"broadcasts", "mail", "log", "database", "objects", "toolkit", "pages"}
  /\ ListenerInit /\ MailInit /\ LogInit /\ DatabaseInit /\ MappingInit /\ ToolkitInit
  /\ TranslationsInit
  /\ part # "mail" => mode = [connection |-> "ssl", auth |-> "plain", text |-> <<"content">>]
  /\ part # "toolkit" => dropbox.package = dropbox.md5

Next ==
  \/ part = "broadcasts" /\ ListenerNext
     /\ UNCHANGED <<part, mail, logger, connections, mapping, toolkit, translating>>
  \/ part = "mail" /\ MailNext
     /\ UNCHANGED <<part, sockets, logger, connections, mapping, toolkit, translating>>
  \/ part = "log" /\ LogNext
     /\ UNCHANGED <<part, sockets, mail, connections, mapping, toolkit, translating>>
  \/ part = "database" /\ DatabaseNext
     /\ UNCHANGED <<part, sockets, mail, logger, mapping, toolkit, translating>>
  \/ part = "objects" /\ MappingNext
     /\ UNCHANGED <<part, sockets, mail, logger, connections, toolkit, translating>>
  \/ part = "toolkit" /\ ToolkitNext
     /\ UNCHANGED <<part, sockets, mail, logger, connections, mapping, translating>>
  \/ part = "pages" /\ TranslationsNext
     /\ UNCHANGED <<part, sockets, mail, logger, connections, mapping, toolkit>>

Spec == Init /\ [][Next]_vars

Perms ==
  Permutations({s1, s2}) \cup Permutations(Workers) \cup Permutations(Messages)
=============================================================================
