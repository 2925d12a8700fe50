---------------------------- MODULE Translations ----------------------------
(***************************************************************************)
(* Pages and the phrases in them, in a release build that collects phrases *)
(* for translation (GENERATE_TRANSLATIONS): Templator::generate() loads    *)
(* index.html once, fills it in and translates what stands in {{ }};       *)
(* translate() (globals.cpp) notes every phrase in TranslatorHelper, whose *)
(* save() joins the notes with those of earlier runs in a file.  Pages are *)
(* made by workers, save() is called by one thread, the process may end at *)
(* any moment.  What is read back from the file is less than was written:  *)
(* comments are written without the comma the pattern asks for, and a      *)
(* phrase that contains a quotation mark comes back cut off at it.  No     *)
(* phrase is empty: the pattern for {{ }} asks for a character.            *)
(***************************************************************************)
EXTENDS Naturals

CONSTANTS
  Makers,      \* workers that make pages
  Pages,       \* variants of index.html
  NoPage,      \* index.html is missing, or not loaded
  Phrases,     \* texts to translate
  PhrasesOf,   \* those in a page
  Reread,      \* what a phrase is after it was written to the file and read
  Comments,    \* notes for the translator
  NoComment,
  MaxEvents    \* bound: deployments, crashes, saves and failures of writing

ASSUME TranslationsAssumption ==
  /\ NoPage \notin Pages /\ NoComment \notin Comments
  /\ PhrasesOf \in [Pages -> SUBSET Phrases]
  /\ Reread \in [Phrases -> Phrases] /\ \A p \in Phrases : Reread[Reread[p]] = Reread[p]
  /\ MaxEvents \in Nat

VARIABLES
  index_html,    \* index.html
  templateData,  \* what generate() and generateLogined() have loaded
  making,        \* the page each worker makes: which, its language known, phrases left
  translations,  \* m_translations
  diskfile,      \* the lines of the file
  saving,        \* where save() is
  current,       \* what it has read
  promised,      \* history: phrases that a save() has put in the file
  torn,          \* history: save() did not write all it had, once
  events         \* (bound)

pages        == <<index_html, templateData, making>>
notes        == <<translations, diskfile, saving, current, promised, torn>>
translating  == <<pages, notes, events>>

NotMaking == [pc |-> "idle"]

TranslationsInit ==
  /\ index_html \in Pages
  /\ templateData = [kind \in {"plain", "logined"} |-> NoPage]
  /\ making = [w \in Makers |-> NotMaking]
  /\ translations = << >> /\ diskfile = << >>
  /\ saving = "no" /\ current = << >>
  /\ promised = {} /\ torn = FALSE /\ events = 0

Event == events < MaxEvents /\ events' = events + 1

----------------------------------------------------------------------------
(* The mutex covers the check and the loading.  A page that cannot be      *)
(* loaded is empty, and the next call tries again.                         *)
LoadTemplate(w, kind) ==
  LET data == IF templateData[kind] = NoPage THEN index_html ELSE templateData[kind]
  IN /\ making[w].pc = "idle"
     /\ templateData' = [templateData EXCEPT ![kind] = data]
     /\ making' = [making EXCEPT ![w] =
          IF data = NoPage THEN NotMaking
          ELSE [pc |-> "filling", kind |-> kind]]
     /\ UNCHANGED <<index_html, notes, events>>

Generate(w) == LoadTemplate(w, "plain")
GenerateLogined(w) == LoadTemplate(w, "logined")

(* The copy is filled in; title, article and the rest may bring phrases of *)
(* their own.  Without a language, or with one nobody translates to, every *)
(* phrase stands for itself and is not noted.                              *)
Replace(w, kind) ==
  /\ making[w].pc = "filling" /\ making[w].kind = kind
  /\ \E known \in BOOLEAN, more \in SUBSET Phrases :
       making' = [making EXCEPT ![w] =
         [pc |-> "translating", known |-> known,
          left |-> PhrasesOf[templateData[making[w].kind]] \cup more]]
  /\ UNCHANGED <<index_html, templateData, notes, events>>

Fill(w) == Replace(w, "plain")
FillLogined(w) == Replace(w, "logined")

Noted(p, dis) ==
  [k \in DOMAIN translations \cup {p} |->
     IF k = p /\ (dis # NoComment \/ p \notin DOMAIN translations) THEN dis ELSE translations[k]]

(* One phrase: appendTranslation() waits while save() holds append_mutex.  *)
Translate(w, p) ==
  /\ making[w].pc = "translating" /\ p \in making[w].left
  /\ IF making[w].known
     THEN /\ saving \in {"no", "reading"}
          /\ \E dis \in Comments \cup {NoComment} : translations' = Noted(p, dis)
     ELSE UNCHANGED translations
  /\ making' = [making EXCEPT ![w].left = @ \ {p}]
  /\ UNCHANGED <<index_html, templateData, diskfile, saving, current, promised, torn, events>>

PageDone(w) ==
  /\ making[w].pc = "translating" /\ making[w].left = {}
  /\ making' = [making EXCEPT ![w] = NotMaking]
  /\ UNCHANGED <<index_html, templateData, notes, events>>

----------------------------------------------------------------------------
(* save(): the file is read before the lock is taken.  It may not open.    *)
OpenAndRead ==
  /\ saving = "no" /\ Event
  /\ saving' = "reading" /\ current' = diskfile
  /\ UNCHANGED <<pages, translations, diskfile, promised, torn>>

Found == {Reread[p] : p \in DOMAIN current}

(* Mutant: what is in the file is not looked at. *)
JoinedNever == translations

Joined ==
  [p \in DOMAIN translations \cup Found |->
     IF p \in DOMAIN translations THEN translations[p] ELSE NoComment]

Join ==
  /\ saving = "reading"
  /\ saving' = "writing"
  /\ translations' = Joined
  /\ diskfile' = << >>
  /\ UNCHANGED <<pages, current, promised, torn, events>>

WriteAndClose ==
  /\ saving = "writing"
  /\ saving' = "no" /\ current' = << >>
  /\ diskfile' = translations
  /\ promised' = promised \cup DOMAIN translations
  /\ UNCHANGED <<pages, translations, torn, events>>

(* Nobody asks the stream whether the lines have got to the disk.          *)
WriteFails ==
  /\ saving = "writing" /\ Event
  /\ saving' = "no" /\ current' = << >>
  /\ \E lines \in SUBSET DOMAIN translations :
       diskfile' = [p \in lines |-> translations[p]]
  /\ torn' = TRUE
  /\ UNCHANGED <<pages, translations, promised>>

----------------------------------------------------------------------------
Deploy ==
  /\ Event
  /\ index_html' \in (Pages \cup {NoPage}) \ {index_html}
  /\ UNCHANGED <<templateData, making, notes>>

(* The process ends and another one starts. *)
Restart ==
  /\ Event
  /\ templateData' = [kind \in {"plain", "logined"} |-> NoPage]
  /\ making' = [w \in Makers |-> NotMaking]
  /\ translations' = << >> /\ saving' = "no" /\ current' = << >>
  /\ torn' = (torn \/ saving = "writing")
  /\ UNCHANGED <<index_html, diskfile, promised>>

TranslationsNext ==
  \/ \E w \in Makers :
       \/ Generate(w) \/ GenerateLogined(w)
       \/ Fill(w) \/ FillLogined(w)
       \/ \E p \in Phrases : Translate(w, p)
       \/ PageDone(w)
  \/ OpenAndRead \/ Join \/ WriteAndClose \/ WriteFails
  \/ Deploy \/ Restart

TranslationsSpec == TranslationsInit /\ [][TranslationsNext]_translating

----------------------------------------------------------------------------
(* A phrase that save() has once put in the file is found in it from then   *)
(* on, or that of it which can be read back, whatever is noted, saved and  *)
(* restarted afterwards; only a process that ends while it writes the file *)
(* takes the collection with it, and a write that fails a part of it.      *)
NothingForgotten ==
  saving # "writing" /\ ~torn =>
    \A p \in promised : {p, Reread[p]} \cap DOMAIN diskfile # {}
=============================================================================
