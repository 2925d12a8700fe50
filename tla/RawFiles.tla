------------------------------ MODULE RawFiles ------------------------------
(***************************************************************************)
(* Static files (routers/rawfilehandler.cpp): a request is answered from   *)
(* the cache that all workers share, or from the disk by way of the cache. *)
(* An answer carries a validator, ETag, which the browser sends back when  *)
(* it asks again, and which is then compared with that of the data at hand *)
(* (webdatacontainer.cpp, htmlData() in globals.cpp).                      *)
(*                                                                         *)
(* Of the cache (ByteCache.tla) only this is kept: what was put may be got *)
(* until it is put again or evicted, which may happen at any time.  A      *)
(* debug build, which passes by the cache, behaves as if all were evicted. *)
(* A version of a file is named by the moment it was written, of which the *)
(* file system may keep less (Grain) and the validator less again (Width). *)
(* Of all the copies browsers keep one is followed, any one: what the      *)
(* others hold has no effect on the server.  The aliases /vsteams.js and   *)
(* /vsteams.css stand for the file they find.                              *)
(***************************************************************************)
EXTENDS Naturals, FiniteSets, Functions

CONSTANTS
  Workers,
  Paths,
  Translated,       \* the paths that end in .js, .css or .html
  Docs,             \* those that contain /doc
  Langs, NoLang,    \* languageList(); no language chosen
  Length(_, _),     \* bytes of a version in a language
  Packed(_),        \* bytes that so many bytes deflate to
  Grain,            \* the unit of the file system's times, in ms
  Width,            \* moments that the validator tells apart, 2^32 ms
  None,             \* no validator, no copy, no moment
  Start,            \* bound: the moment the server starts
  MaxTime           \* bound: the last moment of a write

(* What a validator holds of a modification time.                          *)
Stamp(time) == ((time \div Grain) * Grain) % Width

ASSUME FilesAssumption ==
  /\ Docs \subseteq Paths /\ Translated \subseteq Paths
  /\ NoLang \notin Langs
  /\ MaxTime \in Nat /\ Start \in 1..MaxTime /\ Grain \in Nat \ {0} /\ Width \in Nat \ {0}
  /\ \A t, v \in 1..MaxTime, l \in Langs \cup {NoLang} : <<Stamp(t), Length(v, l)>> # None

VARIABLES
  clock,      \* moments so far
  disk,       \* version of each file, 0 if there is none
  cache,      \* what can be got, by path and postfix
  at,         \* where each worker is in handle()
  request,    \* what it was asked
  data,       \* webData, or what the cache returned
  copy,       \* some copy of an answer that a browser keeps
  answer      \* the answer given by the last step, if it was one

vars == <<clock, disk, cache, at, request, data, copy, answer>>

Tongues == Langs \cup {NoLang}

-----------------------------------------------------------------------------
(* The language a file is translated to, and the keys to read and to write *)
(* under.  Mutant: a translation without its language.                     *)
TextLang(r) == IF r.path \in Translated \ Docs THEN r.lang ELSE NoLang

ReadKey(r) == <<r.path, IF r.path \in Translated THEN r.lang ELSE NoLang>>
WriteKeyPlain(r) == <<r.path, NoLang>>
WriteKey(r) == <<r.path, TextLang(r)>>

(* WebDataContainer::eTag() of data of some length.  Mutant: with the      *)
(* length only.                                                            *)
TagLength(time, length) == IF time = None THEN None ELSE <<0, length>>
Tag(time, length) == IF time = None THEN None ELSE <<Stamp(time), length>>

(* The validator that is sent is made from the length of what is sent.     *)
SentLength(d, deflate) ==
  IF deflate THEN Packed(Length(d.version, d.lang)) ELSE Length(d.version, d.lang)
SentTag(d, deflate) == Tag(d.time, SentLength(d, deflate))

ETag(d) == SentTag(d, FALSE)

-----------------------------------------------------------------------------
(* The files were deployed together, some time ago.                        *)
Init ==
  /\ clock = Start /\ \E t \in 1..Start : disk = [p \in Paths |-> t]
  /\ cache = [k \in {} |-> None]
  /\ at = [w \in Workers |-> "idle"]
  /\ request = [w \in Workers |-> None] /\ data = [w \in Workers |-> None]
  /\ copy = None /\ answer = None

(* handle() is called for a file that is there.  The language is that in   *)
(* the URL or else the default one of the thread, which may be another the *)
(* next time the same URL is asked for.  The browser may send the          *)
(* validator of the copy.                                                  *)
Handle(w) ==
  /\ at[w] = "idle" /\ at' = [at EXCEPT ![w] = "lookup"]
  /\ \E p \in Paths, lang \in Tongues, held \in BOOLEAN :
       /\ disk[p] # 0
       /\ held => copy # None /\ copy.data.path = p
       /\ request' = [request EXCEPT ![w] =
            [path |-> p, lang |-> lang, held |-> held]]
  /\ answer' = None
  /\ UNCHANGED <<clock, disk, cache, data, copy>>

(* Compare validators and write the answer d to worker w's socket.  The    *)
(* browser, which takes deflated data or does not, may keep what it gets.  *)
Respond(w, d) ==
  LET r    == request[w]
      good == r.held /\ copy.tag # None /\ copy.tag = ETag(d)
      sent == {[data |-> d, deflated |-> deflate, tag |-> SentTag(d, deflate)] : deflate \in BOOLEAN}
  IN /\ answer' = [status |-> IF good THEN 304 ELSE 200, data |-> d,
                    path |-> r.path, lang |-> r.lang, held |-> r.held]
     /\ copy' \in IF copy = None THEN {None} \cup sent ELSE {copy}
     /\ at' = [at EXCEPT ![w] = "idle"]
     /\ request' = [request EXCEPT ![w] = None]
     /\ data' = [data EXCEPT ![w] = None]

GetCached(w) ==
  /\ at[w] = "lookup" /\ ReadKey(request[w]) \in DOMAIN cache
  /\ Respond(w, cache[ReadKey(request[w])])
  /\ UNCHANGED <<clock, disk, cache>>

(* Nothing in the cache: open the file and read it all, in the language it *)
(* is translated to.                                                       *)
ReadAll(w) ==
  LET r == request[w]
  IN /\ at[w] = "lookup" /\ ReadKey(r) \notin DOMAIN cache /\ disk[r.path] # 0
     /\ at' = [at EXCEPT ![w] = "read"]
     /\ data' = [data EXCEPT ![w] =
          [path |-> r.path, version |-> disk[r.path], lang |-> TextLang(r), time |-> None]]
     /\ answer' = None
     /\ UNCHANGED <<clock, disk, cache, request, copy>>

(* The file has gone in the meantime: somebody else's request.             *)
OpenFails(w) ==
  /\ at[w] = "lookup" /\ ReadKey(request[w]) \notin DOMAIN cache
  /\ disk[request[w].path] = 0
  /\ at' = [at EXCEPT ![w] = "idle"]
  /\ request' = [request EXCEPT ![w] = None]
  /\ answer' = None
  /\ UNCHANGED <<clock, disk, cache, data, copy>>

(* When was it modified?                                                   *)
LastModified(w) ==
  /\ at[w] = "read" /\ at' = [at EXCEPT ![w] = "stat"]
  /\ data' = [data EXCEPT ![w].time =
                IF disk[request[w].path] = 0 THEN None ELSE disk[request[w].path]]
  /\ answer' = None
  /\ UNCHANGED <<clock, disk, cache, request, copy>>

Put(w) ==
  /\ at[w] = "stat"
  /\ cache' = [k \in DOMAIN cache \cup {WriteKey(request[w])} |->
                 IF k = WriteKey(request[w]) THEN data[w] ELSE cache[k]]
  /\ Respond(w, data[w])
  /\ UNCHANGED <<clock, disk>>

-----------------------------------------------------------------------------
(* Around it: the cache makes room, or is lost with the process, and files *)
(* are written and deleted.                                                *)
Evict ==
  /\ \E key \in DOMAIN cache : cache' = Restrict(cache, DOMAIN cache \ {key})
  /\ answer' = None
  /\ UNCHANGED <<clock, disk, at, request, data, copy>>

WriteFile ==
  /\ clock < MaxTime /\ clock' = clock + 1
  /\ \E p \in Paths : disk' = [disk EXCEPT ![p] = clock + 1]
  /\ answer' = None
  /\ UNCHANGED <<cache, at, request, data, copy>>

DeleteFile ==
  /\ \E p \in Paths : disk[p] # 0 /\ disk' = [disk EXCEPT ![p] = 0]
  /\ answer' = None
  /\ UNCHANGED <<clock, cache, at, request, data, copy>>

Next ==
  \/ \E w \in Workers : Handle(w) \/ GetCached(w) \/ ReadAll(w) \/ OpenFails(w)
                          \/ LastModified(w) \/ Put(w)
  \/ Evict \/ WriteFile \/ DeleteFile

Spec == Init /\ [][Next]_vars

-----------------------------------------------------------------------------
(* The file was written between readAll() and lastModified().              *)
Overtaken(d) == d.time # d.version

SameContent(d, e) == d.path = e.path /\ d.version = e.version /\ d.lang = e.lang

(* The variables have their types; data are at hand while they are stored. *)
TypeOK ==
  /\ clock \in 1..MaxTime
  /\ \A p \in Paths : disk[p] \in 0..clock
  /\ DOMAIN cache \subseteq Paths \X Tongues
  /\ \A k \in DOMAIN cache : cache[k].path = k[1] /\ cache[k].version \in 1..clock
  /\ \A w \in Workers :
       /\ at[w] \in {"idle", "lookup", "read", "stat"}
       /\ data[w] # None <=> at[w] \in {"read", "stat"}
       /\ data[w] # None => data[w].time \in 1..clock \cup {None}

(* Whatever mixture of languages is asked for, a translated file comes in  *)
(* the language of the request, and documents and other files come as they *)
(* are, although documents are looked up under one key and stored under    *)
(* another.                                                                *)
RightLanguage ==
  answer # None =>
    /\ answer.data.path = answer.path
    /\ answer.data.lang = IF answer.path \in Translated \ Docs THEN answer.lang ELSE NoLang

(* What the browser keeps and what it would be sent are texts of one file  *)
(* that no validator tells apart: as long as each other on their way, and  *)
(* of moments with one stamp, as all languages of a version are, or with a *)
(* time that one of them got from a later write.                           *)
Confusable(c, d) ==
  /\ c.data.path = d.path /\ SentLength(c.data, c.deflated) = SentLength(d, FALSE)
  /\ Stamp(c.data.version) = Stamp(d.version) \/ Overtaken(c.data) \/ Overtaken(d)

(* "Requested cache data is good, sending only header": a browser that is  *)
(* told to keep its copy has what it would have been sent, whatever was    *)
(* written or evicted since.  The code leaves open that the two are of one *)
(* length and either was overtaken by a write between reading it and       *)
(* reading its time, or their moments have one stamp, be it in different   *)
(* languages; there is no other way to be wrong.                           *)
NotModifiedIsTrue ==
  answer # None /\ answer.status = 304 =>
    SameContent(copy.data, answer.data) \/ Confusable(copy, answer.data)

(* A browser that has the data, with the right time, is not sent it again. *)
(* Not so for a copy that came deflated: its validator was made from the   *)
(* deflated length, which is another as a rule.                            *)
NotSentTwice ==
  answer # None /\ answer.status = 200 /\ answer.held =>
    \/ copy.deflated \/ copy.data.time = None
    \/ copy.data.time # answer.data.time \/ ~SameContent(copy.data, answer.data)

(* A validator tells whether a copy is good, in both directions, up to the *)
(* exceptions of each.                                                     *)
ValidatorsTrue == NotModifiedIsTrue /\ NotSentTwice
=============================================================================
