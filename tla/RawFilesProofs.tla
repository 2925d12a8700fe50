--------------------------- MODULE RawFilesProofs ---------------------------
(***************************************************************************)
(* For any number of workers, files, languages and writes, static files    *)
(* come in the right language and validators tell the truth.  The          *)
(* properties are not inductive: they need to know under which key what    *)
(* data is cached, what a worker holds for its request, and that a copy's  *)
(* validator was made from the copy.                                       *)
(***************************************************************************)
EXTENDS RawFiles, TLAPS

Moments == 1..MaxTime

(* Data of a file in the language in which that file is read.              *)
IsData(d) ==
  /\ d.path \in Paths /\ d.version \in Moments /\ d.lang \in Tongues
  /\ d.time # None => d.time \in Moments

DiskKnown ==
  /\ clock \in Moments
  /\ DOMAIN disk = Paths /\ \A p \in Paths : disk[p] \in 0..clock

(* Cached data is of the path and in the language of its key, and only     *)
(* translations have a language.                                           *)
CacheKeyed ==
  \A k \in DOMAIN cache :
    /\ IsData(cache[k])
    /\ k = <<cache[k].path, cache[k].lang>>
    /\ cache[k].path \notin Translated \ Docs => cache[k].lang = NoLang

(* What is asked for, and what was read for it.                            *)
WorkKnown ==
  /\ DOMAIN at = Workers /\ DOMAIN request = Workers /\ DOMAIN data = Workers
  /\ \A w \in Workers :
       /\ at[w] \in {"idle", "lookup", "read", "stat"}
       /\ at[w] # "idle" =>
            /\ request[w].path \in Paths /\ request[w].lang \in Tongues
            /\ request[w].held => copy # None /\ copy.data.path = request[w].path
       /\ at[w] \in {"read", "stat"} =>
            /\ data[w].path = request[w].path /\ data[w].lang = TextLang(request[w])
            /\ data[w].version \in Moments
            /\ {"path", "version", "lang", "time"} = DOMAIN data[w]
       /\ at[w] = "stat" => IsData(data[w])

(* A copy is of data, with the validator that was sent with it.            *)
CopyTagged ==
  copy # None => IsData(copy.data) /\ copy.tag = SentTag(copy.data, copy.deflated)
                 /\ copy.deflated \in BOOLEAN

IInv ==
  DiskKnown /\ CacheKeyed /\ WorkKnown /\ CopyTagged /\ RightLanguage /\ ValidatorsTrue

LEMMA InitEstablishes == Init => IInv
<1> SUFFICES ASSUME Init PROVE IInv OBVIOUS
<1>1. DOMAIN cache = {} BY DEF Init
<1> QED
  BY <1>1, FilesAssumption DEF Init, IInv, DiskKnown, Moments, CacheKeyed, WorkKnown, CopyTagged,
     RightLanguage, ValidatorsTrue, NotModifiedIsTrue, NotSentTwice

(* Equal validators are of equal stamps and lengths.                       *)
LEMMA SameTag ==
  ASSUME NEW d, NEW e, NEW deflate \in BOOLEAN,
         SentTag(d, deflate) # None, SentTag(d, deflate) = ETag(e)
  PROVE  /\ d.time # None /\ e.time # None /\ Stamp(d.time) = Stamp(e.time)
         /\ SentLength(d, deflate) = SentLength(e, FALSE)
<1>1. d.time # None /\ e.time # None BY DEF SentTag, ETag, Tag
<1>2. <<Stamp(d.time), SentLength(d, deflate)>> = <<Stamp(e.time), SentLength(e, FALSE)>>
  BY <1>1 DEF SentTag, ETag, Tag
<1> QED BY <1>1, <1>2

(* A validator is there if there is a time.                                *)
LEMMA TagThere ==
  ASSUME NEW d, IsData(d), d.time # None
  PROVE  SentTag(d, FALSE) # None
<1>1. d.time \in 1..MaxTime /\ d.version \in 1..MaxTime /\ d.lang \in Langs \cup {NoLang}
  BY DEF IsData, Moments, Tongues
<1>2. <<Stamp(d.time), Length(d.version, d.lang)>> # None BY <1>1, FilesAssumption
<1> QED BY <1>2 DEF SentTag, SentLength, Tag

(* An answer with the right data is a right answer.                        *)
LEMMA RespondKeeps ==
  ASSUME IInv, NEW w \in Workers, at[w] # "idle", NEW d, IsData(d),
         d.path = request[w].path, d.lang = TextLang(request[w]),
         Respond(w, d), DiskKnown', CacheKeyed'
  PROVE  IInv'
<1> DEFINE r == request[w]
           good == r.held /\ copy.tag # None /\ copy.tag = ETag(d)
           sent == {[data |-> d, deflated |-> deflate, tag |-> SentTag(d, deflate)] :
                      deflate \in BOOLEAN}
<1>1. /\ answer' = [status |-> IF good THEN 304 ELSE 200, data |-> d,
                    path |-> r.path, lang |-> r.lang, held |-> r.held]
      /\ copy' \in IF copy = None THEN {None} \cup sent ELSE {copy}
      /\ at' = [at EXCEPT ![w] = "idle"]
      /\ request' = [request EXCEPT ![w] = None]
      /\ data' = [data EXCEPT ![w] = None]
  BY DEF Respond
<1>2. CopyTagged'
  <2>1. CASE copy # None BY <1>1, <2>1 DEF IInv, CopyTagged
  <2>2. CASE copy = None
    <3>1. \A c \in sent : IsData(c.data) /\ c.tag = SentTag(c.data, c.deflated) /\ c.deflated \in BOOLEAN
      OBVIOUS
    <3> QED BY <1>1, <2>2, <3>1 DEF CopyTagged
  <2> QED BY <2>1, <2>2
<1>3. WorkKnown'
  <2>1. \A v \in Workers : at'[v] # "idle" =>
          at'[v] = at[v] /\ request'[v] = request[v] /\ data'[v] = data[v]
    BY <1>1 DEF IInv, WorkKnown
  <2>2. copy # None => copy' = copy BY <1>1
  <2>3. \A v \in Workers : at'[v] \in {"idle", "lookup", "read", "stat"} BY <1>1 DEF IInv, WorkKnown
  <2>4. DOMAIN at' = Workers /\ DOMAIN request' = Workers /\ DOMAIN data' = Workers
    BY <1>1 DEF IInv, WorkKnown
  <2> QED BY <2>1, <2>2, <2>3, <2>4 DEF IInv, WorkKnown
<1>4. RightLanguage' BY <1>1 DEF RightLanguage, TextLang
<1>5. r.held => copy # None /\ copy' = copy BY <1>1 DEF IInv, WorkKnown
<1>6. answer'.status = IF good THEN 304 ELSE 200 BY <1>1
<1>7. answer'.data = d /\ answer'.held = r.held BY <1>1
<1>8. r.held => /\ IsData(copy.data) /\ copy.tag = SentTag(copy.data, copy.deflated)
                /\ copy.deflated \in BOOLEAN /\ copy.data.path = d.path
  BY <1>5 DEF IInv, CopyTagged, WorkKnown
<1>9. NotModifiedIsTrue'
  <2> SUFFICES ASSUME good PROVE Confusable(copy, d)
    BY <1>5, <1>6, <1>7 DEF NotModifiedIsTrue
  <2>1. /\ Stamp(copy.data.time) = Stamp(d.time)
        /\ SentLength(copy.data, copy.deflated) = SentLength(d, FALSE)
    BY <1>8, SameTag
  <2> QED BY <1>8, <2>1 DEF Confusable, Overtaken
<1>10. NotSentTwice'
  <2> SUFFICES ASSUME ~good, r.held, ~copy.deflated, copy.data.time # None,
                      copy.data.time = d.time, SameContent(copy.data, d)
               PROVE  FALSE
    BY <1>5, <1>6, <1>7 DEF NotSentTwice
  <2>1. copy.deflated = FALSE BY <1>8
  <2>2. copy.tag # None BY <1>8, <2>1, TagThere
  <2>3. copy.tag = ETag(d) BY <1>8, <2>1 DEF SameContent, SentTag, ETag, SentLength
  <2> QED BY <2>2, <2>3
<1> QED BY <1>2, <1>3, <1>4, <1>9, <1>10 DEF IInv, ValidatorsTrue

(* Other steps give no answer and leave the copies alone.                  *)
LEMMA OthersKeep ==
  ASSUME IInv, answer' = None, UNCHANGED copy, DiskKnown', CacheKeyed', WorkKnown'
  PROVE  IInv'
BY DEF IInv, CopyTagged, RightLanguage, ValidatorsTrue, NotModifiedIsTrue, NotSentTwice

LEMMA SameWork ==
  ASSUME IInv, UNCHANGED <<at, request, data, copy>>
  PROVE  WorkKnown'
BY DEF IInv, WorkKnown

(* Every action keeps the invariant. *)
LEMMA Step == IInv /\ [Next]_vars => IInv'
<1> SUFFICES ASSUME IInv, [Next]_vars PROVE IInv' OBVIOUS
<1>1. ASSUME NEW w \in Workers, Handle(w) PROVE IInv'
  <2>1. PICK p \in Paths, lang \in Tongues, held \in BOOLEAN :
          /\ held => copy # None /\ copy.data.path = p
          /\ request' = [request EXCEPT ![w] = [path |-> p, lang |-> lang, held |-> held]]
    BY <1>1 DEF Handle
  <2>2. /\ at' = [at EXCEPT ![w] = "lookup"] /\ answer' = None
        /\ UNCHANGED <<clock, disk, cache, data, copy>>
    BY <1>1 DEF Handle
  <2>3. WorkKnown' BY <2>1, <2>2 DEF IInv, WorkKnown
  <2> QED BY <2>2, <2>3, OthersKeep DEF IInv, DiskKnown, CacheKeyed
<1>2. ASSUME NEW w \in Workers, GetCached(w) PROVE IInv'
  <2> DEFINE k == ReadKey(request[w])
             d == cache[k]
  <2>1. /\ at[w] = "lookup" /\ k \in DOMAIN cache /\ Respond(w, d)
        /\ UNCHANGED <<clock, disk, cache>>
    BY <1>2 DEF GetCached
  <2>2. /\ IsData(d) /\ k = <<d.path, d.lang>>
        /\ d.path \notin Translated \ Docs => d.lang = NoLang
    BY <2>1 DEF IInv, CacheKeyed
  <2>3. d.path = request[w].path /\ d.lang = TextLang(request[w])
    BY <2>2 DEF ReadKey, TextLang
  <2>4. DiskKnown' /\ CacheKeyed' BY <2>1 DEF IInv, DiskKnown, CacheKeyed
  <2> HIDE DEF d, k
  <2> QED BY <2>1, <2>2, <2>3, <2>4, RespondKeeps
<1>3. ASSUME NEW w \in Workers, ReadAll(w) PROVE IInv'
  <2> DEFINE d == [path |-> request[w].path, version |-> disk[request[w].path],
                   lang |-> TextLang(request[w]), time |-> None]
  <2>1. /\ at[w] = "lookup" /\ disk[request[w].path] # 0
        /\ at' = [at EXCEPT ![w] = "read"] /\ data' = [data EXCEPT ![w] = d]
        /\ answer' = None /\ UNCHANGED <<clock, disk, cache, request, copy>>
    BY <1>3 DEF ReadAll
  <2>2. request[w].path \in Paths BY <2>1 DEF IInv, WorkKnown
  <2>3. disk[request[w].path] \in Moments BY <2>1, <2>2, FilesAssumption DEF IInv, DiskKnown, Moments
  <2>4. WorkKnown' BY <2>1, <2>2, <2>3 DEF IInv, WorkKnown
  <2> QED BY <2>1, <2>4, OthersKeep DEF IInv, DiskKnown, CacheKeyed
<1>4. ASSUME NEW w \in Workers, OpenFails(w) PROVE IInv'
  <2>1. /\ at' = [at EXCEPT ![w] = "idle"] /\ request' = [request EXCEPT ![w] = None]
        /\ answer' = None /\ UNCHANGED <<clock, disk, cache, data, copy>>
    BY <1>4 DEF OpenFails
  <2>2. WorkKnown' BY <2>1 DEF IInv, WorkKnown
  <2> QED BY <2>1, <2>2, OthersKeep DEF IInv, DiskKnown, CacheKeyed
<1>5. ASSUME NEW w \in Workers, LastModified(w) PROVE IInv'
  <2> DEFINE t == IF disk[request[w].path] = 0 THEN None ELSE disk[request[w].path]
  <2>1. /\ at[w] = "read" /\ at' = [at EXCEPT ![w] = "stat"]
        /\ data' = [data EXCEPT ![w] = [data[w] EXCEPT !.time = t]]
        /\ answer' = None /\ UNCHANGED <<clock, disk, cache, request, copy>>
    BY <1>5 DEF LastModified
  <2>2. request[w].path \in Paths BY <2>1 DEF IInv, WorkKnown
  <2>3. t # None => t \in Moments BY <2>2, FilesAssumption DEF IInv, DiskKnown, Moments
  <2> HIDE DEF t
  <2>4. /\ DOMAIN data[w] = {"path", "version", "lang", "time"}
        /\ data[w].path = request[w].path /\ data[w].lang = TextLang(request[w])
        /\ data[w].version \in Moments
    BY <2>1 DEF IInv, WorkKnown
  <2>5. /\ DOMAIN data'[w] = {"path", "version", "lang", "time"}
        /\ data'[w].path = data[w].path /\ data'[w].lang = data[w].lang
        /\ data'[w].version = data[w].version /\ data'[w].time = t
    BY <2>1, <2>4 DEF IInv, WorkKnown
  <2>6. TextLang(request[w]) \in Tongues BY <2>1 DEF IInv, WorkKnown, TextLang, Tongues
  <2>7. IsData(data'[w]) BY <2>2, <2>3, <2>4, <2>5, <2>6 DEF IsData
  <2>8. WorkKnown'
    <3>1. \A v \in Workers \ {w} : at'[v] = at[v] /\ data'[v] = data[v] BY <2>1 DEF IInv, WorkKnown
    <3>2. at'[w] = "stat" /\ DOMAIN at' = Workers /\ DOMAIN data' = Workers
      BY <2>1 DEF IInv, WorkKnown
    <3> QED BY <2>1, <2>4, <2>5, <2>7, <3>1, <3>2 DEF IInv, WorkKnown
  <2> QED BY <2>1, <2>8, OthersKeep DEF IInv, DiskKnown, CacheKeyed
<1>6. ASSUME NEW w \in Workers, Put(w) PROVE IInv'
  <2> DEFINE key == WriteKey(request[w])
             d == data[w]
  <2>1. /\ at[w] = "stat" /\ Respond(w, d) /\ UNCHANGED <<clock, disk>>
        /\ cache' = [k \in DOMAIN cache \cup {key} |-> IF k = key THEN d ELSE cache[k]]
    BY <1>6 DEF Put
  <2>2. IsData(d) /\ d.path = request[w].path /\ d.lang = TextLang(request[w])
    BY <2>1 DEF IInv, WorkKnown
  <2>3. key = <<d.path, d.lang>> /\ (d.path \notin Translated \ Docs => d.lang = NoLang)
    BY <2>2 DEF WriteKey, TextLang
  <2> HIDE DEF key, d
  <2>4. CacheKeyed' BY <2>1, <2>2, <2>3 DEF IInv, CacheKeyed
  <2>5. DiskKnown' BY <2>1 DEF IInv, DiskKnown
  <2> QED BY <2>1, <2>2, <2>4, <2>5, RespondKeeps
<1>7. CASE Evict
  <2>1. PICK key \in DOMAIN cache : cache' = Restrict(cache, DOMAIN cache \ {key}) BY <1>7 DEF Evict
  <2>2. CacheKeyed' BY <2>1 DEF IInv, CacheKeyed, Restrict
  <2>3. answer' = None /\ UNCHANGED <<clock, disk, at, request, data, copy>> BY <1>7 DEF Evict
  <2> QED BY <2>2, <2>3, OthersKeep, SameWork DEF IInv, DiskKnown
<1>8. CASE WriteFile
  <2>1. /\ clock < MaxTime /\ clock' = clock + 1 /\ answer' = None
        /\ UNCHANGED <<cache, at, request, data, copy>>
    BY <1>8 DEF WriteFile
  <2>2. PICK p \in Paths : disk' = [disk EXCEPT ![p] = clock + 1] BY <1>8 DEF WriteFile
  <2>3. DiskKnown' BY <2>1, <2>2, FilesAssumption DEF IInv, DiskKnown, Moments
  <2> QED BY <2>1, <2>3, OthersKeep, SameWork DEF IInv, CacheKeyed
<1>9. CASE DeleteFile
  <2>1. answer' = None /\ UNCHANGED <<clock, cache, at, request, data, copy>> BY <1>9 DEF DeleteFile
  <2>2. PICK p \in Paths : disk' = [disk EXCEPT ![p] = 0] BY <1>9 DEF DeleteFile
  <2>3. DiskKnown' BY <2>1, <2>2, FilesAssumption DEF IInv, DiskKnown, Moments
  <2> QED BY <2>1, <2>3, OthersKeep, SameWork DEF IInv, CacheKeyed
<1>10. CASE UNCHANGED vars
  BY <1>10 DEF vars, IInv, DiskKnown, CacheKeyed, WorkKnown, CopyTagged, RightLanguage,
     ValidatorsTrue, NotModifiedIsTrue, NotSentTwice
<1> QED BY <1>1, <1>2, <1>3, <1>4, <1>5, <1>6, <1>7, <1>8, <1>9, <1>10 DEF Next

LEMMA Always == Spec => []IInv
<1> QED BY InitEstablishes, Step, PTL DEF Spec

(* Whatever languages are asked for, and whatever is cached under which    *)
(* key: an answer is in the language of its request                        *)
(* (routers/rawfilehandler.cpp).                                           *)
THEOREM LanguagesRight == Spec => []RightLanguage
<1>1. IInv => RightLanguage BY DEF IInv
<1> QED BY <1>1, Always, PTL

(* A browser is told to keep its copy only if it would be sent the same,   *)
(* or a text of the same file as long as its copy that has the same stamp  *)
(* (another language, another write) or was labelled with the time of a    *)
(* later write; and a good copy that did not come deflated is not sent     *)
(* again (rawfilehandler.cpp: handle(), webdatacontainer.cpp: eTag()).     *)
THEOREM ValidatorsTell == Spec => []ValidatorsTrue
<1>1. IInv => ValidatorsTrue BY DEF IInv
<1> QED BY <1>1, Always, PTL
=============================================================================
