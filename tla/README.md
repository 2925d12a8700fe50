# Verification of novastory's web server

This directory holds TLA+ models of the web server under `src/webserver` and of the build tool under
`src/toolkit`, the TLC configurations that check them on small instances, and TLAPS proofs that hold for
every instance. The server is about 5600 lines of C++ on Qt 5, with a copy of zlib and an SMTP client
beside it. It answers HTTP in a pool of threads, serves static files from an in-memory cache, keeps
its data in MySQL or SQLite, and runs scheduled tasks that survive restarts.

Contents: 1 the system, 2 the modules, 3 the runs, 4 fairness, 5 the proofs, 6 a
disagreement with a comment, 7 what is not modelled, 8 what could come next.

## 1. The system

| Component | Source (under `src/webserver`) | State | Operations |
|---|---|---|---|
| File cache | `lrucache.hpp`, `bytecache.hpp` | list of entries by recency, index by key, bytes in use, limits, a mutex | `put`, `get`, `remove`, `setMaxSize` |
| Task scheduler | `cron.cpp` | table `cron` in the database; `m_tasks` (id to timer), `m_tasks_func` (name to function), two mutexes, the event queue of the cron thread | `addFunc`, `startTask`, `stopTask` (by id or name), `setTaskTime`, `resumeTasks`; slots `startTaskTimer`, `stopTaskTimer`, `changeTaskTimer`; the timeout |
| Nested set | `sql/nestedset.cpp` | a table whose rows hold an interval and a parent | `insert`, `remove`, `move`; queries `subtree`, `parentTree`, `contaisTree`, `leefs`, `childrens` |
| Connections and workers | `webserver.cpp`, `webprocess.cpp` | the global pool, `processCounter`, `m_maintenance`, one event loop, socket and session timer per connection | `incomingConnection`, `run`, `showHtmlPage`, `closedByInterval`, `closeSocket`, `onSocketDisconnected`, `setMaintenance`, the destructor |
| Requests | `webrequest.cpp`, `webrouter.cpp` | the request being parsed; the default language of the thread | `parse`, `sendHtml`, `~WebRouter` |
| Static files | `routers/rawfilehandler.cpp`, `webdatacontainer.cpp` | the one `ByteCache` of the process, the files on disk | `route` |
| Error pages | `routers/errorhandler.cpp` | none | `route` |
| WebSockets | `websocketslistener.cpp` | the clients of each of two listeners in a list; broadcasts exclude each other, connecting and disconnecting take no lock | connect, disconnect, message, broadcast |
| Schema patcher | `sql/dbpatcher.cpp` | the wanted structure, the tables of the database | `patch`, `create`, `modify`, `cppSerialize` |
| Database connections | `sql/sqldatabase.cpp`, `sql/sqlquery.cpp` | one named connection per thread | `open`, `close`, `exec` |
| Object mapping | `sql/sqlizable.cpp` | the properties of an object, the row of one table that its key names | `insertSQL`, `updateSQL`, `removeSQL`, `syncSQL` |
| Log | `logger.cpp` | three open log files, a mutex, the message handler | `setWriteToLogFile`, `messageOutput`, `log` |
| Mail | `smtpsender.cpp`, `3dparty/smtp/smtpclient.cpp` | one SMTP session | connect, login, send, quit |
| Templates, translations | `templator.cpp`, `translatorhelper.cpp` | the loaded page; collected phrases and their file | `generate`, `generateLogined`, `translate`, `save` |
| Compression | `3dparty/zlib`, `htmlData()` in `globals.cpp` | both ends of a compressed stream | `deflate`, `inflate` and what goes with them, `compress2` |
| Build tool | `src/toolkit` | an archiver, a package, what is unpacked, a build directory, an installation | download, check, unpack, run CMake and make, install |

How they interact. The main thread accepts sockets and creates a `WebProcess` for each.
A pool thread runs it with an event loop of its own. Each `readyRead` builds a `WebRouter`,
which parses one `WebRequest` and asks the registered handlers for an answer. `RawFileHandler`
shares one cache between all pool threads and compresses what it sends. Other handlers use `NestedSet` and `Sqlizable` on
the connection of their thread. Any thread may call the scheduler; it talks to the cron
thread through posted events, and to later processes through its table. `WebSocketsListener`
lives in the main thread and is called by workers. All threads log.

What is hard in it:

* **References that outlive a lock.** `LRUCache::get()` returns a reference into a list
  node. The caller copies through it after the mutex is released.
* **Two places for one fact.** A task is a row, an entry of `m_tasks` and a timer in another
  thread. They change at different moments, under different locks or none, and the process
  may die in between.
* **Statements without transactions.** The tree operations are two to eight statements whose
  keys were read before the first.
* **Connections that end in several ways.** The answer to a request without keep-alive, the
  session timer, the peer and the shutdown may each end a connection, and the first two with waits inside.
* **One event for one request.** A connection is a stream, and the parser takes what one
  `readyRead()` finds for a request.
* **State left on a thread.** The default language belongs to the pool thread and must not
  reach the next request; a database connection is found by the handle of a thread, and handles come back.
* **Replies that come late.** The mail client gives up waiting and goes on; the reply is then read as that to
  another command.
* **A stream that stops anywhere.** The compressor may run out of input or room at every byte, the decompressor at
  every bit, and each must go on exactly there.
* **What an interrupted run leaves.** Phrases, package and build directory are files which the next run starts from.

What makes each component correct:

| Component | Properties |
|---|---|
| File cache | list, index and counter agree; limits hold whenever no method is inside; eviction never meets an empty list; only the least recently used go; when a reader's value can disappear |
| Task scheduler | rows, tasks and timers agree; a stop is final, across restarts too; a single shot is not lost; no timer is used after its end; calls return |
| Nested set | intervals nest as the parent column says, after every completed operation and after most that were cut short; the keys stay tight; queries read from the keys agree with the parents |
| Connections | every accepted connection is served once; answers are not cut off; sessions end; the destructor returns and returns only when all is done; no language leaks |
| Requests | handlers get what was sent, once, in order, with its own body or none; waiting for a body ends |
| Static files | an answer is in the right language; a browser told to keep its copy has the right one, or one that no validator tells from it; it is not sent what it has |
| WebSockets | broadcasts reach all clients in one order; one that nobody disturbs reaches every client once |
| Schema patcher | running it again comes to an end, with the wanted structure where MySQL allows it; the result is true; what is right stays |
| Database connections | a query works on a connection that its own thread has opened |
| Object mapping | the key of an object names its own row or none |
| Log | the three files tell the same story |
| Mail | what `sendMail()` returns is true; text goes only to a server that waits for it, up to a lone dot in it |
| Translations | phrases once in the file are not forgotten |
| Compression | what comes out is what went in; a flush delivers; retries end |
| Build tool | compilers and libraries of two versions never meet |

`PROJECT.json` lists the hazards with their lines and the property that watches each.

## 2. The modules

```
BoundedRecency  <--refines--  ByteCache      <-- ByteCacheRefines <-- MCByteCache, ByteCacheProofs
                              Cron           <-- MCCron, CronProofs
OrderedForest   <--refines--  NestedSet      <-- NestedSetRefines <-- MCNestedSet, NestedSetProofs
                              WebServer      <-- MCWebServer, WebServerProofs
                              RequestStream  <-- MCRequestStream, RequestStreamProofs
                              RawFiles       <-- MCRawFiles, RawFilesProofs
                              SchemaPatch    <-- MCSchemaPatch, StorageProofs

DeflateFormat <-- HuffmanTrees  <-- Deflate  <--\
              <-- InflateTables <-- Inflate  <-- Compression <-- MCCompression
Pipe          <--refines--------------------------/

WebSocketsListener, Logger, Mail (MessagesProofs)    \
SqlConnections, ObjectMapping (StorageProofs)          <-- MCServices
Translations, Toolkit (StorageProofs)                /
```

**ByteCache** models `LRUCache` together with the accounting of `ByteCache`. Every method
is atomic, as `_mutex` makes it, with two exceptions. The eviction loop takes one entry per
step, since a thread that copies through an earlier reference may see each of them.
And `get()` ends with a reference in `ref`; `Copy` is the caller's copy afterwards. Nodes are explicit: the
allocator may hand a freed one out again. `dangling` and `touched` are history variables: the
readers whose node was freed, and the keys used by others since. **BoundedRecency**
is what the cache promises, a sequence of the keys by recency with their values and
nothing else. **ByteCacheRefines** maps the list and the heap to it.

**Cron** models the API calls at the grain of their locks, events and statements.
`at` holds what each thread still has to do, `queue` the events posted to the cron thread
and `due` the timers its event loop activates in this turn. A step that uses a deleted
timer or a null entry sets `fault` to its task and ends the behaviour, apart from a restart. `log` is a
history of what was done to each task in this process: its calls *overlapped* (a second stop, or a new time, before a stop was carried out, which
may be the one the cron thread posts itself after the last call; a stop before `newTask()` has entered the task), or it was *resumed*
while `m_tasks` had it. `FaultOnlyIfOverlapped` says that only such a task, never another one, gets its destroyed timer used. `TimerHasRow` and
`CalledWhileWanted` speak about all tasks but the resumed ones: `resumeTasks()` works from rows fetched earlier and does bring a stopped task back.
A timer that is given a negative interval is *mute*: Qt refuses to let it run but takes it for running, so that a later new time arms it again.

**NestedSet** has one step per SQL statement. Clients interleave between statements,
statements may fail and operations may be cut short. `spoiled` is a
history of what the code does not protect the tree from: two clients at once, a `move()`
cut short, an `insert()` whose UPDATE failed, and a `move()` into the subtree itself. A spoiled tree
is not followed any further. The properties show that nothing else spoils it.
**OrderedForest** has the same three operations as single steps on a forest without any keys: its nodes, their parents, and
the relation `before` of the order in which `tree()` lists them. **NestedSetRefines** reads the forest off the rows,
which it sees when no operation is past its first statement that changes them. `settled`, a history, is the table as it was then.
Taking it only when nobody is at work at all would be too rarely: while one client has read and not yet written,
the `remove()` of another may be cut short after its DELETE, and two operations would be seen as one step.

**WebServer** follows each connection through the phases `queued`, `loop`, `handling`,
`draining` (in `closeSocket()` up to `close()`, where a waiting timer slot may still answer a request), `lingering` (closed, but the socket still holds bytes to send),
`exiting` and `ended`; `maintained` sockets stay in the main thread. `unsent` abstracts the
socket's write buffer. The behaviour of `QTcpSocket` is the documented one: `close()` with
bytes left delays the disconnect until they are sent.

**RequestStream** looks into one connection of `WebServer`. The stream is a sequence of tokens: the
first line, the header lines that matter, the blank line, the units of a body. Any number of
them arrives at a time. `split` is a history of what the parser does not handle: a header in two pieces, a
body none of which came with the header, two requests in one read, characters of several bytes, a
request beyond the read limit, a wait that timed out. Of `RequestsServed`, one half (`SeparateServed`) says that nothing else goes wrong, and
`BodyIntact` and the other half (`OnceInOrder`) what
holds all the same. Closing is one step here; `WebServer` has its details.

**RawFiles** is `RawFileHandler::handle()` by steps: look up, read, ask for the modification time, put and answer.
Of the cache it keeps what a user can rely on, that what was put may be got until it is put again or evicted,
which includes what `BoundedRecency` does. One copy that a browser keeps is followed, any one. A validator is a length and a stamp: the
time, in units of the file system's (`Grain`), modulo 2^32 ms (`Width`). It does not contain the language. So two texts of a file may be
`Confusable`: equally long, and of moments with one stamp, as two languages of one version always are, or one of them was read
before a write and asked for its time after it (`Overtaken`). A 304 may then keep a browser with the wrong text; `NotModifiedIsTrue` says that it
is wrong in no other case. `NotSentTwice` excepts deflated answers: their validator is made from the deflated
length, as a rule another one, so that a browser which takes deflated data is sent the file again. `ValidatorsTrue` is
both. Not in the model: the aliases `/vsteams.js` and `/vsteams.css`, by which the first file that matches is found in a directory.

**SchemaPatch** is `patch()` for one table. It reads the catalog, compares, and chooses all statements, which are
then made one after another; each may fail, and the process may die between two. MySQL is external, modelled as far as
`COLUMN_KEY` and the rules for keys go; `SchemaAssumption` says that the tables of both databases are ones MySQL can have. Keys are known by name. Plain and unique
keys share their names, and either may be called like any column, also like one that is not in it; `MadeUp` stands for all other names. `ADD KEY` names a key after its column or, if that name is taken, as it likes
(`NewNames`). `DROP KEY`, to which the code gives the name of the column, takes whatever key is called so, or fails. `OutcomeIsTrue` has three parts.
`Settles` says that when `patch()` has returned true three times in a row, nothing is left for it to do, from any structure and whatever failed before,
but for what it never touches (`LeftAlone`) and plain keys that should go and are not called after their column (`Misnamed`). Two successes are not enough:
dropping a column in the first takes along a unique key that was found to be there, so that the second has to create it again, and a column becomes null only after its primary key has
gone, which may need that unique key. Nor are three runs without a failure by chance. An example: columns `f` (auto), `g` and `x` (not null), primary key (`f`, `g`) and unique key `u` on `x` are to
become `f` (auto), `g` (null) and `u` on `f`. The primary key cannot go while `f` has no other key; the first run loses `u` with `x`, the second creates `u` after it has tried to drop
the primary key, the third drops it, the first to return true, after `g` has stayed not null once more.
`Refuses` says for which five reasons it may fail for good: several `PRIMARY KEY` clauses, an auto_increment column, a primary key next to one that is held by a unique key, `Misnamed`,
and a unique key whose name a plain one has (`NameTaken`); `ReportedTrue` what a success means. `StaysRight` says that a table that has
the wanted structure is not touched.

**Compression** puts an application that calls `deflate()` and one that calls `inflate()` at the two ends of
a stream. zlib's numbers (the size of a byte, the window, the alphabets, the longest codes, the
lengths of hash chains) are constants of **DeflateFormat**, so that a small instance has every kind of code.
**Deflate** is `deflate.c` without the gzip wrapper: its state is one record `z`, and a step of it is one
turn of the loop of `deflate_stored()`, `deflate_fast()`, `deflate_slow()`, `deflate_rle()` or
`deflate_huff()`, with the flush of a block inside it as in the code. **HuffmanTrees** is `trees.c` as functions: building
trees, cutting them to their maximal lengths, codes, run lengths, the choice between a stored, a fixed and a dynamic block.
**Inflate** is the resumable decoder of `inflate.c` with
`inflate_fast()` and the circular window, one call a step; **InflateTables** builds its two-level tables.
**Pipe** is what both together promise. A hash is a sum here, and the window starts with zeros, since neither may matter.
A scenario of the run fixes the text, the level, the flushes, the pieces and the buffers of both sides. The sender `oneshot` is
`htmlData()`, which tries `compress2()` with larger and larger buffers.

**MCServices** puts seven parts side by side that share no state with each other. Its behaviours choose one of
them and run it, so that their states are added and not multiplied.

* **WebSocketsListener**: the main thread appends to a list of clients, removes from it and deletes
  clients while a worker walks through it with two pointers. What a removal leaves behind the end and what an append
  moves elsewhere are in the model; touching what is gone is a `fault`, which ends what can be said. `calm` is a history of
  whether anything changed during a broadcast.
* **Mail**: `run()` goes through the commands, each with its wait: `pc` is the command, and `waiting` tells whether it has
  been sent. A reply comes when it likes. Waits that time out end
  the function they are in, and `run()` calls the next one without looking. A mail's text is its lines, of which the model keeps whether each is a
  single dot: `sendMail()` (`smtpclient.cpp:400`) doubles no leading dot, so the server ends the mail at such a line, answers it, and refuses the lines behind
  it as commands. `AcceptedIsTrue` still holds for such a text, though the mail is cut short; `ContentOnlyAsData` says that nothing else
  lets the server see text as commands.
* **Logger**: a message takes the lock, goes to three files and then to the handler of Qt, and a fatal one ends the process.
  `ErrorsIn` is the part of the log that belongs in the error file.
* **SqlConnections**: threads come under handles that were used before; queries are made, destroyed and used while somebody closes
  their connection.
* **ObjectMapping** has one step for each method of `Sqlizable`, which is one statement. `known` is a history of the row
  that an object was last equal to. Removing and inserting by others is the interesting part: `KeyNamesOwnRow` holds
  because keys are never given out twice, except by `not_ignore_id`.
* **Translations**: pages note phrases while `save()` reads the file, joins it with the notes, empties it and writes it again. What
  is read back is less than what was written (`Reread`): comments are written without the comma that the
  pattern asks for, and a quotation mark cuts a phrase off. A process that ends while it writes loses the file, a write that fails a part of it, and `save()` returns true all the same (`torn`).
* **Toolkit**: the steps of one run, any of which may be the last, on the files of earlier runs and with uploads in between.
  For `QProcess::exitStatus()` a program that fails or does not exist has exited normally, and so the run goes on.

Definitions keep the names of the functions they model. Operators introduced by
the word *Mutant* stand next to the definition they distort. No specification uses them; they
record how a plausible mistake in that line would look, and which property notices
it (`mutants` in `PROJECT.json`).

## 3. The runs

| Run | Instance | Properties | What it shows |
|---|---|---|---|
| `cache` | 2 threads, 3 keys, values of 0, 1 and 3 bytes, 4 nodes, limits of 2 and none | `IndexMatchesList`, `AccountExact`, `WithinLimits`, `LruProtects`, `RefinesBoundedRecency` | consistency at every step of an eviction; what readers can lose; the abstract cache |
| `cron` | 2 ids of one name, 2 timers, 4 calls, 1 crash, 2 callers | `FaultOnlyIfOverlapped`, `TimerHasRow`, `NoShotLost`, `CalledWhileWanted` | all orders of calls, events, timeouts and a crash around two tasks |
| `cron_live` | 1 id, 3 timers, 3 calls, `FairSpec` | `ApiReturns`, `OrdersCarriedOut` | progress |
| `tree_pair` | 2 clients, 3 rows, no failures | `KeysTight` | two clients whose operations do not overtake each other |
| `tree_one` | 1 client, 4 rows, 1 failure | `KeysMatchParents`, `RefinesOrderedForest` | every tree of up to four rows, every operation on it, cut short anywhere; the statements implement the operations on trees |
| `web_live` | 2 connections, 1 worker, 2 requests, 1 toggle of maintenance, `ResponsiveSpec` | `ClosedMeansDone`, `LanguageOfRequest`, `NothingTruncated`, `SessionLimited`, `EveryoneServed`, `ShutdownCompletes` | queueing, closing, maintenance and shutdown in every order, one thread reused for requests and connections; progress when peers take their answers |
| `web_stall` | as `web_live` with `FairSpec` and 1 request | `SessionLimited`, **violated** | see 6 |
| `stream` | 3 requests of 8 kinds, a read limit of 6 tokens, `FairSpec` | `BodyIntact`, `RequestsServed`, `ParseEnds` | every way a stream can be torn and joined |
| `files` | 2 workers, a script and a document, 2 languages, 1 write of a version with the stamp of the old one or another | `RightLanguage`, `ValidatorsTrue` | languages and validators while files change |
| `schema` | every pair of tables of up to 2 columns, with keys of many names, 1 failure | `OutcomeIsTrue`, `StaysRight` | what running the patcher again and again leads to |
| `zip` | 2-bit bytes, a window of 13, texts of up to 65 bytes, levels 0 to 3 | `RefinesPipe`, `FlushDelivers`, `WindowsAgree`, `Finishes` | two applications and a stream: pieces, flushes, dictionaries, changes of level, strategies, retries |
| `services` | see below | `SameOrder`, `UndisturbedReachesAll`, `AcceptedIsTrue`, `ContentOnlyAsData`, `FilesAgree`, `OwnConnection`, `KeyNamesOwnRow`, `OneToolchain`, `NothingForgotten` | the seven parts without common state |

Why these bounds suffice for what they show:

* Three keys and four nodes leave a spare node when all keys are cached, so that a node may be freed
  and reused, or not reused, while a reader still refers to it. Of the values one costs nothing, one fills the limit
  when it is there twice, and one is too big for it. Lifting and setting the limit again makes evictions of none, one, two
  and all entries.
* A start, and after a crash a function, a resume and a stop are four calls; so are a start, a stop, a second stop and a new time. One
  crash separates two processes. Crashed timers start again as unused. Two tasks of one name are told apart by their ids only, so that a fault of one that the other caused would show. In `cron_live` there are at least as many timers as calls: running out of timers would
  block `newTask()`, which the program does not.
* A read limit of six tokens is passed by one of the kinds of request, by any two requests, and by the
  length of another kind. Three requests leave one after a connection was kept alive twice.
* One write makes two versions of a file, which is what validators have to tell apart. The old version has the stamp of the new one
  or another; its translation is as long as the file in one version and longer in the others, and as long as the file again when it is deflated. Two workers make a cache entry
  that is older than what another worker has read.
* Two columns give the patcher a column to drop, to add and to change at the same time, and a unique key of both. Of the two names of unique keys
  one is that of a column. A plain key has the name of its column, of the other one, of a unique key or one made up; two plain keys may have each other's.
* Four rows give chains, stars and both kinds of three-level trees. A move then has neighbours to the left,
  to the right, inside and around it. The comparisons of `move()` depend on the relative position of
  three keys only: the two of the node moved and the right one of the new parent.
* One worker and two connections are enough to starve one and to leave one in the queue. Two requests make a
  keep-alive connection use its thread again. More workers and connections are left to the proofs.
* In `zip` every text is longer than two windows, so that the sender's window slides and the receiver's wraps. Level 0 stores,
  1 is greedy, 2 and 3 are lazy with short and long chains. The buffers hold one, a few or all bytes. With
  output buffers smaller than what a flush takes, every call flushes once more, as `zlib.h` warns; there
  nothing is flushed. `deflateParams()` gets room enough; it is also called right after a dictionary was set, which counts as input. The fixed, the run-length and the Huffman strategies run on the long texts; two more texts of few bytes make dynamic
  blocks with each of the three repetitions. `MaxStored` is below the length field of a stored block, as 64K - 262 is in zlib (`DeflateAssumption`):
  a larger one would break the stream. `MaxTries` only caps a counter. The receiver reads between
  two calls of the sender; what it reads then is all the interaction there is.
* `TreesDecode` in `MCCompression` is an assumption that TLC evaluates first: for all vectors of frequencies in a box, also such whose trees are cut,
  the code lengths use up the code space, and each code leads through the tables of the decoder to its symbol.
* In `services` a broadcast meets three clients of two listeners, two of them in one list; a mail has two recipients, a text with or without a lone dot in it, and at most four unread
  replies, which suffices for the replies of one function to be read by the next but one; two threads log three records; three threads share two
  handles; two objects have a unique field of
  two values, a second field that is the same in all rows, so that a statement by it meets every row, and two keys that may each be inserted twice, without which no key could be taken over; three runs of the build tool meet two uploads of
  two versions; two savings and a restart, or a restart and a deployment, or the like, are the three events of the translations.

`CHECK_DEADLOCK FALSE` appears only in instances whose bounds let the system come to a stop: all
calls made, all connections ended or all requests sent, files deleted, or, in `Cron`, a fault, after which the program is not followed.

## 4. Fairness

Safety runs use `Spec`, without fairness. The others:

* `Cron!FairSpec`. A thread inside a call goes on (weak fairness of `Continue`), the cron
  thread's event loop keeps turning, and a timer that stays armed, or becomes armed again and
  again, is due in some turn (strong fairness, since wall-clock time passes whatever the threads do). Callers are
  never obliged to call. Nothing is assumed about the order in which a
  `QMutex` serves its waiters.
* `WebServer!FairSpec`. Pool threads run, a running session timer fires when its loop is
  idle, and the destructor's wait ends when it can. The main thread is not obliged to accept.
* `WebServer!ResponsiveSpec` adds an assumption about the other side: a peer that has bytes to
  read takes them some day, or its connection breaks.
* `RequestStream!FairSpec`. `waitForReadyRead()` returns false after 30 seconds without data. Every piece of data starts these anew, but
  a body takes no more pieces than it has bytes, and the read limit bounds those.
* `Compression!Fairness`. The two applications go on calling until they see the end of the stream, as `zlib.h` asks of them. It is weak
  fairness of each side, with the enabling conditions written out, because TLC takes too long to compute `ENABLED` of a call. Written out, it would leave out a behaviour in which a call or
  a turn of the compressor changes nothing and is repeated for ever. So these are no steps in `Compression`, and the run `zip` checks for deadlocks: TLC finds none before both sides have
  seen the end (`Rest`), hence every call has an effect.

## 5. The proofs

Eight modules prove safety for every value of the constants, under the named assumptions of the
modules they extend (distinct special values, bounds that are natural numbers, in `SchemaPatch` that tables are ones MySQL can have). The bounds that TLC needs
on calls, crashes, failures, replies and the like are such constants, too: a theorem holds whatever they are.

| Module | Theorem | Statement |
|---|---|---|
| `ByteCacheProofs` | `CacheConsistent` | `Spec => [](TypeOK /\ IndexMatchesList)` |
| | `CacheAccount` | `Spec => []AccountExact` |
| | `CacheNeverUnderflows` | the eviction loop never reaches an empty list |
| | `CacheBounded` | `Spec => []WithinLimits` |
| | `CacheRecency` | `Spec => []RecentOnlyTouched` |
| | `CacheProtectsReaders` | `Spec => LruProtects` |
| | `CacheRefines` | `Spec => RefinesBoundedRecency` |
| `WebServerProofs` | `ServerTypes` | `Spec => []TypeOK` |
| | `NoLanguageLeaks` | `Spec => []LanguageOfRequest` |
| | `AnswersComplete` | `Spec => []NothingTruncated` |
| | `ShutdownComplete` | `Spec => []ClosedMeansDone` |
| `RawFilesProofs` | `LanguagesRight` | `Spec => []RightLanguage` |
| | `ValidatorsTell` | `Spec => []ValidatorsTrue` |
| `RequestStreamProofs` | `BodiesComeWhole` | `Spec => []BodyIntact` |
| | `AllServedInOrder` | `Spec => []RequestsServed` |
| `CronProofs` | `CronTypes` | `Spec => []TypeOK` |
| | `OnlyOverlapsFault` | `Spec => []FaultOnlyIfOverlapped` |
| | `TimersHaveRows` | `Spec => []TimerHasRow` |
| | `ShotsNotLost` | `Spec => NoShotLost` (an action property) |
| | `CallsAreWanted` | `Spec => CalledWhileWanted` (an action property) |
| `NestedSetProofs` | `TreeTypes` | `Spec => []TypeOK` |
| | `KeysTellParents` | `Spec => []KeysMatchParents` |
| | `KeysStayTight` | `Spec => []KeysTight` |
| | `TreeRefines` | `Spec => RefinesOrderedForest` |
| `MessagesProofs` | `BroadcastsInOrder` | `ListenerSpec => []SameOrder` |
| | `UndisturbedBroadcastsReach` | `ListenerSpec => []UndisturbedReachesAll` |
| | `LogFilesAgree` | `LogSpec => []FilesAgree` |
| | `MailIsTrue` | `MailSpec => []AcceptedIsTrue` |
| | `TextOnlyAsData` | `MailSpec => []ContentOnlyAsData` |
| `StorageProofs` | `ConnectionsApart` | `DatabaseSpec => []OwnConnection` |
| | `KeysStayOwn` | `MappingSpec => []KeyNamesOwnRow` |
| | `CollectionGrows` | `TranslationsSpec => []NothingForgotten` |
| | `ToolchainsApart` | `ToolkitSpec => []OneToolchain` |
| | `SchemaOutcome` | `Spec => []OutcomeIsTrue` |
| | `SchemaStaysRight` | `Spec => StaysRight` (an action property) |

None of the properties is inductive alone. Each component has an invariant that is (`IInv`, `TreeInv`, `MailInv` and the like), and its module proves
that it holds at first, that every action keeps it, and that the properties follow. The theorems are about the specifications without fairness, which those with it imply;
in `MCServices` each part takes its own steps or none.

**ByteCache.** `TypeOK` says that the counter is a natural number, which
a subtraction preserves only when the counter is exact; the counter stays exact only when
erasing a node erases one key; and an eviction finds an entry to erase only when a counter above a limit
means that something is cached. `IInv` is the conjunction of `TypeOK`, `IndexMatchesList`, `AccountExact`,
finiteness of the cached keys, `RecentOnlyTouched`, and `Released`: the mutex is free only
when there is nothing left to evict. The counter is the
cardinality of a set of pairs, one for each stored byte (`BytesOf`), so that inserting, changing and erasing a
value become unions and differences of disjoint finite sets. If the counter exceeds a limit, this set is not
empty, hence neither is the list, which is `CacheNeverUnderflows`. `Released` gives `CacheBounded`. For
the readers, everything in front of a referenced node in the list was touched since
(`RecentOnlyTouched`), so when eviction reaches the node it was
the last one, and everything still cached is in `touched` or is the node itself (`LruProtects`).
For `CacheRefines` the byte counter and the number of keys are first shown to be what adding up along the list gives (`AllCounted`), so that
`needCleanup()` asks exactly whether the whole list fits (`CleanupAsks`). Hence an eviction drops an entry that is not in the longest stretch that fits, and what `BoundedRecency`
sees stays as it is (`CleanupIsUnseen`); when the loop ends, the list is that stretch (`UnlockSeen`). `put()`, `get()` and `remove()` erase the one place of their key, which leaves
the entries of the other keys in their order (`OthersOne`), and each is the one step of `BoundedRecency` (`StepRefines`).

**WebServer.** `IInv` says where each connection is: a thread runs at most one, no two run the same, and
what is in a phase of `run()` is run by some thread (`RunsOne`); the queue holds what is queued, once (`QueuedOnce`); timers run
only in `run()` (`TimerRuns`); nothing is unsent to a peer that is gone (`PeersKnown`); only who handles a request has one
(`RequestAtHand`); `processCounter` is the length of the queue plus the number of running threads (`CounterExact`, a cardinality);
after the destructor both are empty (`NothingLeft`). A language is set only between `parse()` and `~WebRouter()` of the same
thread, and a connection that is started has no request at hand: no language leaks. A connection leaves `draining` for `exiting` only with
nothing unsent, and its peer cannot put anything back. What is neither queued nor run has ended.

**RequestStream.** What `parse()` has ahead of it (`Ahead`), the body it reads, the buffer and the wire, is always the end of the requests as they
were sent. `Laid` keeps for each request the place where it begins there, at 0 or before if the beginning is gone. `parse()` takes the first header it
finds for that of a request, so what it hands over is later than all before (`Later`), and while it waits the body of its request is right ahead
(`AtBody`). A body is handed over only with the length it was sent with, from the place where it begins (`BodyIn`): hence it is that body, unless wide characters
make lengths in bytes and in characters differ. As long as requests come one by one (`OneByOne`), the next to be handled begins at the head of what is ahead, so that an
empty wire means that none is left.

**RawFiles.** Cached data is of the path and the language of its key, and only what is translated has a
language (`CacheKeyed`): so documents, which are looked up under one key and stored under another, are found in no wrong language. A worker holds
data of its request (`WorkKnown`), and a copy's validator was made from the copy (`CopyTagged`). Equal validators are then of equal stamps and lengths
(`SameTag`), and a time that is not the version's own is one that a write has overtaken. Nothing is assumed of lengths.

**Cron.** For a task whose calls never overlapped (`Orderly`), `m_tasks` and the timers name each other (`TimersOwned`), every event
in the queue is about the timer `m_tasks` has now, and nothing is behind a stop, in the queue or in the cron thread's hands (`EventsInOrder`).
So no event finds a destroyed timer or a null entry. A thread that is to make a timer (`newTask()`) finds none there yet, unless the task was resumed
(`Timerless`), and whoever stops a task has noted why (`Accounted`). The two mutexes enter through `Locked`: no two threads are inside `newTask()` or
`resumeTasks()`, or inside the two deletions of a row, at once. For tasks whose calls do overlap that says nothing, hence the second invariant, `RInv`: a
stop, in the queue or half carried out, is of a timer of its own task (`EventsNamed`) and its row is gone or about to be deleted by the thread that holds
the lock (`StopsDelete`), and a task that is still to get its timer has its row or was stopped with a null pointer, which is never carried out (`Unmade`). With these, `TimerHasRow` is
inductive without any exception for overlapping calls.

**NestedSet.** `TreeInv` describes the table at the five places where an operation can be. At rest the rows are `Nested`: any two apart or
one in the other, each in its parent's, and whatever encloses a row is its parent or encloses that. Without a failure so far the keys
are also `Filled`, all of 1..n for some n. After the first UPDATE of `insert()` the keys of the new row are free and every other row is on its side
of them (`Room`); after the DELETE of `remove()` the keys of the subtree are free (`Gap`). In the six UPDATEs of `move()` neither holds. There the
invariant says that the table was nested `before`, and every row's keys follow from it by the UPDATEs made so far (`Midway`), and the last UPDATE is shown to give a nested
table again, by cases on where two rows lie to the subtree and to the new parent. What an operation has SELECTed is still
so when its first UPDATE runs (`Fresh`), for two clients whose statements mix spoil the tree.
From `Nested` follow `NestingMatchesParents` and the queries; `leefs()` needs `Filled` besides. For `KeysTight` the n of `Filled` is
the cardinality of two disjoint sets, of left and of right keys.
For `TreeRefines` each of these places is tied to `settled` as well: the table at rest is that table, after the first UPDATE of `insert()` it has the same forest under
other keys (`SameForest`), after the DELETE of `remove()` it lacks exactly the rows within the one read (`Cleared`), and `before` is it. The family of a node, which
`OrderedForest` chooses, is the set of rows within its row (`FamilyIs`): any other set closed like it would differ in a row of least left key. Then an insert or a
move is compared by where the keys of its rows go (`Placed`): above all that is not listed behind the parent, below all that is.

**WebSocketsListener.** Only who holds `websokets_mutex` sends (`OneSender`); the message being sent is the last in every inbox that has it
(`SentLast`), also if a removal made the walk send it twice to one client. Then all places of two messages are in the same order everywhere (`OneOrder`),
which a step keeps because it appends the message being sent only.
For the second theorem the lists are shown to hold the open sockets of their listeners, each once (`Enlisted`), where a removal is a list built by recursion over its places (`KeptRemain`).
A walk that nobody disturbed has sent its message once to those of its audience that it has passed (`Reached`) and to nobody else (`OnTheWay`); at the end of a list it has passed
all of its clients (`Passed`), and after the last one everybody (`Over`), which later broadcasts leave so because their messages are others.

**Logger.** Nobody but the owner of the lock writes (`WriterAtFiles`), and where it is tells which of the three files has
its record already (`FilesBehind`).

**Mail.** Replies come in the order of the commands, so one that is late is read by a later wait. At each command the invariant says what may be
under way (`AtSetup`, `AtAuth`, `AtLogin`, `AtMail` and so on): the connection and the login leave at most one reply unread each. Once `run()` and the server are out of step, the next
line to come is a refusal (`Hopeless`), or an old consent with a refusal behind it (`Misled`), and neither lets a mail through to its end.
As long as they are in step, the server has counted the recipients the client has (`AtRcpt`). `TextLast` says that the text is the last thing
under way, to a server that has answered `DATA`, has hung up, or has ended the mail at a lone dot, and `AtText` that the first answer
behind `DATA` tells whether the mail was taken over: it answers the first dot, wherever that is.

**SqlConnections.** Threads have different numbers (`ThreadsApart`). What is open under a handle was opened by the thread that has the handle now, since
a worker closes before it ends (`OpenedHere`), and a query that its thread has not closed works on it (`QueriesAtWork`).

**ObjectMapping.** The counter of the table is above every key that is in use or known to an object (`KeysBelowNext`), so that a new row
never takes the key of one an object still remembers, unless the program chooses the key. `KnowsOwn` carries the property through inserting, reading,
changing and removing.

**Translations.** Between reading and emptying, what was read is what the file holds, and while it is empty the notes remember all of it, because pages never remove
a note and reading back twice loses no more than once.

**SchemaPatch.** `ModifyLists` says what `Table::modify()` sends for any two structures and in any order of names: exactly the statements of `Listed`, no two alike, phase by phase; for equal structures
that is nothing, which is `StaysRight`. `SchemaInv` then follows what is on the list (`Agenda`: every statement fits the table as it is now, `Apt`). Three runs that return true
take a table through three stages. What is not in place is on the list of the first (`Due1`), so that after it the columns are the wanted ones and no unique key is left over
(`Stage1`), and no later run adds or drops any. With the columns in place, missing unique keys and a primary key that has to go are on the list of the second (`Due2`, `Stage2`). Types,
and keys of columns that no unique key has, are on that of the third (`Due3`), after which the table `Matches` or differs in what is `LeftAlone`. A failure in between
stops the count, but no stage that was reached is lost. `RefusalInv` counts runs without a failure by chance instead: if no auto_increment column is wanted and the
primary key is one column (`Plain`), nothing that a stage depends on is refused, unless a key has a name it should not have (`Misnamed`, `NameTaken`), because old auto_increment columns are dropped or changed before their keys can matter (`Uncounted`); from the third
run on, MySQL can refuse only a second primary key (`Keyed`), next to one that is left alone (`PrimaryHeld`).
Names need an argument of their own, since a `DROP KEY` may take a key that nobody meant. A `Stray` is a key that should go, stays over the run, and no key that should go and stays has the name of its column; it remains one, and makes the
table `Misnamed` for good. While there is none, every `DROP KEY` on the list finds a key that has to go (`OnTarget`). That is a matter of counting (`NamesCount`): the names on the list are the columns of keys that should go, so there are
at least as many such keys as names, no two of them have one name, and if each of the others finds a key named after its column among themselves, those that are dropped are just the keys of the columns on the list.

**Toolkit.** The package is replaced only when all that came from the old one is gone, first what was unpacked, then the build directory (`OldOnesGone`).

What a definition says of all natural numbers or all sequences is proved by taking a least counterexample (`NatLessThanWellFounded` and `WFMin`, see `NatSets` in
`NestedSetProofs`), since the library's induction theorems take operators as parameters.

Model-checked only:

* every liveness property (`ApiReturns`, `OrdersCarriedOut`, `SessionLimited`, `EveryoneServed`, `ShutdownCompletes`, `ParseEnds`, `Finishes`):
  liveness under fairness and `ENABLED` are beyond the prover;
* the refinement `RefinesPipe`, since `Pipe` speaks about what the codes compute;
* `FlushDelivers` and `WindowsAgree`, whose modules have `RECURSIVE` operators on trees and bits, which the prover does not accept.

## 6. A disagreement with a comment

`webprocess.cpp:45` says of the timer: "60 second session limit". The timer is single-shot.
When it fires, `closeSocket()` waits five seconds at most for the unsent bytes and calls
`close()`, which then leaves the socket open until they are sent. A peer that stays connected and
reads nothing keeps the thread with no further limit: run `web_stall`. With peers that read, the
limit holds: run `web_live`. (A release build uses 30 seconds, which time in the model does not tell
apart.)

## 7. What is not modelled

* Data races: the constant methods of the cache, and `m_tasks_func` in two of the calls, read without the lock; a worker reads properties of
  a `QWebSocket`, and sends through it, while its own thread uses it. Torn reads are outside the language of the models.
* Scheduler: an INSERT in `startTask()` that fails; a task function that starts further tasks; the start and last
  times of tasks, of which only "has passed" is kept.
* Nested set: trees that share a table through `m_where_coincidence`; `insert()` with columns of its own.
* Requests: cookies and the splitting of parameters, which are text functions.
* Schema patcher: plain keys of several columns; `cppSerialize()`, which prints C++.
* Object mapping: computed columns in `select_query` other than those of a join; classes without an auto_increment key; `updateSQL()` with every column ignored, which changes all rows; two workers that change
  different columns of one row and write all of them; joins in found mode, which nothing uses.
* WebSockets: the set-up of certificates; signals of clients that the destructor deletes.
* Mail: MIME classes, which make text; texts that spell out SMTP commands behind a lone dot, which the server would carry out; a server that never ends a reply. `sendMail()` logs "Email sended" whatever became of the mail.
* Log: reports by mail, which `setFailReports()` leaves off; switching files on after threads have been started, which nothing does.
* Translations: the empty phrase, which pages cannot contain (`templator.h:47`) and nothing else asks for: `translate()` would note it, and in the file it would hide the phrase of the next line; a second thread that saves; the debug build, which loads a page every time; how a template is filled in.
* Build tool: the archiver that was downloaded in part is never fetched again, and a package of which only `qmake.exe` was unpacked counts as whole: both are in the model, but no property
  speaks about them.
* Compression: the gzip wrapper, `inflateSync()`, `inflateBack()`, the `gz` functions, copies and tuning of streams, none of which the program
  uses; a pending buffer that is full; memory that runs out.
* Left out for good: error pages and the other helpers, which are text functions without state.

## 8. What could come next

`NestedSet` and `ObjectMapping` over one table of several trees.
