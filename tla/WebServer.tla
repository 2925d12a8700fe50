------------------------------ MODULE WebServer ------------------------------
(***************************************************************************)
(* The life of a connection: WebServer accepts it (webserver.cpp) and      *)
(* hands it to a WebProcess that waits for a thread of the global pool;    *)
(* the thread runs an event loop of its own for that one socket            *)
(* (webprocess.cpp), parses and answers the requests that arrive           *)
(* (webrouter.cpp) and ends when the socket is disconnected.               *)
(*                                                                         *)
(* A connection is followed from the peer's connect to the end of its      *)
(* WebProcess.  Data is abstract: a request is its keep-alive flag and the *)
(* language parseLanguage() finds for it, an answer is "bytes unsent".     *)
(* Time is abstract: a running session timer may fire at any moment its    *)
(* event loop is idle, a wait for written bytes may time out at any moment.*)
(***************************************************************************)
EXTENDS Naturals, Sequences, FiniteSets, SequencesExt

CONSTANTS
  Conns,        \* connections ever made
  Workers,      \* threads of the pool: WORKERS_NUMBER of them
  Languages,    \* languages with a translator
  NoLanguage,   \* no default language
  NoConn,       \* the thread runs nothing
  NoRequest,    \* nothing to read
  MaxRequests,  \* bound: requests per connection
  MaxToggles    \* bound: calls of setMaintenance()

ASSUME ServerAssumption ==
  /\ IsFiniteSet(Workers)
  /\ NoConn \notin Conns
  /\ NoLanguage \notin Languages
  /\ MaxRequests \in Nat /\ MaxToggles \in Nat

Request == [keepAlive : BOOLEAN, language : Languages \cup {NoLanguage}]

VARIABLES
  server,       \* "open", "closing" (in the destructor) or "closed"
  maintenance,  \* m_maintenance
  counter,      \* processCounter
  queue,        \* WebProcess objects the pool has not started yet
  runs,         \* what each pool thread runs
  language,     \* default_language: thread -> language
  phase,        \* where the connection is in the server
  timer,        \* its session timer
  inbox,        \* the request that has arrived and was not read yet
  request,      \* the request that is being answered
  unsent,       \* bytes were written that the peer has not taken yet
  peer,         \* the other end: "none", "open" or "gone"
  sent,         \* requests the peer has sent (bound)
  toggles       \* calls of setMaintenance() so far (bound)

threads == <<counter, queue, runs, language>>
peers   == <<inbox, unsent, peer, sent>>
vars    == <<server, maintenance, threads, phase, timer, request, peers, toggles>>

Phases == {"none", "queued", "loop", "handling", "draining", "lingering", "exiting",
           "ended", "maintained"}

TypeOK ==
  /\ server \in {"open", "closing", "closed"}
  /\ maintenance \in BOOLEAN
  /\ counter \in Nat
  /\ queue \in Seq(Conns)
  /\ runs \in [Workers -> Conns \cup {NoConn}]
  /\ language \in [Workers -> Languages \cup {NoLanguage}]
  /\ phase \in [Conns -> Phases]
  /\ timer \in [Conns -> {"off", "running"}]
  /\ inbox \in [Conns -> Request \cup {NoRequest}]
  /\ request \in [Conns -> Request \cup {NoRequest}]
  /\ unsent \in [Conns -> BOOLEAN]
  /\ peer \in [Conns -> {"none", "open", "gone"}]
  /\ sent \in [Conns -> 0..MaxRequests]
  /\ toggles \in 0..MaxToggles

Init ==
  /\ server = "open" /\ maintenance = FALSE
  /\ counter = 0 /\ queue = <<>>
  /\ runs = [w \in Workers |-> NoConn]
  /\ language = [w \in Workers |-> NoLanguage]
  /\ phase = [c \in Conns |-> "none"]
  /\ timer = [c \in Conns |-> "off"]
  /\ inbox = [c \in Conns |-> NoRequest]
  /\ request = [c \in Conns |-> NoRequest]
  /\ unsent = [c \in Conns |-> FALSE]
  /\ peer = [c \in Conns |-> "none"]
  /\ sent = [c \in Conns |-> 0]
  /\ toggles = 0

Goto(c, label) == phase' = [phase EXCEPT ![c] = label]

-----------------------------------------------------------------------------
(* The main thread.                                                        *)

(* incomingConnection(): a WebProcess for the pool, or the maintenance     *)
(* answer, whose socket stays with the main thread.                        *)
IncomingConnection(c) ==
  /\ server = "open"
  /\ peer[c] = "none"
  /\ peer' = [peer EXCEPT ![c] = "open"]
  /\ IF maintenance
     THEN /\ Goto(c, "maintained")
          /\ UNCHANGED <<counter, queue>>
     ELSE /\ Goto(c, "queued")
          /\ counter' = counter + 1
          /\ queue' = Append(queue, c)
  /\ UNCHANGED <<server, maintenance, runs, language, timer, request, inbox, unsent, sent,
                 toggles>>

(* maintenanceRespond()'s slot: any request is answered with 503 and the   *)
(* socket closed, which lets the answer go out first.                      *)
MaintenanceRespond(c) ==
  /\ phase[c] = "maintained" /\ inbox[c] # NoRequest /\ server = "open"
  /\ inbox' = [inbox EXCEPT ![c] = NoRequest]
  /\ unsent' = [unsent EXCEPT ![c] = peer[c] = "open"]
  /\ Goto(c, "lingering")
  /\ UNCHANGED <<server, maintenance, threads, timer, request, peer, sent, toggles>>

SetMaintenance ==
  /\ server = "open"
  /\ toggles < MaxToggles /\ toggles' = toggles + 1
  /\ maintenance' = ~maintenance
  /\ UNCHANGED <<server, threads, phase, timer, request, peers>>

(* ~WebProcess().                                                          *)
Destroy == counter' = counter - 1

(* run() returns and the pool has its thread back.  Mutant: it goes on     *)
(* waiting.                                                                *)
KeepThread(w) == UNCHANGED runs
FreeThread(w) == runs' = [runs EXCEPT ![w] = NoConn]

(* ~WebServer(): stop listening, then wait for every WebProcess, the       *)
(* queued ones included.                                                   *)
Close ==
  /\ server = "open"
  /\ server' = "closing"
  /\ UNCHANGED <<maintenance, threads, phase, timer, request, peers, toggles>>

(* Mutant: only what runs is waited for.                                   *)
PoolIdle == \A w \in Workers : runs[w] = NoConn
PoolDone == queue = <<>> /\ \A w \in Workers : runs[w] = NoConn

WaitForDone ==
  /\ server = "closing"
  /\ PoolDone
  /\ server' = "closed"
  /\ UNCHANGED <<maintenance, threads, phase, timer, request, peers, toggles>>

-----------------------------------------------------------------------------
(* A pool thread w.                                                        *)

(* The pool starts the oldest WebProcess; run() starts the session timer   *)
(* and the event loop.                                                     *)
Start(w) ==
  /\ runs[w] = NoConn /\ queue # <<>>
  /\ LET c == Head(queue)
     IN /\ runs' = [runs EXCEPT ![w] = c]
        /\ Goto(c, "loop")
        /\ timer' = [timer EXCEPT ![c] = "running"]
  /\ queue' = Tail(queue)
  /\ UNCHANGED <<server, maintenance, counter, language, request, peers, toggles>>

(* readyRead() is delivered by the event loop, and also by the wait for    *)
(* written bytes when the timer's slot is in closeSocket(): a request may  *)
(* be answered in the middle of that.  (Within showHtmlPage() Qt does not  *)
(* emit it again.)                                                         *)
ReadyRead(c) ==
  /\ inbox[c] # NoRequest
  /\ \/ phase[c] = "loop"
     \/ phase[c] = "draining" /\ request[c] = NoRequest /\ unsent[c]

(* showHtmlPage(): WebRouter reads and parses the request, and makes its   *)
(* language the default one of the thread.                                 *)
ShowHtmlPage(w) ==
  LET c == runs[w]
      r == inbox[c]
  IN /\ c # NoConn /\ ReadyRead(c)
     /\ request' = [request EXCEPT ![c] = r]
     /\ inbox' = [inbox EXCEPT ![c] = NoRequest]
     /\ language' = IF r.language = NoLanguage THEN language
                    ELSE [language EXCEPT ![w] = r.language]
     /\ Goto(c, "handling")
     /\ UNCHANGED <<server, maintenance, counter, queue, runs, timer, unsent, peer, sent,
                    toggles>>

(* ~WebRouter() at the end of showHtmlPage().  Mutant: the language stays. *)
LeaveLanguage(w, c) ==
  /\ request' = [request EXCEPT ![c] = NoRequest]
  /\ UNCHANGED language
Leave(w, c) ==
  /\ language' = [language EXCEPT ![w] = NoLanguage]
  /\ request' = [request EXCEPT ![c] = NoRequest]

(* sendHtml(): the handlers write an answer, or nothing when none of them  *)
(* takes the path and there is no error handler.  showHtmlPage() then      *)
(* returns to whatever emitted readyRead().                                *)
SendHtml(w) ==
  LET c == runs[w]
  IN /\ c # NoConn /\ phase[c] = "handling"
     /\ \E answered \in BOOLEAN :
          unsent' = [unsent EXCEPT ![c] = (@ \/ answered) /\ peer[c] = "open"]
     /\ IF request[c].keepAlive
        THEN Goto(c, IF timer[c] = "running" THEN "loop" ELSE "draining") /\ Leave(w, c)
        ELSE Goto(c, "draining") /\ UNCHANGED <<language, request>>
     /\ UNCHANGED <<server, maintenance, counter, queue, runs, timer, inbox, peer, sent,
                    toggles>>

(* A timer event needs an event loop that is not busy.  Mutant: no timers  *)
(* once the server is closing.                                             *)
LoopIdleOpen(c) == phase[c] \in {"loop", "lingering"} /\ server = "open"
LoopIdle(c) == phase[c] \in {"loop", "lingering"}

ClosedByInterval(w) ==
  LET c == runs[w]
  IN /\ c # NoConn
     /\ timer[c] = "running" /\ LoopIdle(c)
     /\ timer' = [timer EXCEPT ![c] = "off"]
     /\ Goto(c, "draining")
     /\ UNCHANGED <<server, maintenance, threads, request, peers, toggles>>

(* What close() leads to.  Mutant: abort().                                *)
AfterAbort(c) == "exiting"
AfterClose(c) == IF unsent[c] THEN "lingering" ELSE "exiting"

(* closeSocket(): wait until everything is written or for                  *)
(* WORKER_DISCONNECT_TIMEOUT at most, then close().  That disconnects at   *)
(* once, or after the rest is sent when some is left.                      *)
CloseSocket(w) ==
  LET c == runs[w]
  IN /\ c # NoConn /\ phase[c] = "draining"
     /\ Goto(c, AfterClose(c))
     /\ Leave(w, c)
     /\ UNCHANGED <<server, maintenance, counter, queue, runs, timer, peers, toggles>>

(* When disconnected(), which run() connects to onSocketDisconnected(), is *)
(* emitted.  Mutant: a signal that only tells of the peer's leaving.       *)
PeerLeft(c) == phase[c] = "loop" /\ peer[c] = "gone" /\ inbox[c] = NoRequest
Disconnected(c) ==
  \/ phase[c] = "loop" /\ peer[c] = "gone" /\ inbox[c] = NoRequest
  \/ phase[c] = "lingering" /\ ~unsent[c]

(* The event loop finds the socket disconnected: the peer left (requests   *)
(* that came before are read first), or a delayed close is through.        *)
OnSocketDisconnected(w) ==
  LET c == runs[w]
  IN /\ c # NoConn
     /\ Disconnected(c)
     /\ Goto(c, "exiting")
     /\ UNCHANGED <<server, maintenance, threads, timer, request, peers, toggles>>

(* run() returns and the pool deletes the WebProcess.                      *)
Finish(w) ==
  LET c == runs[w]
  IN /\ c # NoConn /\ phase[c] = "exiting"
     /\ Goto(c, "ended")
     /\ timer' = [timer EXCEPT ![c] = "off"]
     /\ FreeThread(w) /\ Destroy
     /\ UNCHANGED <<server, maintenance, queue, language, request, peers, toggles>>

-----------------------------------------------------------------------------
(* The other ends.                                                         *)
Reachable(c) == peer[c] = "open" /\ phase[c] \notin {"ended", "exiting"}

PeerSends(c) ==
  /\ Reachable(c)
  /\ sent[c] < MaxRequests /\ sent' = [sent EXCEPT ![c] = @ + 1]
  /\ inbox[c] = NoRequest
  /\ \E r \in Request : inbox' = [inbox EXCEPT ![c] = r]
  /\ UNCHANGED <<server, maintenance, threads, phase, timer, request, unsent, peer, toggles>>

PeerReads(c) ==
  /\ Reachable(c) /\ unsent[c]
  /\ unsent' = [unsent EXCEPT ![c] = FALSE]
  /\ UNCHANGED <<server, maintenance, threads, phase, timer, request, inbox, peer, sent,
                 toggles>>

(* The peer closes or the connection breaks: nothing can be written any    *)
(* more.                                                                   *)
PeerGoes(c) ==
  /\ Reachable(c)
  /\ peer' = [peer EXCEPT ![c] = "gone"]
  /\ unsent' = [unsent EXCEPT ![c] = FALSE]
  /\ UNCHANGED <<server, maintenance, threads, phase, timer, request, inbox, sent, toggles>>

(* A maintenance socket disconnected: deleteLater() in the main thread.    *)
MaintenanceEnds(c) ==
  /\ server = "open" /\ \A w \in Workers : runs[w] # c
  /\ \/ phase[c] = "lingering" /\ ~unsent[c]
     \/ phase[c] = "maintained" /\ peer[c] = "gone" /\ inbox[c] = NoRequest
  /\ Goto(c, "ended")
  /\ UNCHANGED <<server, maintenance, threads, timer, request, peers, toggles>>

ServerStep(w) ==
  Start(w) \/ ShowHtmlPage(w) \/ SendHtml(w) \/ CloseSocket(w) \/ OnSocketDisconnected(w)
    \/ Finish(w)

Next ==
  \/ \E c \in Conns :
       \/ IncomingConnection(c) \/ MaintenanceRespond(c) \/ MaintenanceEnds(c)
       \/ PeerSends(c) \/ PeerReads(c) \/ PeerGoes(c)
  \/ \E w \in Workers : ServerStep(w) \/ ClosedByInterval(w)
  \/ SetMaintenance \/ Close \/ WaitForDone

Spec == Init /\ [][Next]_vars

(* The scheduler runs every pool thread that can go on, and 30 or 60       *)
(* seconds go by: a running timer fires once its event loop is idle.       *)
ServerFairness ==
  /\ \A w \in Workers : WF_vars(ServerStep(w)) /\ WF_vars(ClosedByInterval(w))
  /\ WF_vars(WaitForDone)

FairSpec == Spec /\ ServerFairness

(* In addition every peer takes, some day, the bytes sent to it, or its    *)
(* connection breaks.                                                      *)
ResponsiveSpec ==
  FairSpec /\ \A c \in Conns : WF_vars(PeerReads(c) \/ (PeerGoes(c) /\ unsent[c]))

-----------------------------------------------------------------------------
(* While a request is answered its thread's default language is the one    *)
(* this request asked for, and none is left from earlier requests or       *)
(* connections the thread has served.                                      *)
LanguageOfRequest ==
  \A w \in Workers :
    language[w] = IF runs[w] # NoConn /\ request[runs[w]] # NoRequest
                  THEN request[runs[w]].language ELSE NoLanguage

(* No answer is cut off: the server lets a connection go with bytes unsent *)
(* only when the peer is gone.                                             *)
NothingTruncated ==
  \A c \in Conns : phase[c] \in {"exiting", "ended"} => ~unsent[c]

(* waitForDone() returns only after every connection that was accepted for *)
(* the pool has come to its end, with its timer dead and its WebProcess    *)
(* counted out.                                                            *)
ClosedMeansDone ==
  server = "closed" =>
    /\ counter = 0
    /\ \A c \in Conns :
         /\ phase[c] \in {"none", "ended", "maintained", "lingering"}
         /\ timer[c] = "off"

(* The comment on the session timer: a session ends, whatever its peer     *)
(* sends and however long it stays silent.                                 *)
SessionLimited ==
  \A c \in Conns : timer[c] = "running" ~> phase[c] = "ended"

(* Every connection handed to the pool gets a thread.                      *)
EveryoneServed ==
  \A c \in Conns : phase[c] = "queued" ~> phase[c] # "queued"

(* ~WebServer() comes to an end.                                           *)
ShutdownCompletes == server = "closing" ~> server = "closed"
=============================================================================
