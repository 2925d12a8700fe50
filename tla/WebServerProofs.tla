--------------------------- MODULE WebServerProofs ---------------------------
(***************************************************************************)
(* Safety of WebServer for any number of connections, pool threads,        *)
(* languages and requests.  The properties are not inductive: that an      *)
(* answer is not cut off needs that nothing is unsent to a peer that is    *)
(* gone; that no language leaks needs that a connection which is started   *)
(* has no request at hand, and that no two threads run the same one; that  *)
(* the destructor has waited for all needs that whatever is neither queued *)
(* nor run has ended.  IInv says where each connection is.                 *)
(***************************************************************************)
EXTENDS WebServer, FiniteSetTheorems, TLAPS

(* Where a connection is while run() is in charge of it. *)
Busy == {"loop", "handling", "draining", "lingering", "exiting"}

(* A thread runs a connection of its own; in all phases of run() but the   *)
(* last wait, which sockets of the main thread know as well, some thread   *)
(* does.                                                                   *)
RunsOne ==
  /\ \A w \in Workers : runs[w] # NoConn => phase[runs[w]] \in Busy
  /\ \A v, w \in Workers : v # w /\ runs[v] # NoConn => runs[v] # runs[w]
  /\ \A c \in Conns : phase[c] \in Busy \ {"lingering"} => \E w \in Workers : runs[w] = c

(* The queue holds what waits for a thread, once. *)
QueuedOnce ==
  /\ \A i \in 1..Len(queue) : phase[queue[i]] = "queued"
  /\ \A i, j \in 1..Len(queue) : queue[i] = queue[j] => i = j
  /\ \A c \in Conns : phase[c] = "queued" => \E i \in 1..Len(queue) : queue[i] = c

(* Timers live in run(). *)
TimerRuns ==
  \A c \in Conns : timer[c] = "running" =>
    /\ phase[c] \in Busy
    /\ \E w \in Workers : runs[w] = c

(* A peer is known from its connect on, and nothing is unsent to one that  *)
(* has gone.                                                               *)
PeersKnown ==
  \A c \in Conns :
    /\ phase[c] = "none" <=> peer[c] = "none"
    /\ unsent[c] => peer[c] = "open"

RequestAtHand ==
  \A c \in Conns : request[c] # NoRequest => phase[c] \in {"handling", "draining"}

Running == {w \in Workers : runs[w] # NoConn}

(* processCounter counts what is queued and what runs. *)
CounterExact == counter = Len(queue) + Cardinality(Running)

NothingLeft ==
  server = "closed" => queue = <<>> /\ \A w \in Workers : runs[w] = NoConn

IInv ==
  /\ TypeOK
  /\ RunsOne /\ QueuedOnce /\ TimerRuns /\ PeersKnown /\ RequestAtHand
  /\ CounterExact /\ NothingLeft
  /\ LanguageOfRequest /\ NothingTruncated

(* The server starts with nobody connected. *)
LEMMA InitEstablishes == Init => IInv
<1> SUFFICES ASSUME Init PROVE IInv OBVIOUS
<1>1. TypeOK
  <2>1. queue \in Seq(Conns) BY DEF Init
  <2>2. counter \in Nat BY DEF Init
  <2>3. runs \in [Workers -> Conns \cup {NoConn}] BY DEF Init
  <2>4. /\ inbox \in [Conns -> Request \cup {NoRequest}]
        /\ request \in [Conns -> Request \cup {NoRequest}]
    BY DEF Init
  <2>5. /\ phase \in [Conns -> Phases] /\ sent \in [Conns -> 0..MaxRequests]
        /\ toggles \in 0..MaxToggles
    BY ServerAssumption DEF Init, Phases
  <2> QED BY <2>1, <2>2, <2>3, <2>4, <2>5 DEF Init, TypeOK
<1>2. Running = {} BY DEF Init, Running
<1>3. CounterExact BY <1>2, FS_EmptySet DEF Init, CounterExact
<1> QED
  BY <1>1, <1>3 DEF Init, IInv, RunsOne, QueuedOnce, TimerRuns, PeersKnown, RequestAtHand,
     NothingLeft, LanguageOfRequest, NothingTruncated, Busy

(* What a step leaves alone, whichever step it is, keeps the parts that    *)
(* speak of nothing else.                                                  *)
LEMMA Frames ==
  ASSUME IInv
  PROVE  /\ UNCHANGED <<runs, phase>> => RunsOne'
         /\ UNCHANGED <<queue, phase>> => QueuedOnce'
         /\ UNCHANGED <<timer, phase, runs>> => TimerRuns'
         /\ UNCHANGED <<phase, peer, unsent>> => PeersKnown'
         /\ UNCHANGED <<request, phase>> => RequestAtHand'
         /\ UNCHANGED <<counter, queue, runs>> => CounterExact'
         /\ UNCHANGED <<server, queue, runs>> => NothingLeft'
         /\ UNCHANGED <<language, runs, request>> => LanguageOfRequest'
         /\ UNCHANGED <<phase, unsent>> => NothingTruncated'
<1> USE DEF IInv
<1>1. UNCHANGED <<runs, phase>> => RunsOne' BY DEF RunsOne
<1>2. UNCHANGED <<queue, phase>> => QueuedOnce' BY DEF QueuedOnce
<1>3. UNCHANGED <<timer, phase, runs>> => TimerRuns' BY DEF TimerRuns
<1>4. UNCHANGED <<phase, peer, unsent>> => PeersKnown' BY DEF PeersKnown
<1>5. UNCHANGED <<request, phase>> => RequestAtHand' BY DEF RequestAtHand
<1>6. UNCHANGED <<counter, queue, runs>> => CounterExact' BY DEF CounterExact, Running
<1>7. UNCHANGED <<server, queue, runs>> => NothingLeft' BY DEF NothingLeft
<1>8. UNCHANGED <<language, runs, request>> => LanguageOfRequest' BY DEF LanguageOfRequest
<1>9. UNCHANGED <<phase, unsent>> => NothingTruncated' BY DEF NothingTruncated
<1> QED BY <1>1, <1>2, <1>3, <1>4, <1>5, <1>6, <1>7, <1>8, <1>9

(* Every action keeps the invariant. *)
LEMMA Step == IInv /\ [Next]_vars => IInv'
<1> SUFFICES ASSUME IInv, [Next]_vars PROVE IInv' OBVIOUS
<1> USE ServerAssumption DEF IInv
<1>1. ASSUME NEW c \in Conns, IncomingConnection(c) PROVE IInv'
  <2> USE DEF Busy
  <2>1. peer[c] = "none" /\ peer' = [peer EXCEPT ![c] = "open"] /\ server = "open"
    BY <1>1 DEF IncomingConnection
  <2>2. phase[c] = "none" BY <2>1 DEF PeersKnown
  <2>3. UNCHANGED <<server, maintenance, runs, language, timer, request, inbox, unsent, sent, toggles>>
    BY <1>1 DEF IncomingConnection
  <2>4. CASE maintenance
    <3>1. phase' = [phase EXCEPT ![c] = "maintained"] /\ UNCHANGED <<counter, queue>>
      BY <1>1, <2>4 DEF IncomingConnection, Goto
    <3>2. TypeOK' BY <2>1, <2>3, <3>1 DEF TypeOK, Phases, Request
    <3>3. RunsOne' /\ QueuedOnce' /\ TimerRuns' /\ RequestAtHand'
      BY <2>2, <2>3, <3>1 DEF TypeOK, RunsOne, QueuedOnce, TimerRuns, RequestAtHand
    <3>4. PeersKnown' BY <2>1, <2>2, <2>3, <3>1 DEF TypeOK, PeersKnown
    <3>5. CounterExact' /\ NothingLeft'
      BY <2>1, <2>3, <3>1 DEF CounterExact, Running, NothingLeft
    <3>6. LanguageOfRequest' /\ NothingTruncated'
      BY <2>3, <3>1 DEF TypeOK, LanguageOfRequest, NothingTruncated
    <3> QED BY <3>2, <3>3, <3>4, <3>5, <3>6
  <2>5. CASE ~maintenance
    <3>1. phase' = [phase EXCEPT ![c] = "queued"] /\ counter' = counter + 1
      BY <1>1, <2>5 DEF IncomingConnection, Goto
    <3>2. /\ queue' \in Seq(Conns) /\ Len(queue') = Len(queue) + 1
          /\ \A i \in 1..Len(queue) : queue'[i] = queue[i]
          /\ queue'[Len(queue) + 1] = c
      <4>1. queue' = Append(queue, c) BY <1>1, <2>5 DEF IncomingConnection
      <4>2. queue \in Seq(Conns) BY DEF TypeOK
      <4> QED BY <4>1, <4>2
    <3>3. Len(queue) \in Nat /\ \A i \in 1..Len(queue) : queue[i] \in Conns
      BY DEF TypeOK
    <3>4. TypeOK' BY <2>1, <2>3, <3>1, <3>2 DEF TypeOK, Phases, Request
    <3>5. RunsOne' /\ TimerRuns' /\ RequestAtHand'
      BY <2>2, <2>3, <3>1 DEF TypeOK, RunsOne, TimerRuns, RequestAtHand
    <3>6. QueuedOnce'
      <4>1. \A i \in 1..Len(queue) : queue[i] # c BY <2>2 DEF QueuedOnce
      <4>2. \A i \in 1..Len(queue') : i = Len(queue) + 1 \/ i \in 1..Len(queue)
        BY <3>2, <3>3
      <4>3. \A i \in 1..Len(queue') : phase'[queue'[i]] = "queued"
        <5>1. phase'[c] = "queued" BY <3>1 DEF TypeOK
        <5>2. \A i \in 1..Len(queue) : phase'[queue[i]] = "queued"
          BY <3>1, <3>3, <4>1 DEF QueuedOnce, TypeOK
        <5> QED BY <3>2, <4>2, <5>1, <5>2
      <4>4. \A i, j \in 1..Len(queue') : queue'[i] = queue'[j] => i = j
        BY <3>2, <4>1, <4>2 DEF QueuedOnce
      <4>5. ASSUME NEW d \in Conns, phase'[d] = "queued"
            PROVE  \E i \in 1..Len(queue') : queue'[i] = d
        <5>1. CASE d = c BY <3>2, <3>3, <5>1
        <5>2. CASE d # c
          <6>1. PICK i \in 1..Len(queue) : queue[i] = d
            BY <3>1, <4>5, <5>2 DEF QueuedOnce, TypeOK
          <6>2. i \in 1..Len(queue') BY <3>2, <3>3
          <6> QED BY <3>2, <6>1, <6>2
        <5> QED BY <5>1, <5>2
      <4> QED BY <4>3, <4>4, <4>5 DEF QueuedOnce
    <3>7. PeersKnown' BY <2>1, <2>2, <2>3, <3>1 DEF TypeOK, PeersKnown
    <3>8. CounterExact'
      <4>1. Cardinality(Running) \in Nat
        BY ServerAssumption, FS_Subset, FS_CardinalityType DEF Running
      <4> QED BY <2>3, <3>1, <3>2, <3>3, <4>1 DEF CounterExact, Running, TypeOK
    <3>9. NothingLeft' BY <2>1, <2>3 DEF NothingLeft
    <3>10. LanguageOfRequest' /\ NothingTruncated'
      BY <2>3, <3>1 DEF TypeOK, LanguageOfRequest, NothingTruncated
    <3> QED BY <3>4, <3>5, <3>6, <3>7, <3>8, <3>9, <3>10
  <2> QED BY <2>4, <2>5
<1>2. ASSUME NEW c \in Conns, MaintenanceRespond(c) PROVE IInv'
  <2>1. TypeOK'
    BY <1>2 DEF TypeOK, Phases, MaintenanceRespond, threads, Goto
  <2>2. RunsOne'
    BY <1>2 DEF TypeOK, RunsOne, MaintenanceRespond, threads, Goto, Busy
  <2>3. QueuedOnce'
    BY <1>2 DEF TypeOK, QueuedOnce, RunsOne, MaintenanceRespond, threads, Goto, Busy
  <2>4. TimerRuns'
    BY <1>2 DEF TypeOK, TimerRuns, RunsOne, MaintenanceRespond, threads, Goto, Busy
  <2>5. PeersKnown'
    BY <1>2 DEF TypeOK, PeersKnown, RunsOne, MaintenanceRespond, threads, Goto, Busy
  <2>6. RequestAtHand'
    BY <1>2 DEF TypeOK, RequestAtHand, RunsOne, MaintenanceRespond, threads, Goto, Busy
  <2>7. NothingTruncated'
    BY <1>2 DEF TypeOK, NothingTruncated, PeersKnown, MaintenanceRespond, threads,
      Goto, Busy
  <2> QED BY <1>2, <2>1, <2>2, <2>3, <2>4, <2>5, <2>6, <2>7, Frames DEF
    MaintenanceRespond, threads, Goto
<1>3. ASSUME NEW c \in Conns, MaintenanceEnds(c) PROVE IInv'
  <2>1. TypeOK'
    BY <1>3 DEF TypeOK, Phases, MaintenanceEnds, threads, peers, Goto
  <2>2. RunsOne'
    BY <1>3 DEF TypeOK, RunsOne, MaintenanceEnds, threads, peers, Goto, Busy
  <2>3. QueuedOnce'
    BY <1>3 DEF TypeOK, QueuedOnce, RunsOne, MaintenanceEnds, threads, peers, Goto,
      Busy
  <2>4. TimerRuns'
    BY <1>3 DEF TypeOK, TimerRuns, RunsOne, MaintenanceEnds, threads, peers, Goto, Busy
  <2>5. PeersKnown'
    BY <1>3 DEF TypeOK, PeersKnown, RunsOne, MaintenanceEnds, threads, peers, Goto,
      Busy
  <2>6. RequestAtHand'
    BY <1>3 DEF TypeOK, RequestAtHand, RunsOne, MaintenanceEnds, threads, peers, Goto,
      Busy
  <2>7. NothingTruncated'
    BY <1>3 DEF TypeOK, NothingTruncated, PeersKnown, MaintenanceEnds, threads, peers,
      Goto, Busy
  <2> QED BY <1>3, <2>1, <2>2, <2>3, <2>4, <2>5, <2>6, <2>7, Frames DEF
    MaintenanceEnds, threads, peers, Goto
<1>4. ASSUME NEW c \in Conns, PeerSends(c) PROVE IInv'
  <2>1. TypeOK'
    BY <1>4 DEF TypeOK, PeerSends, threads
  <2> QED BY <1>4, <2>1, Frames DEF PeerSends, threads
<1>5. ASSUME NEW c \in Conns, PeerReads(c) PROVE IInv'
  <2>1. TypeOK'
    BY <1>5 DEF TypeOK, PeerReads, threads
  <2>2. PeersKnown'
    BY <1>5 DEF TypeOK, PeersKnown, RunsOne, PeerReads, threads
  <2>3. NothingTruncated'
    BY <1>5 DEF TypeOK, NothingTruncated, PeersKnown, PeerReads, threads
  <2> QED BY <1>5, <2>1, <2>2, <2>3, Frames DEF PeerReads, threads
<1>6. ASSUME NEW c \in Conns, PeerGoes(c) PROVE IInv'
  <2>1. TypeOK'
    BY <1>6 DEF TypeOK, PeerGoes, threads
  <2>2. PeersKnown'
    BY <1>6 DEF TypeOK, PeersKnown, RunsOne, PeerGoes, threads, Reachable
  <2>3. NothingTruncated'
    BY <1>6 DEF TypeOK, NothingTruncated, PeersKnown, PeerGoes, threads, Reachable
  <2> QED BY <1>6, <2>1, <2>2, <2>3, Frames DEF PeerGoes, threads
<1>7. ASSUME NEW w \in Workers, Start(w) PROVE IInv'
  <2> USE DEF Busy
  <2> DEFINE c == Head(queue)
  <2>1. runs[w] = NoConn /\ queue # <<>> BY <1>7 DEF Start
  <2>2. /\ runs' = [runs EXCEPT ![w] = c] /\ phase' = [phase EXCEPT ![c] = "loop"]
        /\ timer' = [timer EXCEPT ![c] = "running"]
    BY <1>7 DEF Start, Goto
  <2>3. UNCHANGED <<server, maintenance, counter, language, request, inbox, unsent, peer, sent, toggles>>
    BY <1>7 DEF Start, peers
  <2>4. /\ queue' \in Seq(Conns) /\ Len(queue) \in Nat \ {0} /\ Len(queue') = Len(queue) - 1
        /\ c \in Conns /\ c = queue[1]
        /\ \A i \in 1..Len(queue') : queue'[i] = queue[i + 1]
    BY <1>7, <2>1 DEF Start, TypeOK
  <2>5. phase[c] = "queued" BY <2>4 DEF QueuedOnce
  <2>6. \A v \in Workers : runs[v] # c
    BY <2>4, <2>5 DEF RunsOne
  <2> HIDE DEF c
  <2>7. c # NoConn /\ request[c] = NoRequest
    BY <2>4, <2>5, ServerAssumption DEF RequestAtHand
  <2>8. TypeOK' BY <2>2, <2>3, <2>4 DEF TypeOK, Phases, Request
  <2>9. RunsOne'
    <3>1. \A v \in Workers : runs'[v] # NoConn => phase'[runs'[v]] \in Busy
      BY <2>2, <2>4, <2>6 DEF RunsOne, TypeOK
    <3>2. \A v, x \in Workers : v # x /\ runs'[v] # NoConn => runs'[v] # runs'[x]
      BY <2>2, <2>6 DEF RunsOne, TypeOK
    <3>3. ASSUME NEW d \in Conns, phase'[d] \in Busy \ {"lingering"}
          PROVE  \E v \in Workers : runs'[v] = d
      <4>1. CASE d = c BY <2>2, <4>1 DEF TypeOK
      <4>2. CASE d # c
        <5>1. PICK v \in Workers : runs[v] = d BY <2>2, <3>3, <4>2 DEF RunsOne, TypeOK
        <5>2. v # w BY <2>1, <5>1, ServerAssumption
        <5> QED BY <2>2, <5>1, <5>2 DEF TypeOK
      <4> QED BY <4>1, <4>2
    <3> QED BY <3>1, <3>2, <3>3 DEF RunsOne
  <2>10. QueuedOnce'
    <3>1. \A i \in 1..Len(queue') : i + 1 \in 1..Len(queue) /\ i + 1 # 1 BY <2>4
    <3>2. \A i \in 1..Len(queue') : queue'[i] # c
      BY <2>4, <3>1 DEF QueuedOnce
    <3>3. \A i \in 1..Len(queue') : phase'[queue'[i]] = "queued"
      <4>1. \A i \in 1..Len(queue) : queue[i] \in Conns BY DEF TypeOK
      <4>2. \A i \in 1..Len(queue') :
              queue'[i] \in Conns /\ queue'[i] # c /\ phase[queue'[i]] = "queued"
        <5> SUFFICES ASSUME NEW i \in 1..Len(queue')
                     PROVE  queue'[i] \in Conns /\ phase[queue'[i]] = "queued"
          BY <3>2
        <5>1. queue'[i] = queue[i + 1] /\ i + 1 \in 1..Len(queue) BY <2>4, <3>1
        <5> QED BY <4>1, <5>1 DEF QueuedOnce
      <4> QED BY <2>2, <4>2 DEF TypeOK
    <3>4. \A i, j \in 1..Len(queue') : queue'[i] = queue'[j] => i = j
      BY <2>4, <3>1 DEF QueuedOnce
    <3>5. ASSUME NEW d \in Conns, phase'[d] = "queued"
          PROVE  \E i \in 1..Len(queue') : queue'[i] = d
      <4>1. d # c /\ phase[d] = "queued" BY <2>2, <2>4, <3>5 DEF TypeOK
      <4>2. PICK i \in 1..Len(queue) : queue[i] = d BY <4>1 DEF QueuedOnce
      <4>3. i # 1 BY <2>4, <4>1, <4>2
      <4>4. i - 1 \in 1..Len(queue') /\ (i - 1) + 1 = i BY <2>4, <4>3
      <4>5. queue'[i - 1] = d BY <2>4, <4>2, <4>4
      <4> QED BY <4>4, <4>5
    <3> QED BY <3>3, <3>4, <3>5 DEF QueuedOnce
  <2>11. TimerRuns'
    <3> SUFFICES ASSUME NEW d \in Conns, timer'[d] = "running"
                 PROVE  phase'[d] \in Busy /\ \E v \in Workers : runs'[v] = d
      BY DEF TimerRuns
    <3>1. CASE d = c BY <2>2, <2>4, <3>1 DEF TypeOK
    <3>2. CASE d # c
      <4>1. phase[d] \in Busy /\ \E v \in Workers : runs[v] = d
        BY <2>2, <3>2 DEF TimerRuns, TypeOK
      <4>2. PICK v \in Workers : runs[v] = d BY <4>1
      <4>3. v # w BY <2>1, <4>2, ServerAssumption
      <4> QED BY <2>2, <3>2, <4>1, <4>2, <4>3 DEF TypeOK
    <3> QED BY <3>1, <3>2
  <2>12. PeersKnown' /\ NothingTruncated'
    BY <2>2, <2>3, <2>4, <2>5 DEF PeersKnown, NothingTruncated, TypeOK
  <2>13. RequestAtHand'
    BY <2>2, <2>3, <2>5, <2>7 DEF RequestAtHand, TypeOK
  <2>14. CounterExact'
    <3>1. w \notin Running /\ Running' = Running \cup {w}
      BY <2>1, <2>2, <2>7 DEF Running, TypeOK
    <3>2. IsFiniteSet(Running)
      BY ServerAssumption, FS_Subset DEF Running
    <3>3. Cardinality(Running') = Cardinality(Running) + 1 /\ Cardinality(Running) \in Nat
      BY <3>1, <3>2, FS_AddElement, FS_CardinalityType
    <3> QED BY <2>3, <2>4, <3>3 DEF CounterExact, TypeOK
  <2>15. NothingLeft' BY <2>1, <2>3 DEF NothingLeft
  <2>16. LanguageOfRequest'
    BY <2>1, <2>2, <2>3, <2>7 DEF LanguageOfRequest, TypeOK
  <2> QED BY <2>8, <2>9, <2>10, <2>11, <2>12, <2>13, <2>14, <2>15, <2>16
<1>8. ASSUME NEW w \in Workers, ShowHtmlPage(w) PROVE IInv'
  <2>1. TypeOK'
    BY <1>8 DEF TypeOK, Phases, Request, ReadyRead, ShowHtmlPage, Goto
  <2>2. RunsOne'
    BY <1>8 DEF TypeOK, RunsOne, ShowHtmlPage, Goto, ReadyRead, Busy
  <2>3. QueuedOnce'
    BY <1>8 DEF TypeOK, QueuedOnce, RunsOne, ShowHtmlPage, Goto, ReadyRead, Busy
  <2>4. TimerRuns'
    BY <1>8 DEF TypeOK, TimerRuns, RunsOne, ShowHtmlPage, Goto, ReadyRead, Busy
  <2>5. PeersKnown'
    BY <1>8 DEF TypeOK, PeersKnown, RunsOne, ShowHtmlPage, Goto, ReadyRead, Busy
  <2>6. RequestAtHand'
    BY <1>8 DEF TypeOK, RequestAtHand, RunsOne, ShowHtmlPage, Goto, ReadyRead, Busy
  <2>7. LanguageOfRequest'
    BY <1>8 DEF TypeOK, LanguageOfRequest, RequestAtHand, RunsOne, ShowHtmlPage, Goto,
      ReadyRead, Busy
  <2>8. NothingTruncated'
    BY <1>8 DEF TypeOK, NothingTruncated, PeersKnown, ShowHtmlPage, Goto, ReadyRead,
      Busy
  <2> QED BY <1>8, <2>1, <2>2, <2>3, <2>4, <2>5, <2>6, <2>7, <2>8, Frames DEF
    ShowHtmlPage, Goto
<1>9. ASSUME NEW w \in Workers, SendHtml(w) PROVE IInv'
  <2> USE DEF Busy
  <2> DEFINE c == runs[w]
  <2>1. c # NoConn /\ phase[c] = "handling" /\ c \in Conns BY <1>9 DEF SendHtml, TypeOK
  <2>2. PICK answered \in BOOLEAN :
          unsent' = [unsent EXCEPT ![c] = (@ \/ answered) /\ peer[c] = "open"]
    BY <1>9 DEF SendHtml
  <2>3. UNCHANGED <<server, maintenance, counter, queue, runs, timer, inbox, peer, sent, toggles>>
    BY <1>9 DEF SendHtml
  <2>4. \/ /\ phase' = [phase EXCEPT ![c] = "loop"] \/ phase' = [phase EXCEPT ![c] = "draining"]
           /\ language' = [language EXCEPT ![w] = NoLanguage]
           /\ request' = [request EXCEPT ![c] = NoRequest]
        \/ phase' = [phase EXCEPT ![c] = "draining"] /\ UNCHANGED <<language, request>>
    BY <1>9 DEF SendHtml, Goto, Leave
  <2> HIDE DEF c
  <2>5. TypeOK'
    <3>1. unsent' \in [Conns -> BOOLEAN] BY <2>2 DEF TypeOK
    <3> QED BY <2>1, <2>3, <2>4, <3>1 DEF TypeOK, Phases, Request
  <2>6. RunsOne' /\ TimerRuns' /\ NothingTruncated'
    <3>1. phase' = [phase EXCEPT ![c] = "loop"] \/ phase' = [phase EXCEPT ![c] = "draining"]
      BY <2>4
    <3>2. RunsOne'
      <4>1. \A d \in Conns : (phase'[d] \in Busy <=> phase[d] \in Busy)
                             /\ (phase'[d] \in Busy \ {"lingering"} <=> phase[d] \in Busy \ {"lingering"})
        BY <2>1, <3>1 DEF TypeOK
      <4>2. \A v \in Workers : runs[v] # NoConn => runs[v] \in Conns BY DEF TypeOK
      <4> QED BY <2>3, <4>1, <4>2 DEF RunsOne
    <3>3. TimerRuns' BY <2>1, <2>3, <3>1 DEF TimerRuns, TypeOK
    <3>4. NothingTruncated' BY <2>1, <2>2, <3>1 DEF NothingTruncated, TypeOK
    <3> QED BY <3>2, <3>3, <3>4
  <2>7. QueuedOnce'
    <3>1. \A d \in Conns : phase'[d] = "queued" <=> phase[d] = "queued"
      BY <2>1, <2>4 DEF TypeOK
    <3>2. \A i \in 1..Len(queue) : queue[i] \in Conns BY DEF TypeOK
    <3> QED BY <2>3, <3>1, <3>2 DEF QueuedOnce
  <2>8. PeersKnown' BY <2>1, <2>2, <2>3, <2>4 DEF PeersKnown, TypeOK
  <2>9. RequestAtHand' BY <2>1, <2>4 DEF RequestAtHand, TypeOK
  <2>10. CounterExact' /\ NothingLeft' BY <2>3 DEF CounterExact, Running, NothingLeft
  <2>11. LanguageOfRequest'
    <3>1. \A v \in Workers : v # w => runs[v] # c BY <2>1 DEF RunsOne, c
    <3>2. \A v \in Workers \ {w} : language'[v] = language[v]
      BY <2>4 DEF TypeOK
    <3>3. \A v \in Workers \ {w} : runs[v] # NoConn => request'[runs[v]] = request[runs[v]]
      BY <2>4, <3>1 DEF TypeOK
    <3>4. \/ language'[w] = NoLanguage /\ request'[c] = NoRequest
          \/ language'[w] = language[w] /\ request'[c] = request[c]
      BY <2>1, <2>4 DEF TypeOK
    <3> QED BY <2>1, <2>3, <3>2, <3>3, <3>4 DEF LanguageOfRequest, c
  <2> QED BY <2>5, <2>6, <2>7, <2>8, <2>9, <2>10, <2>11
<1>10. ASSUME NEW w \in Workers, CloseSocket(w) PROVE IInv'
  <2>1. TypeOK'
    BY <1>10 DEF TypeOK, Phases, AfterClose, CloseSocket, peers, Goto, Leave
  <2>2. RunsOne'
    BY <1>10 DEF TypeOK, RunsOne, CloseSocket, peers, Goto, Leave, AfterClose, Busy
  <2>3. QueuedOnce'
    BY <1>10 DEF TypeOK, QueuedOnce, RunsOne, CloseSocket, peers, Goto, Leave,
      AfterClose, Busy
  <2>4. TimerRuns'
    BY <1>10 DEF TypeOK, TimerRuns, RunsOne, CloseSocket, peers, Goto, Leave,
      AfterClose, Busy
  <2>5. PeersKnown'
    BY <1>10 DEF TypeOK, PeersKnown, RunsOne, CloseSocket, peers, Goto, Leave,
      AfterClose, Busy
  <2>6. RequestAtHand'
    BY <1>10 DEF TypeOK, RequestAtHand, RunsOne, CloseSocket, peers, Goto, Leave,
      AfterClose, Busy
  <2>7. LanguageOfRequest'
    BY <1>10 DEF TypeOK, LanguageOfRequest, RequestAtHand, RunsOne, CloseSocket, peers,
      Goto, Leave, AfterClose, Busy
  <2>8. NothingTruncated'
    BY <1>10 DEF TypeOK, NothingTruncated, PeersKnown, CloseSocket, peers, Goto, Leave,
      AfterClose, Busy
  <2> QED BY <1>10, <2>1, <2>2, <2>3, <2>4, <2>5, <2>6, <2>7, <2>8, Frames DEF
    CloseSocket, peers, Goto, Leave
<1>11. ASSUME NEW w \in Workers, OnSocketDisconnected(w) PROVE IInv'
  <2>1. TypeOK'
    BY <1>11 DEF TypeOK, Phases, OnSocketDisconnected, threads, peers, Goto
  <2>2. RunsOne'
    BY <1>11 DEF TypeOK, RunsOne, OnSocketDisconnected, threads, peers, Goto,
      Disconnected, Busy
  <2>3. QueuedOnce'
    BY <1>11 DEF TypeOK, QueuedOnce, RunsOne, OnSocketDisconnected, threads, peers,
      Goto, Disconnected, Busy
  <2>4. TimerRuns'
    BY <1>11 DEF TypeOK, TimerRuns, RunsOne, OnSocketDisconnected, threads, peers,
      Goto, Disconnected, Busy
  <2>5. PeersKnown'
    BY <1>11 DEF TypeOK, PeersKnown, RunsOne, OnSocketDisconnected, threads, peers,
      Goto, Disconnected, Busy
  <2>6. RequestAtHand'
    BY <1>11 DEF TypeOK, RequestAtHand, RunsOne, OnSocketDisconnected, threads, peers,
      Goto, Disconnected, Busy
  <2>7. NothingTruncated'
    BY <1>11 DEF TypeOK, NothingTruncated, PeersKnown, OnSocketDisconnected, threads,
      peers, Goto, Disconnected, Busy
  <2> QED BY <1>11, <2>1, <2>2, <2>3, <2>4, <2>5, <2>6, <2>7, Frames DEF
    OnSocketDisconnected, threads, peers, Goto
<1>12. ASSUME NEW w \in Workers, Finish(w) PROVE IInv'
  <2> USE DEF Busy
  <2> DEFINE c == runs[w]
  <2>1. c # NoConn /\ phase[c] = "exiting" /\ c \in Conns BY <1>12 DEF Finish, TypeOK
  <2>2. /\ phase' = [phase EXCEPT ![c] = "ended"] /\ timer' = [timer EXCEPT ![c] = "off"]
        /\ runs' = [runs EXCEPT ![w] = NoConn] /\ counter' = counter - 1
    BY <1>12 DEF Finish, Goto, FreeThread, Destroy
  <2>3. UNCHANGED <<server, maintenance, queue, language, request, inbox, unsent, peer, sent, toggles>>
    BY <1>12 DEF Finish, peers
  <2>4. \A v \in Workers : v # w => runs[v] # c BY <2>1 DEF RunsOne
  <2> HIDE DEF c
  <2>5. CounterExact' /\ counter' \in Nat
    <3>1. w \in Running /\ Running' = Running \ {w}
      BY <2>1, <2>2 DEF Running, TypeOK, c
    <3>2. IsFiniteSet(Running) BY ServerAssumption, FS_Subset DEF Running
    <3>3. Cardinality(Running') = Cardinality(Running) - 1 /\ Cardinality(Running') \in Nat
      BY <3>1, <3>2, FS_RemoveElement, FS_CardinalityType
    <3>4. Len(queue) \in Nat /\ Cardinality(Running) \in Nat
      BY <3>2, FS_CardinalityType DEF TypeOK
    <3> QED BY <2>2, <2>3, <3>3, <3>4 DEF CounterExact
  <2>6. TypeOK'
    <3>1. runs' \in [Workers -> Conns \cup {NoConn}] BY <2>2 DEF TypeOK
    <3> QED BY <2>1, <2>2, <2>3, <2>5, <3>1 DEF TypeOK, Phases, Request
  <2>7. RunsOne'
    <3>1. \A v \in Workers : runs'[v] # NoConn => phase'[runs'[v]] \in Busy
      BY <2>2, <2>4 DEF RunsOne, TypeOK
    <3>2. \A v, x \in Workers : v # x /\ runs'[v] # NoConn => runs'[v] # runs'[x]
      BY <2>2 DEF RunsOne, TypeOK
    <3>3. \A d \in Conns : phase'[d] \in Busy \ {"lingering"} => \E v \in Workers : runs'[v] = d
      BY <2>1, <2>2 DEF RunsOne, TypeOK, c
    <3> QED BY <3>1, <3>2, <3>3 DEF RunsOne
  <2>8. QueuedOnce'
    <3>1. \A d \in Conns : phase'[d] = "queued" <=> phase[d] = "queued"
      BY <2>1, <2>2 DEF TypeOK
    <3>2. \A i \in 1..Len(queue) : queue[i] \in Conns BY DEF TypeOK
    <3> QED BY <2>3, <3>1, <3>2 DEF QueuedOnce
  <2>9. TimerRuns' BY <2>1, <2>2 DEF TimerRuns, TypeOK, c
  <2>10. PeersKnown' /\ NothingTruncated'
    BY <2>1, <2>2, <2>3 DEF PeersKnown, NothingTruncated, TypeOK
  <2>11. RequestAtHand' BY <2>1, <2>2, <2>3 DEF RequestAtHand, TypeOK
  <2>12. NothingLeft' BY <2>2, <2>3 DEF NothingLeft, TypeOK
  <2>13. LanguageOfRequest'
    <3>1. request[c] = NoRequest BY <2>1 DEF RequestAtHand
    <3>2. language[w] = NoLanguage BY <3>1 DEF LanguageOfRequest, c
    <3> QED BY <2>2, <2>3, <3>2, ServerAssumption DEF LanguageOfRequest, TypeOK
  <2> QED BY <2>5, <2>6, <2>7, <2>8, <2>9, <2>10, <2>11, <2>12, <2>13
<1>13. ASSUME NEW w \in Workers, ClosedByInterval(w) PROVE IInv'
  <2>1. TypeOK'
    BY <1>13 DEF TypeOK, Phases, ClosedByInterval, threads, peers, Goto
  <2>2. RunsOne'
    BY <1>13 DEF TypeOK, RunsOne, ClosedByInterval, threads, peers, Goto, LoopIdle,
      Busy
  <2>3. QueuedOnce'
    BY <1>13 DEF TypeOK, QueuedOnce, RunsOne, ClosedByInterval, threads, peers, Goto,
      LoopIdle, Busy
  <2>4. TimerRuns'
    BY <1>13 DEF TypeOK, TimerRuns, RunsOne, ClosedByInterval, threads, peers, Goto,
      LoopIdle, Busy
  <2>5. PeersKnown'
    BY <1>13 DEF TypeOK, PeersKnown, RunsOne, ClosedByInterval, threads, peers, Goto,
      LoopIdle, Busy
  <2>6. RequestAtHand'
    BY <1>13 DEF TypeOK, RequestAtHand, RunsOne, ClosedByInterval, threads, peers,
      Goto, LoopIdle, Busy
  <2>7. NothingTruncated'
    BY <1>13 DEF TypeOK, NothingTruncated, PeersKnown, ClosedByInterval, threads,
      peers, Goto, LoopIdle, Busy
  <2> QED BY <1>13, <2>1, <2>2, <2>3, <2>4, <2>5, <2>6, <2>7, Frames DEF
    ClosedByInterval, threads, peers, Goto
<1>14. ASSUME SetMaintenance PROVE IInv'
  <2>1. TypeOK'
    BY <1>14 DEF TypeOK, SetMaintenance, threads, peers
  <2> QED BY <1>14, <2>1, Frames DEF SetMaintenance, threads, peers
<1>15. ASSUME Close PROVE IInv'
  <2>1. TypeOK'
    BY <1>15 DEF TypeOK, Close, threads, peers
  <2>2. NothingLeft'
    BY <1>15 DEF TypeOK, NothingLeft, Close, threads, peers
  <2> QED BY <1>15, <2>1, <2>2, Frames DEF Close, threads, peers
<1>16. ASSUME WaitForDone PROVE IInv'
  <2>1. TypeOK'
    BY <1>16 DEF TypeOK, WaitForDone, threads, peers
  <2>2. NothingLeft'
    BY <1>16 DEF TypeOK, NothingLeft, WaitForDone, threads, peers, PoolDone
  <2> QED BY <1>16, <2>1, <2>2, Frames DEF WaitForDone, threads, peers
<1>17. ASSUME UNCHANGED vars PROVE IInv'
  <2>1. TypeOK' BY <1>17 DEF vars, threads, peers, TypeOK
  <2> QED BY <1>17, <2>1, Frames DEF vars, threads, peers
<1> QED BY <1>1, <1>2, <1>3, <1>4, <1>5, <1>6, <1>7, <1>8, <1>9, <1>10, <1>11, <1>12,
  <1>13, <1>14, <1>15, <1>16, <1>17 DEF Next, ServerStep

(* The invariant holds in every state the server can get to. *)
LEMMA Always == Spec => []IInv
<1> QED BY InitEstablishes, Step, PTL DEF Spec

(* The variables keep to their types: in particular processCounter never   *)
(* falls below zero (webprocess.cpp: ~WebProcess()).                       *)
THEOREM ServerTypes == Spec => []TypeOK
<1>1. IInv => TypeOK BY DEF IInv
<1> QED BY <1>1, Always, PTL

(* No request is answered in a language that another request, or another   *)
(* connection served by the same pool thread, has asked for                *)
(* (webrouter.cpp: parseLanguage(), ~WebRouter()).                         *)
THEOREM NoLanguageLeaks == Spec => []LanguageOfRequest
<1>1. IInv => LanguageOfRequest BY DEF IInv
<1> QED BY <1>1, Always, PTL

(* closeSocket() and the session timer never cut an answer off             *)
(* (webprocess.cpp).                                                       *)
THEOREM AnswersComplete == Spec => []NothingTruncated
<1>1. IInv => NothingTruncated BY DEF IInv
<1> QED BY <1>1, Always, PTL

(* When ~WebServer() has come back from waitForDone(), no connection that  *)
(* was accepted for the pool is left, running or queued (webserver.cpp).   *)
THEOREM ShutdownComplete == Spec => []ClosedMeansDone
<1>1. IInv => ClosedMeansDone
  <2> SUFFICES ASSUME IInv, server = "closed"
               PROVE  /\ counter = 0
                      /\ \A c \in Conns :
                           /\ phase[c] \in {"none", "ended", "maintained", "lingering"}
                           /\ timer[c] = "off"
    BY DEF ClosedMeansDone
  <2>1. queue = <<>> /\ \A w \in Workers : runs[w] = NoConn BY DEF IInv, NothingLeft
  <2>2. counter = 0
    <3>1. Running = {} BY <2>1 DEF Running
    <3> QED BY <2>1, <3>1, FS_EmptySet DEF IInv, CounterExact
  <2>3. ASSUME NEW c \in Conns
        PROVE  phase[c] \in {"none", "ended", "maintained", "lingering"} /\ timer[c] = "off"
    <3>1. \A w \in Workers : runs[w] # c BY <2>1, ServerAssumption
    <3>2. phase[c] # "queued" BY <2>1 DEF IInv, QueuedOnce
    <3>3. phase[c] \notin Busy \ {"lingering"} BY <3>1 DEF IInv, RunsOne
    <3>4. timer[c] # "running" BY <3>1 DEF IInv, TimerRuns
    <3> QED BY <3>2, <3>3, <3>4 DEF IInv, TypeOK, Phases, Busy
  <2> QED BY <2>2, <2>3
<1> QED BY <1>1, Always, PTL
=============================================================================
