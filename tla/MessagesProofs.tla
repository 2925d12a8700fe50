--------------------------- MODULE MessagesProofs ---------------------------
(***************************************************************************)
(* What holds of the messages that leave the program, for any number of    *)
(* clients, threads and recipients: the broadcasts of the WebSocket        *)
(* listener, the log files of logger.cpp and the mails of smtpsender.cpp.  *)
(***************************************************************************)
EXTENDS WebSocketsListener, Logger, Mail, FiniteSetTheorems, SequenceTheorems,
        WellFoundedInduction, TLAPS

-----------------------------------------------------------------------------
(* For any number of clients, listeners, workers and messages, broadcasts  *)
(* come to all clients in one order.  The property is not inductive: it    *)
(* needs that two broadcasts are never sent at once, that what is being    *)
(* sent stands at the end of every inbox it has reached, and that a        *)
(* message a client got again, from a list that moved under the walk, has  *)
(* nothing in between.                                                     *)

Inboxes == inbox \in [Sockets -> Seq(Messages)]

(* What was sent was said, and only who holds the mutex is sending.        *)
OneSender ==
  /\ \A w \in Workers : Walking(w) =>
       holder = <<w>> /\ walk[w].message \in said \cap Messages
  /\ \A s \in Sockets : \A i \in 1..Len(inbox[s]) : inbox[s][i] \in said

(* The message being sent is the last in every inbox that has it.          *)
SentLast ==
  \A w \in Workers : Walking(w) =>
    \A s \in Sockets : \A i, j \in 1..Len(inbox[s]) :
      i < j /\ inbox[s][i] = walk[w].message => inbox[s][j] = walk[w].message

(* All places of two messages are in the same order everywhere.            *)
OneOrder ==
  \A s, t \in Sockets :
    \A i, j \in 1..Len(inbox[s]), k, l \in 1..Len(inbox[t]) :
      inbox[s][i] = inbox[t][k] /\ inbox[s][j] = inbox[t][l] /\ inbox[s][i] # inbox[s][j] /\ i < j
        => k < l

WalksKnown ==
  /\ DOMAIN walk = Workers
  /\ \A w \in Workers : Walking(w) => {"pc", "message"} \subseteq DOMAIN walk[w]

SocketsInv == WalksKnown /\ Inboxes /\ OneSender /\ SentLast /\ OneOrder

LEMMA SocketsStart == ListenerInit => SocketsInv
<1> SUFFICES ASSUME ListenerInit PROVE SocketsInv OBVIOUS
<1>1. WalksKnown BY DEF ListenerInit, WalksKnown, Walking, NoWalk
<1>2. Inboxes /\ \A s \in Sockets : Len(inbox[s]) = 0 BY DEF ListenerInit, Inboxes
<1>3. \A w \in Workers : ~Walking(w) BY DEF ListenerInit, Walking, NoWalk
<1> QED BY <1>1, <1>2, <1>3 DEF SocketsInv, OneSender, SentLast, OneOrder

(* What a step may do to the walks: go on with the same message, or end.    *)
WalksKept ==
  /\ DOMAIN walk' = Workers
  /\ \A w \in Workers : walk'[w].pc = "walking" =>
       /\ Walking(w) /\ holder' = holder
       /\ {"pc", "message"} \subseteq DOMAIN walk'[w]
       /\ walk'[w].message = walk[w].message

(* A step that sends nothing and starts no broadcast.                      *)
LEMMA OtherWalksKeep ==
  ASSUME SocketsInv, UNCHANGED <<inbox, said>>, WalksKept
  PROVE  SocketsInv'
<1> USE DEF Walking, WalksKept
<1>1. OneSender' BY DEF SocketsInv, OneSender
<1>2. SentLast' BY DEF SocketsInv, SentLast
<1>3. Inboxes' /\ OneOrder' BY DEF SocketsInv, Inboxes, OneOrder
<1>4. WalksKnown' BY DEF WalksKnown
<1> QED BY <1>1, <1>2, <1>3, <1>4 DEF SocketsInv

(* Of the records of walks only other fields change.                       *)
LEMMA FieldsKept ==
  ASSUME NEW r, {"pc", "message"} \subseteq DOMAIN r, NEW a, NEW b
  PROVE  /\ \A u \in {[r EXCEPT !.calm = a], [r EXCEPT !.calm = a, !.moved = b],
                      [r EXCEPT !.at = a, !.sended_once = b]} :
              {"pc", "message"} \subseteq DOMAIN u /\ u.pc = r.pc /\ u.message = r.message
OBVIOUS

(* A worker sends its message to some clients.                             *)
LEMMA SendKeeps ==
  ASSUME SocketsInv, NEW w \in Workers, Walking(w), UNCHANGED said, WalksKept,
         Inboxes',
         \A t \in Sockets : \/ inbox'[t] = inbox[t]
                            \/ inbox'[t] = Append(inbox[t], walk[w].message)
  PROVE  SocketsInv'
<1> DEFINE m == walk[w].message
<1> HIDE DEF m
<1>1. m \in said /\ m \in Messages BY DEF SocketsInv, OneSender, m
<1>2. ASSUME NEW s \in Sockets
      PROVE  /\ Len(inbox'[s]) \in {Len(inbox[s]), Len(inbox[s]) + 1} /\ Len(inbox[s]) \in Nat
             /\ \A i \in 1..Len(inbox[s]) : inbox'[s][i] = inbox[s][i]
             /\ \A i \in 1..Len(inbox'[s]) : i > Len(inbox[s]) => inbox'[s][i] = m
  <2>1. inbox[s] \in Seq(Messages) BY DEF SocketsInv, Inboxes
  <2>2. CASE inbox'[s] = inbox[s] BY <2>1, <2>2
  <2>3. CASE inbox'[s] = Append(inbox[s], m) BY <1>1, <2>1, <2>3
  <2> QED BY <2>2, <2>3 DEF m
<1>3. OneSender'
  <2>1. \A v \in Workers : Walking(v)' => holder' = <<v>> /\ walk'[v].message \in said \cap Messages
    BY DEF SocketsInv, OneSender, Walking, WalksKept
  <2>2. \A s \in Sockets : \A i \in 1..Len(inbox'[s]) : inbox'[s][i] \in said
    BY <1>1, <1>2 DEF SocketsInv, OneSender
  <2> QED BY <2>1, <2>2 DEF OneSender
<1>4. ASSUME NEW s \in Sockets, NEW i \in 1..Len(inbox'[s]), NEW j \in 1..Len(inbox'[s]),
             i < j, inbox'[s][i] = m
      PROVE  inbox'[s][j] = m
  <2>1. CASE j <= Len(inbox[s])
    <3>1. i \in 1..Len(inbox[s]) /\ j \in 1..Len(inbox[s]) BY <1>2, <1>4, <2>1
    <3> QED BY <1>2, <1>4, <3>1 DEF SocketsInv, SentLast, m
  <2>2. CASE j > Len(inbox[s]) BY <1>2, <2>2
  <2> QED BY <1>2, <2>1, <2>2
<1>5. SentLast'
  <2>1. \A v \in Workers : walk'[v].pc = "walking" => walk'[v].message = m
    <3>1. \A v \in Workers : Walking(v) => <<v>> = <<w>> BY DEF SocketsInv, OneSender
    <3> QED BY <3>1 DEF WalksKept, m
  <2> QED BY <1>4, <2>1 DEF SentLast, Walking
<1>6. OneOrder'
  <2> SUFFICES ASSUME NEW s \in Sockets, NEW t \in Sockets,
                      NEW i \in 1..Len(inbox'[s]), NEW j \in 1..Len(inbox'[s]),
                      NEW k \in 1..Len(inbox'[t]), NEW l \in 1..Len(inbox'[t]),
                      inbox'[s][i] = inbox'[t][k], inbox'[s][j] = inbox'[t][l],
                      inbox'[s][i] # inbox'[s][j], i < j
               PROVE  k < l
    BY DEF OneOrder
  <2>1. inbox'[s][i] # m BY <1>4
  <2>2. CASE inbox'[s][j] = m
    <3>1. ~(l < k) BY <1>4, <2>1, <2>2
    <3>2. l # k OBVIOUS
    <3> QED BY <1>2, <3>1, <3>2
  <2>3. CASE inbox'[s][j] # m
    <3>1. /\ i \in 1..Len(inbox[s]) /\ j \in 1..Len(inbox[s])
          /\ k \in 1..Len(inbox[t]) /\ l \in 1..Len(inbox[t])
      BY <1>2, <2>1, <2>3
    <3>2. /\ inbox[s][i] = inbox[t][k] /\ inbox[s][j] = inbox[t][l]
          /\ inbox[s][i] # inbox[s][j]
      BY <1>2, <3>1
    <3> QED BY <3>1, <3>2 DEF SocketsInv, OneOrder
  <2> QED BY <2>2, <2>3
<1>7. WalksKnown' BY DEF WalksKnown, WalksKept, Walking
<1> QED BY <1>3, <1>5, <1>6, <1>7 DEF SocketsInv

(* Every action keeps the invariant. *)
LEMMA SocketsStep == SocketsInv /\ [ListenerNext]_sockets => SocketsInv'
<1> SUFFICES ASSUME SocketsInv, [ListenerNext]_sockets PROVE SocketsInv' OBVIOUS
<1>0. /\ DOMAIN walk = Workers
      /\ \A w \in Workers : Walking(w) => {"pc", "message"} \subseteq DOMAIN walk[w]
  BY DEF SocketsInv, WalksKnown
<1>1. ASSUME walk' = walk, UNCHANGED <<inbox, holder, said>> PROVE SocketsInv'
  BY <1>0, <1>1, OtherWalksKeep DEF WalksKept, Walking
<1>2. ASSUME NEW s \in Sockets, OnNewWebSocketConnection(s) PROVE SocketsInv'
  <2>1. PICK grows \in BOOLEAN :
          walk' = [w \in Workers |-> IF Walking(w)
                    THEN [walk[w] EXCEPT !.calm = FALSE,
                                         !.moved = walk[w].moved \/ (grows /\ walk[w].list = ListenerOf[s])]
                    ELSE walk[w]]
    BY <1>2 DEF OnNewWebSocketConnection, Stir
  <2>2. UNCHANGED <<inbox, holder, said>> BY <1>2 DEF OnNewWebSocketConnection
  <2>3. ASSUME NEW w \in Workers, walk'[w].pc = "walking"
        PROVE  /\ Walking(w) /\ {"pc", "message"} \subseteq DOMAIN walk'[w]
               /\ walk'[w].message = walk[w].message
    <3>1. CASE Walking(w) BY <1>0, <2>1, <3>1, FieldsKept
    <3>2. CASE ~Walking(w) BY <2>1, <2>3, <3>2 DEF Walking
    <3> QED BY <3>1, <3>2
  <2>4. DOMAIN walk' = Workers BY <2>1
  <2>5. WalksKept BY <2>2, <2>3, <2>4 DEF WalksKept
  <2> QED BY <2>2, <2>5, OtherWalksKeep
<1>3. ASSUME walk' = Disturbed, UNCHANGED <<inbox, holder, said>> PROVE SocketsInv'
  <2>1. walk' = [w \in Workers |-> IF Walking(w) THEN [walk[w] EXCEPT !.calm = FALSE] ELSE walk[w]]
    BY <1>3 DEF Disturbed, Stir
  <2>2. ASSUME NEW w \in Workers, walk'[w].pc = "walking"
        PROVE  /\ Walking(w) /\ {"pc", "message"} \subseteq DOMAIN walk'[w]
               /\ walk'[w].message = walk[w].message
    <3>1. CASE Walking(w) BY <1>0, <2>1, <3>1, FieldsKept
    <3>2. CASE ~Walking(w) BY <2>1, <2>2, <3>2 DEF Walking
    <3> QED BY <3>1, <3>2
  <2>3. WalksKept BY <1>3, <2>1, <2>2 DEF WalksKept
  <2> QED BY <1>3, <2>3, OtherWalksKeep
<1>4. ASSUME NEW w \in Workers, NEW m \in Messages, NEW filter \in Filters, Lock(w, m, filter)
      PROVE  SocketsInv'
  <2>1. /\ holder = <<>> /\ holder' = <<w>> /\ m \notin said /\ said' = said \cup {m}
        /\ UNCHANGED inbox
    BY <1>4 DEF Lock, Free
  <2>2. /\ DOMAIN walk' = Workers /\ walk'[w].pc = "walking" /\ walk'[w].message = m
        /\ {"pc", "message"} \subseteq DOMAIN walk'[w]
        /\ \A v \in Workers \ {w} : walk'[v] = walk[v]
    BY <1>0, <1>4 DEF Lock
  <2>3. \A v \in Workers : ~Walking(v)
    <3>1. \A v \in Workers : <<v>> # <<>> OBVIOUS
    <3> QED BY <2>1, <3>1 DEF SocketsInv, OneSender
  <2>4. \A v \in Workers : walk'[v].pc = "walking" => v = w BY <2>2, <2>3 DEF Walking
  <2>5. \A s \in Sockets : \A i \in 1..Len(inbox'[s]) : inbox'[s][i] \in said /\ inbox'[s][i] # m
    BY <2>1 DEF SocketsInv, OneSender
  <2>6. OneSender' BY <2>1, <2>2, <2>4, <2>5 DEF OneSender, Walking
  <2>7. SentLast' BY <2>2, <2>4, <2>5 DEF SentLast, Walking
  <2>8. Inboxes' /\ OneOrder' BY <2>1 DEF SocketsInv, Inboxes, OneOrder
  <2>9. WalksKnown' BY <2>2, <2>4 DEF WalksKnown, Walking
  <2> QED BY <2>6, <2>7, <2>8, <2>9 DEF SocketsInv
<1>5. ASSUME NEW w \in Workers, SendTextMessage(w) PROVE SocketsInv'
  <2> DEFINE s == slots[walk[w].list][walk[w].at + 1]
             passes == Passes(s, walk[w].filter)
  <2>1. /\ Walking(w) /\ UNCHANGED <<said, holder>>
        /\ walk' = [walk EXCEPT ![w] = [walk[w] EXCEPT !.at = walk[w].at + 1,
                                            !.sended_once = walk[w].sended_once \/ passes]]
        /\ inbox' = IF passes /\ socket[s] = "open"
                    THEN [inbox EXCEPT ![s] = Append(inbox[s], walk[w].message)] ELSE inbox
    BY <1>5 DEF SendTextMessage
  <2> HIDE DEF s, passes
  <2>2. \A v \in Workers : v # w => walk'[v] = walk[v] BY <1>0, <2>1
  <2>3. /\ {"pc", "message"} \subseteq DOMAIN walk'[w] /\ walk'[w].message = walk[w].message
    BY <1>0, <2>1, FieldsKept
  <2>4. WalksKept BY <1>0, <2>1, <2>2, <2>3 DEF WalksKept, Walking
  <2>5. inbox \in [Sockets -> Seq(Messages)] /\ walk[w].message \in Messages
    BY <2>1 DEF SocketsInv, Inboxes, OneSender
  <2>6. \A t \in Sockets : Append(inbox[t], walk[w].message) \in Seq(Messages) BY <2>5
  <2>7. Inboxes' BY <2>1, <2>5, <2>6 DEF Inboxes
  <2>8. \A t \in Sockets : \/ inbox'[t] = inbox[t]
                           \/ inbox'[t] = Append(inbox[t], walk[w].message)
    BY <2>1, <2>5
  <2> QED BY <2>1, <2>4, <2>7, <2>8, SendKeeps
<1>6. ASSUME NEW w \in Workers, NextList(w) PROVE SocketsInv'
  <2>1. /\ Walking(w) /\ UNCHANGED <<inbox, said, holder>>
        /\ walk' = [walk EXCEPT ![w] =
             [walk[w] EXCEPT !.list = walk[w].list + 1, !.at = 0,
                             !.end = size[walk[w].list + 1], !.moved = FALSE]]
    BY <1>6 DEF NextList
  <2>2. \A v \in Workers : v # w => walk'[v] = walk[v] BY <1>0, <2>1
  <2>3. /\ {"pc", "message"} \subseteq DOMAIN walk'[w] /\ walk'[w].message = walk[w].message
    BY <1>0, <2>1
  <2>4. WalksKept BY <1>0, <2>1, <2>2, <2>3 DEF WalksKept, Walking
  <2> QED BY <2>1, <2>4, OtherWalksKeep
<1>7. ASSUME NEW w \in Workers, Return(w) PROVE SocketsInv'
  <2>1. /\ Walking(w) /\ UNCHANGED <<inbox, said>>
        /\ DOMAIN walk' = Workers /\ walk'[w].pc \in {"returned", "idle"}
        /\ \A v \in Workers \ {w} : walk'[v] = walk[v]
    BY <1>0, <1>7 DEF Return, NoWalk
  <2>2. \A v \in Workers : Walking(v) => <<v>> = <<w>> BY <2>1 DEF SocketsInv, OneSender
  <2>3. \A v \in Workers : walk'[v].pc # "walking" BY <2>1, <2>2 DEF Walking
  <2>4. WalksKept BY <2>1, <2>3 DEF WalksKept
  <2> QED BY <2>1, <2>4, OtherWalksKeep
<1>8. ASSUME NEW s \in Sockets, WebSocketDisconnected(s) \/ ProcessWebSocketTextMessage(s) PROVE SocketsInv'
  BY <1>3, <1>8 DEF WebSocketDisconnected, ProcessWebSocketTextMessage
<1>9. ASSUME NEW s \in Sockets, DeferredDelete(s) PROVE SocketsInv' BY <1>1, <1>9 DEF DeferredDelete
<1>10. CASE Close BY <1>1, <1>10 DEF Close
<1>11. ASSUME NEW w \in Workers, Fault(w) PROVE SocketsInv' BY <1>1, <1>11 DEF Fault
<1>12. CASE UNCHANGED sockets BY <1>1, <1>12 DEF sockets
<1> QED
  BY <1>2, <1>4, <1>5, <1>6, <1>7, <1>8, <1>9, <1>10, <1>11, <1>12 DEF ListenerNext

(* However many workers broadcast, to however many clients that come and   *)
(* go meanwhile: two messages that reach two clients reach them in the     *)
(* same order (webserver.cpp: websokets_mutex).                            *)
THEOREM BroadcastsInOrder == ListenerSpec => []SameOrder
<1>1. SocketsInv => SameOrder
  <2> SUFFICES ASSUME SocketsInv, NEW s \in Sockets, NEW t \in Sockets, NEW m \in said, NEW n \in said,
                      Got(m, s), Got(n, s), Got(m, t), Got(n, t), Position(m, s) < Position(n, s)
               PROVE  Position(m, t) < Position(n, t)
    BY DEF SameOrder
  <2>1. \A r \in Sockets : inbox[r] \in Seq(Messages) BY DEF SocketsInv, Inboxes
  <2>2. ASSUME NEW r \in Sockets, NEW x, Got(x, r)
        PROVE  Position(x, r) \in 1..Len(inbox[r]) /\ inbox[r][Position(x, r)] = x
    <3>1. \E i \in 1..Len(inbox[r]) : inbox[r][i] = x BY <2>1, <2>2 DEF Got, ToSet
    <3> QED BY <3>1 DEF Position
  <2>3. m # n BY <2>1, <2>2
  <2> DEFINE i == Position(m, s)  j == Position(n, s)
             k == Position(m, t)  l == Position(n, t)
  <2>4. /\ i \in 1..Len(inbox[s]) /\ inbox[s][i] = m
        /\ j \in 1..Len(inbox[s]) /\ inbox[s][j] = n
        /\ k \in 1..Len(inbox[t]) /\ inbox[t][k] = m
        /\ l \in 1..Len(inbox[t]) /\ inbox[t][l] = n
        /\ i < j
    BY <2>2
  <2> HIDE DEF i, j, k, l
  <2>5. k < l BY <2>3, <2>4 DEF SocketsInv, OneOrder
  <2> QED BY <2>5 DEF k, l
<1> QED BY <1>1, SocketsStart, SocketsStep, PTL DEF ListenerSpec

-----------------------------------------------------------------------------
(* A broadcast that nobody disturbs reaches whom it should.  The lists     *)
(* hold the open sockets of their listeners, each once (Enlisted), so that *)
(* a walk that found them unchanged so far has sent its message once to    *)
(* those of the audience that it has passed, and to nobody else (OnTheWay).*)

(* Sets of natural numbers are shown to be complete by induction.          *)
LEMMA NatSets ==
  ASSUME NEW S, 0 \in S, \A n \in Nat : n \in S => n + 1 \in S
  PROVE  Nat \subseteq S
<1> DEFINE T == Nat \ S
<1> SUFFICES ASSUME T # {} PROVE FALSE OBVIOUS
<1>1. IsWellFoundedOn(OpToRel(<, Nat), Nat) BY NatLessThanWellFounded
<1>2. PICK x \in T : \A y \in T : ~(<<y, x>> \in OpToRel(<, Nat)) BY <1>1, WFMin
<1>3. \A y \in Nat : y < x => <<y, x>> \in OpToRel(<, Nat) BY <1>2 DEF OpToRel
<1>4. x # 0 /\ x \in Nat BY <1>2
<1>5. x - 1 \in Nat /\ x - 1 < x /\ (x - 1) + 1 = x BY <1>4
<1>6. x - 1 \in S BY <1>2, <1>3, <1>5
<1> QED BY <1>2, <1>5, <1>6

(* What remains of the first n clients of a list without s, for n up to m. *)
Keeps(g, c, s, m) ==
  g = [n \in 0..m |->
         IF n = 0 THEN <<>> ELSE IF c[n] = s THEN g[n - 1] ELSE Append(g[n - 1], c[n])]

LEMMA SomethingKeeps == ASSUME NEW c, NEW s, NEW m \in Nat PROVE \E g : Keeps(g, c, s, m)
<1> DEFINE S == {n \in Nat : \E g : Keeps(g, c, s, n)}
<1>1. 0 \in S
  <2>1. Keeps([n \in 0..0 |-> <<>>], c, s, 0) BY DEF Keeps
  <2> QED BY <2>1
<1>2. ASSUME NEW n \in Nat, n \in S PROVE n + 1 \in S
  <2>1. PICK g : Keeps(g, c, s, n) BY <1>2
  <2> DEFINE last == IF c[n + 1] = s THEN g[n] ELSE Append(g[n], c[n + 1])
             h == [k \in 0..(n + 1) |-> IF k <= n THEN g[k] ELSE last]
             F == [k \in 0..(n + 1) |->
                     IF k = 0 THEN <<>> ELSE IF c[k] = s THEN h[k - 1] ELSE Append(h[k - 1], c[k])]
  <2>2. \A k \in 0..n : g[k] = IF k = 0 THEN <<>> ELSE IF c[k] = s THEN g[k - 1] ELSE Append(g[k - 1], c[k])
    BY <2>1 DEF Keeps
  <2>3. ASSUME NEW k \in 0..(n + 1) PROVE h[k] = F[k]
    <3>1. CASE k = 0 BY <2>2, <3>1
    <3>2. CASE k \in 1..n
      <4>1. k - 1 \in 0..n /\ k \in 0..n /\ k # 0 BY <3>2
      <4>2. h[k - 1] = g[k - 1] /\ h[k] = g[k] BY <4>1
      <4> QED BY <2>2, <4>1, <4>2
    <3>3. CASE k = n + 1
      <4>1. h[k - 1] = g[n] /\ k # 0 /\ k - 1 = n /\ h[k] = last BY <3>3
      <4> QED BY <3>3, <4>1
    <3> QED BY <3>1, <3>2, <3>3
  <2>4. h = F BY <2>3
  <2>5. Keeps(h, c, s, n + 1) BY <2>4 DEF Keeps
  <2> QED BY <2>5
<1> HIDE DEF S
<1>3. Nat \subseteq S BY <1>1, <1>2, NatSets
<1> QED BY <1>3 DEF S

(* q has the first n members of c but s, each once.                        *)
Remain(q, c, s, n) ==
  /\ q \in Seq(Sockets) /\ Len(q) <= n
  /\ \A t : (\E i \in 1..Len(q) : q[i] = t) <=> t # s /\ \E i \in 1..n : c[i] = t
  /\ \A i, j \in 1..Len(q) : q[i] = q[j] => i = j

LEMMA RemainMore ==
  ASSUME NEW n \in Nat, NEW c, NEW s, NEW q, Remain(q, c, s, n), c[n + 1] \in Sockets,
         \A i \in 1..n : c[i] # c[n + 1]
  PROVE  Remain(IF c[n + 1] = s THEN q ELSE Append(q, c[n + 1]), c, s, n + 1)
<1>1. \A t : (\E i \in 1..(n + 1) : c[i] = t) <=> (\E i \in 1..n : c[i] = t) \/ c[n + 1] = t
  <2>1. \A i \in 1..(n + 1) : i \in 1..n \/ i = n + 1 OBVIOUS
  <2>2. 1..n \subseteq 1..(n + 1) /\ n + 1 \in 1..(n + 1) OBVIOUS
  <2> QED BY <2>1, <2>2
<1>2. CASE c[n + 1] = s
  <2>1. Len(q) <= n + 1 BY DEF Remain
  <2> QED BY <1>1, <1>2, <2>1 DEF Remain
<1>3. CASE c[n + 1] # s
  <2> DEFINE r == Append(q, c[n + 1])
  <2>1. /\ r \in Seq(Sockets) /\ Len(r) = Len(q) + 1 /\ Len(q) \in Nat
        /\ \A i \in 1..Len(q) : r[i] = q[i]
        /\ r[Len(q) + 1] = c[n + 1]
    BY DEF Remain
  <2> HIDE DEF r
  <2>2. \A i \in 1..Len(r) : i \in 1..Len(q) \/ i = Len(q) + 1 BY <2>1
  <2>3. 1..Len(q) \subseteq 1..Len(r) /\ Len(q) + 1 \in 1..Len(r) BY <2>1
  <2>4. \A t : (\E i \in 1..Len(r) : r[i] = t) <=> (\E i \in 1..Len(q) : q[i] = t) \/ c[n + 1] = t
    BY <2>1, <2>2, <2>3
  <2>5. Len(r) <= n + 1 BY <2>1 DEF Remain
  <2>6. \A i \in 1..Len(q) : q[i] # c[n + 1] BY DEF Remain
  <2>7. \A i, j \in 1..Len(r) : r[i] = r[j] => i = j BY <2>1, <2>2, <2>6 DEF Remain
  <2>8. Remain(r, c, s, n + 1) BY <1>1, <1>3, <2>1, <2>4, <2>5, <2>7 DEF Remain
  <2> QED BY <1>3, <2>8 DEF r
<1> QED BY <1>2, <1>3

LEMMA KeepsRemain ==
  ASSUME NEW m \in Nat, NEW c, NEW s, NEW g, Keeps(g, c, s, m), \A i \in 1..m : c[i] \in Sockets,
         \A i, j \in 1..m : c[i] = c[j] => i = j
  PROVE  Remain(g[m], c, s, m)
<1> DEFINE S == {n \in Nat : n <= m => Remain(g[n], c, s, n)}
<1>0. \A n \in 0..m : g[n] = IF n = 0 THEN <<>> ELSE IF c[n] = s THEN g[n - 1] ELSE Append(g[n - 1], c[n])
  BY DEF Keeps
<1>1. 0 \in S
  <2>1. g[0] = <<>> BY <1>0
  <2>2. <<>> \in Seq(Sockets) /\ Len(<<>>) = 0 /\ 1..0 = {} OBVIOUS
  <2>3. Remain(<<>>, c, s, 0) BY <2>2 DEF Remain
  <2> QED BY <2>1, <2>3
<1>2. ASSUME NEW n \in Nat, n \in S PROVE n + 1 \in S
  <2> SUFFICES ASSUME n + 1 <= m PROVE Remain(g[n + 1], c, s, n + 1) OBVIOUS
  <2>1. n + 1 \in 0..m /\ n + 1 \in 1..m /\ n + 1 # 0 /\ (n + 1) - 1 = n /\ n <= m OBVIOUS
  <2>2. Remain(g[n], c, s, n) BY <1>2, <2>1
  <2>3. g[n + 1] = IF c[n + 1] = s THEN g[n] ELSE Append(g[n], c[n + 1]) BY <1>0, <2>1
  <2>4. \A i \in 1..n : i \in 1..m /\ i # n + 1 OBVIOUS
  <2>5. c[n + 1] \in Sockets /\ \A i \in 1..n : c[i] # c[n + 1] BY <2>1, <2>4
  <2> QED BY <2>2, <2>3, <2>5, RemainMore
<1> HIDE DEF S
<1>3. Nat \subseteq S BY <1>1, <1>2, NatSets
<1> QED BY <1>3 DEF S

(* Whether a listener has s in its list, and what the lists are.           *)
InList(l, s) == \E i \in 1..size[l] : slots[l][i] = s

Lists ==
  /\ slots \in [Listeners -> Seq(Sockets)] /\ size \in [Listeners -> Nat]
  /\ \A l \in Listeners : size[l] <= Len(slots[l])
  /\ \A l \in Listeners : \A i \in 1..size[l] : ListenerOf[slots[l][i]] = l
  /\ \A l \in Listeners : \A i, j \in 1..size[l] : slots[l][i] = slots[l][j] => i = j

Enlisted ==
  /\ Lists /\ DOMAIN socket = Sockets
  /\ server = "open" => \A s \in Sockets : socket[s] = "open" <=> InList(ListenerOf[s], s)

LEMMA ListClients ==
  ASSUME Lists, NEW l \in Listeners
  PROVE  /\ Clients(l) \in Seq(Sockets) /\ Len(Clients(l)) = size[l] /\ size[l] \in Nat
         /\ \A i \in 1..size[l] : Clients(l)[i] = slots[l][i] /\ slots[l][i] \in Sockets
<1>1. slots[l] \in Seq(Sockets) /\ size[l] \in Nat /\ size[l] <= Len(slots[l]) BY DEF Lists
<1>2. \A i \in 1..size[l] : slots[l][i] \in Sockets BY <1>1
<1>3. /\ SubSeq(slots[l], 1, size[l]) \in Seq(Sockets)
      /\ Len(SubSeq(slots[l], 1, size[l])) = size[l]
      /\ \A i \in 1..size[l] : SubSeq(slots[l], 1, size[l])[i] = slots[l][i]
  BY <1>1
<1> QED BY <1>1, <1>2, <1>3 DEF Clients

LEMMA KeptRemain ==
  ASSUME Lists, NEW l \in Listeners, NEW s PROVE Remain(Kept(l, s), slots[l], s, size[l])
<1> DEFINE c == Clients(l)
           f == CHOOSE g : g = [n \in 0..Len(c) |->
                  IF n = 0 THEN <<>> ELSE IF c[n] = s THEN g[n - 1] ELSE Append(g[n - 1], c[n])]
<1>1. /\ c \in Seq(Sockets) /\ Len(c) = size[l] /\ size[l] \in Nat
      /\ \A i \in 1..size[l] : c[i] = slots[l][i] /\ slots[l][i] \in Sockets
  BY ListClients
<1>2. Keeps(f, c, s, Len(c))
  <2>1. \E g : Keeps(g, c, s, Len(c)) BY <1>1, SomethingKeeps
  <2> QED BY <2>1 DEF Keeps
<1>3. Kept(l, s) = f[Len(c)] BY Zenon DEF Kept
<1> HIDE DEF c, f
<1>4. \A i, j \in 1..size[l] : c[i] = c[j] => i = j BY <1>1 DEF Lists
<1>5. Remain(f[size[l]], c, s, size[l]) BY <1>1, <1>2, <1>4, KeepsRemain
<1>6. Remain(f[size[l]], slots[l], s, size[l]) BY <1>1, <1>5 DEF Remain
<1> QED BY <1>1, <1>3, <1>6

(* The records of walks.                                                   *)
WalkRecord ==
  [pc : {"walking"}, message : Messages, filter : Filters, list : Listeners, at : Nat, end : Nat,
   moved : BOOLEAN, sended_once : BOOLEAN, calm : BOOLEAN, audience : SUBSET Sockets]
ReturnRecord ==
  [pc : {"returned"}, message : Messages, sended_once : BOOLEAN, audience : SUBSET Sockets]

WalkTypes == walk \in [Workers -> {NoWalk} \cup WalkRecord \cup ReturnRecord]

(* The message is in the inbox of s once, or not at all.                   *)
Once(s, m) == \E k \in 1..Len(inbox[s]) : \A i \in 1..Len(inbox[s]) : inbox[s][i] = m <=> i = k
Never(s, m) == \A i \in 1..Len(inbox[s]) : inbox[s][i] # m
Times(s, m, c) == (c => Once(s, m)) /\ (~c => Never(s, m))

(* Who has been passed by a walk.                                          *)
Reached(b, s) ==
  \/ ListenerOf[s] < b.list
  \/ ListenerOf[s] = b.list /\ \E i \in 1..b.at : slots[b.list][i] = s

OnTheWay(b) ==
  /\ server = "open" /\ ~fault /\ ~b.moved
  /\ b.end = size[b.list] /\ b.at <= b.end
  /\ b.audience = Audience(b.filter)
  /\ \A s \in Sockets : Times(s, b.message, s \in b.audience /\ Reached(b, s))
  /\ b.sended_once <=> \E s \in b.audience : Reached(b, s)

Over(b) ==
  /\ b.message \in said /\ \A v \in Workers : Walking(v) => walk[v].message # b.message
  /\ \A s \in Sockets : Times(s, b.message, s \in b.audience)
  /\ b.sended_once <=> b.audience # {}

ReachInv ==
  /\ SocketsInv /\ Enlisted /\ WalkTypes
  /\ \A w \in Workers : Walking(w) => server = "open" /\ (walk[w].calm => OnTheWay(walk[w]))
  /\ \A w \in Workers : walk[w].pc = "returned" => Over(walk[w])

LEMMA ReachStart == ListenerInit => ReachInv
<1> SUFFICES ASSUME ListenerInit PROVE ReachInv OBVIOUS
<1>1. SocketsInv BY SocketsStart
<1>2. Enlisted
  <2>1. \A l \in Listeners : slots[l] = <<>> /\ size[l] = 0 /\ Len(<<>>) = 0 BY DEF ListenerInit
  <2>2. slots \in [Listeners -> Seq(Sockets)] /\ size \in [Listeners -> Nat] BY DEF ListenerInit
  <2>3. Lists BY <2>1, <2>2 DEF Lists
  <2>4. \A s \in Sockets : ListenerOf[s] \in Listeners BY ListenersAssumption
  <2>5. \A s \in Sockets : ~InList(ListenerOf[s], s) BY <2>1, <2>4 DEF InList
  <2> QED BY <2>3, <2>5 DEF ListenerInit, Enlisted
<1>3. WalkTypes BY DEF ListenerInit, WalkTypes
<1>4. \A w \in Workers : ~Walking(w) /\ walk[w].pc # "returned" BY DEF ListenerInit, Walking, NoWalk
<1> QED BY <1>1, <1>2, <1>3, <1>4 DEF ReachInv

(* A step of the main thread, which sends nothing and leaves walks as they *)
(* are or no longer calm.                                                  *)
Outside ==
  /\ UNCHANGED <<inbox, said>> /\ WalkTypes'
  /\ \A w \in Workers :
       /\ walk'[w].pc = walk[w].pc
       /\ Walking(w) => walk'[w].message = walk[w].message /\ server' = "open" /\ ~walk'[w].calm
       /\ ~Walking(w) => walk'[w] = walk[w]

LEMMA OutsideKeeps == ASSUME ReachInv, SocketsInv', Enlisted', Outside PROVE ReachInv'
<1>1. \A w \in Workers : Walking(w)' <=> Walking(w) BY DEF Outside, Walking
<1>2. ASSUME NEW w \in Workers, walk'[w].pc = "returned" PROVE Over(walk[w])' /\ walk'[w] = walk[w]
  <2>1. ~Walking(w) /\ walk[w].pc = "returned" BY <1>2 DEF Outside, Walking
  <2>2. walk'[w] = walk[w] /\ Over(walk[w]) BY <2>1 DEF Outside, ReachInv
  <2>3. \A s, m, c : Times(s, m, c)' <=> Times(s, m, c) BY DEF Outside, Times, Once, Never
  <2>4. \A v \in Workers : Walking(v)' => walk'[v].message # walk'[w].message
    BY <1>1, <2>2 DEF Outside, Over
  <2> QED BY <2>2, <2>3, <2>4 DEF Over, Outside
<1> QED BY <1>1, <1>2 DEF ReachInv, Outside

(* What is put behind a list leaves its clients where they are.            *)
LEMMA Behind ==
  ASSUME NEW q \in Seq(Sockets), NEW r \in Seq(Sockets)
  PROVE  /\ q \o r \in Seq(Sockets) /\ Len(q) <= Len(q \o r)
         /\ \A i \in 1..Len(q) : (q \o r)[i] = q[i]
<1>1. /\ q \o r \in Seq(Sockets) /\ Len(q \o r) = Len(q) + Len(r)
      /\ \A i \in 1..Len(q) : (q \o r)[i] = q[i]
  BY ConcatProperties, LenProperties
<1>2. Len(q) \in Nat /\ Len(r) \in Nat OBVIOUS
<1> QED BY <1>1, <1>2

(* A client comes.                                                         *)
LEMMA ComesEnlisted ==
  ASSUME ReachInv, NEW s \in Sockets, OnNewWebSocketConnection(s) PROVE Enlisted'
<1> DEFINE l == ListenerOf[s]
           old == Clients(l)
           rest == SubSeq(slots[l], size[l] + 2, Len(slots[l]))
           new == old \o <<s>> \o rest
<1>0. Lists /\ l \in Listeners BY ListenersAssumption DEF ReachInv, Enlisted
<1>1. /\ old \in Seq(Sockets) /\ Len(old) = size[l] /\ size[l] \in Nat
      /\ \A i \in 1..size[l] : old[i] = slots[l][i]
  BY <1>0, ListClients
<1>2. rest \in Seq(Sockets) /\ Len(rest) \in Nat
  <2>1. slots[l] \in Seq(Sockets) BY <1>0 DEF Lists
  <2>2. size[l] + 2 \in 1..(Len(slots[l]) + 1) \/ size[l] + 2 > Len(slots[l]) BY <1>1, <2>1
  <2> QED BY <1>1, <2>1, <2>2
<1>3. slots' = [slots EXCEPT ![l] = new] /\ size' = [size EXCEPT ![l] = size[l] + 1]
  BY DEF OnNewWebSocketConnection
<1> HIDE DEF old, rest
<1>4. /\ new \in Seq(Sockets) /\ size[l] + 1 <= Len(new)
      /\ new[size[l] + 1] = s /\ \A i \in 1..size[l] : new[i] = old[i]
  <2> DEFINE q == old \o <<s>>
  <2>1. q \in Seq(Sockets) /\ Len(q) = size[l] + 1 /\ q[size[l] + 1] = s /\ \A i \in 1..size[l] : q[i] = old[i]
    BY <1>1
  <2> HIDE DEF q
  <2>2. /\ q \o rest \in Seq(Sockets) /\ Len(q) <= Len(q \o rest)
        /\ \A i \in 1..Len(q) : (q \o rest)[i] = q[i]
    BY <1>2, <2>1, Behind
  <2>3. 1..size[l] \subseteq 1..(size[l] + 1) /\ size[l] + 1 \in 1..(size[l] + 1) BY <1>1
  <2>4. new = q \o rest BY DEF q
  <2>5. new \in Seq(Sockets) /\ size[l] + 1 <= Len(new) BY <2>1, <2>2, <2>4
  <2>6. new[size[l] + 1] = s BY <2>1, <2>2, <2>3, <2>4
  <2>7. \A i \in 1..size[l] : new[i] = old[i] BY <2>1, <2>2, <2>3, <2>4
  <2> QED BY <2>5, <2>6, <2>7
<1> HIDE DEF new
<1>5. slots \in [Listeners -> Seq(Sockets)] /\ size \in [Listeners -> Nat] BY <1>0 DEF Lists
<1>6. /\ slots' \in [Listeners -> Seq(Sockets)] /\ size' \in [Listeners -> Nat]
      /\ slots'[l] = new /\ size'[l] = size[l] + 1
      /\ \A k \in Listeners : k # l => slots'[k] = slots[k] /\ size'[k] = size[k]
  BY <1>0, <1>1, <1>3, <1>4, <1>5
<1>7. \A i \in 1..(size[l] + 1) : i \in 1..size[l] \/ i = size[l] + 1 BY <1>1
<1>8. socket[s] = "new" /\ server = "open" /\ server' = server /\ socket' = [socket EXCEPT ![s] = "open"]
  BY DEF OnNewWebSocketConnection
<1>9. \A i \in 1..size[l] : new[i] # s
  <2>1. ~InList(l, s) BY <1>8 DEF ReachInv, Enlisted
  <2> QED BY <1>1, <1>4, <2>1 DEF InList
<1>10. \A i \in 1..(size[l] + 1) : ListenerOf[new[i]] = l
  BY <1>0, <1>1, <1>4, <1>7 DEF Lists
<1>11. \A i, j \in 1..(size[l] + 1) : new[i] = new[j] => i = j
  BY <1>0, <1>1, <1>4, <1>7, <1>9 DEF Lists
<1>12. Lists'
  <2>1. \A k \in Listeners : size'[k] <= Len(slots'[k]) BY <1>0, <1>4, <1>6 DEF Lists
  <2>2. \A k \in Listeners : \A i \in 1..size'[k] : ListenerOf[slots'[k][i]] = k
    BY <1>0, <1>6, <1>10 DEF Lists
  <2>3. \A k \in Listeners : \A i, j \in 1..size'[k] : slots'[k][i] = slots'[k][j] => i = j
    <3>1. \A k \in Listeners : \A i, j \in 1..size[k] : slots[k][i] = slots[k][j] => i = j BY <1>0 DEF Lists
    <3>2. ASSUME NEW k \in Listeners PROVE \A i, j \in 1..size'[k] : slots'[k][i] = slots'[k][j] => i = j
      <4>1. CASE k = l BY <1>6, <1>11, <4>1
      <4>2. CASE k # l
        <5>1. slots'[k] = slots[k] /\ size'[k] = size[k] BY <1>6, <4>2
        <5> QED BY <3>1, <5>1
      <4> QED BY <4>1, <4>2
    <3> QED BY <3>2
  <2> QED BY <1>6, <2>1, <2>2, <2>3 DEF Lists
<1>13. ASSUME NEW t \in Sockets PROVE socket'[t] = "open" <=> InList(ListenerOf[t], t)'
  <2>1. socket[t] = "open" <=> InList(ListenerOf[t], t) BY <1>8 DEF ReachInv, Enlisted
  <2>2. ListenerOf[t] \in Listeners /\ DOMAIN socket = Sockets
    BY ListenersAssumption DEF ReachInv, Enlisted
  <2>3. CASE t = s
    <3>1. InList(l, s)' BY <1>1, <1>4, <1>6 DEF InList
    <3> QED BY <1>8, <2>2, <2>3, <3>1
  <2>4. CASE t # s
    <3>1. socket'[t] = socket[t] BY <1>8, <2>2, <2>4
    <3>2. InList(ListenerOf[t], t)' <=> InList(ListenerOf[t], t)
      <4>1. CASE ListenerOf[t] # l BY <1>6, <2>2, <4>1 DEF InList
      <4>2. CASE ListenerOf[t] = l
        <5>1. 1..size[l] \subseteq 1..(size[l] + 1) BY <1>1
        <5>2. InList(l, t)' <=> \E i \in 1..(size[l] + 1) : new[i] = t BY <1>6 DEF InList
        <5>3. InList(l, t) <=> \E i \in 1..size[l] : new[i] = t BY <1>1, <1>4 DEF InList
        <5>4. new[size[l] + 1] # t BY <1>4, <2>4
        <5> QED BY <1>7, <4>2, <5>1, <5>2, <5>3, <5>4
      <4> QED BY <4>1, <4>2
    <3> QED BY <2>1, <3>1, <3>2
  <2> QED BY <2>3, <2>4
<1>14. DOMAIN socket' = Sockets BY <1>8 DEF ReachInv, Enlisted
<1> QED BY <1>8, <1>12, <1>13, <1>14 DEF Enlisted

(* A client goes.                                                          *)
LEMMA GoesEnlisted ==
  ASSUME ReachInv, NEW s \in Sockets, WebSocketDisconnected(s) PROVE Enlisted'
<1> DEFINE l == ListenerOf[s]
           kept == Kept(l, s)
           rest == SubSeq(slots[l], Len(kept) + 1, Len(slots[l]))
           new == kept \o rest
<1>0. Lists /\ l \in Listeners BY ListenersAssumption DEF ReachInv, Enlisted
<1>1. Remain(kept, slots[l], s, size[l]) BY <1>0, KeptRemain
<1>2. slots' = [slots EXCEPT ![l] = new] /\ size' = [size EXCEPT ![l] = Len(kept)]
  BY DEF WebSocketDisconnected
<1> HIDE DEF kept
<1>3. kept \in Seq(Sockets) /\ Len(kept) \in Nat BY <1>1 DEF Remain
<1>4. rest \in Seq(Sockets) /\ Len(rest) \in Nat
  <2>1. slots[l] \in Seq(Sockets) /\ Len(slots[l]) \in Nat BY <1>0 DEF Lists
  <2>2. Len(kept) <= Len(slots[l])
    <3>1. Len(kept) <= size[l] /\ size[l] <= Len(slots[l]) /\ size[l] \in Nat BY <1>0, <1>1 DEF Remain, Lists
    <3> QED BY <1>3, <2>1, <3>1
  <2> QED BY <1>3, <2>1, <2>2
<1> HIDE DEF rest
<1>5. /\ new \in Seq(Sockets) /\ Len(kept) <= Len(new) /\ \A i \in 1..Len(kept) : new[i] = kept[i]
  BY <1>3, <1>4, Behind
<1> HIDE DEF new
<1>6. slots \in [Listeners -> Seq(Sockets)] /\ size \in [Listeners -> Nat] BY <1>0 DEF Lists
<1>7. /\ slots' \in [Listeners -> Seq(Sockets)] /\ size' \in [Listeners -> Nat]
      /\ slots'[l] = new /\ size'[l] = Len(kept)
      /\ \A k \in Listeners : k # l => slots'[k] = slots[k] /\ size'[k] = size[k]
  BY <1>0, <1>2, <1>3, <1>5, <1>6
<1>8. socket[s] = "open" /\ server = "open" /\ server' = server /\ socket' = [socket EXCEPT ![s] = "left"]
  BY DEF WebSocketDisconnected
<1>9. \A t : InList(l, t)' <=> t # s /\ InList(l, t)
  <2>1. \A t : (\E i \in 1..Len(kept) : kept[i] = t) <=> t # s /\ \E i \in 1..size[l] : slots[l][i] = t
    BY <1>1 DEF Remain
  <2>2. \A t : InList(l, t)' <=> \E i \in 1..Len(kept) : kept[i] = t BY <1>5, <1>7 DEF InList
  <2> QED BY <2>1, <2>2 DEF InList
<1>10. \A i \in 1..Len(kept) : ListenerOf[new[i]] = l
  <2>1. ASSUME NEW i \in 1..Len(kept) PROVE ListenerOf[new[i]] = l
    <3>1. PICK j \in 1..size[l] : slots[l][j] = kept[i] BY <1>1 DEF Remain
    <3> QED BY <1>0, <1>5, <3>1 DEF Lists
  <2> QED BY <2>1
<1>11. \A i, j \in 1..Len(kept) : new[i] = new[j] => i = j BY <1>1, <1>5 DEF Remain
<1>12. Lists'
  <2>1. \A k \in Listeners : size'[k] <= Len(slots'[k]) BY <1>0, <1>5, <1>7 DEF Lists
  <2>2. \A k \in Listeners : \A i \in 1..size'[k] : ListenerOf[slots'[k][i]] = k
    BY <1>0, <1>7, <1>10 DEF Lists
  <2>3. \A k \in Listeners : \A i, j \in 1..size'[k] : slots'[k][i] = slots'[k][j] => i = j
    BY <1>0, <1>7, <1>11 DEF Lists
  <2> QED BY <1>7, <2>1, <2>2, <2>3 DEF Lists
<1>13. ASSUME NEW t \in Sockets PROVE socket'[t] = "open" <=> InList(ListenerOf[t], t)'
  <2>1. socket[t] = "open" <=> InList(ListenerOf[t], t) BY <1>8 DEF ReachInv, Enlisted
  <2>2. ListenerOf[t] \in Listeners /\ DOMAIN socket = Sockets
    BY ListenersAssumption DEF ReachInv, Enlisted
  <2>3. InList(ListenerOf[t], t)' <=> t # s /\ InList(ListenerOf[t], t)
    <3>1. CASE ListenerOf[t] # l
      <4>1. t # s BY <3>1
      <4> QED BY <1>7, <2>2, <3>1, <4>1 DEF InList
    <3>2. CASE ListenerOf[t] = l BY <1>9, <3>2
    <3> QED BY <3>1, <3>2
  <2>4. socket'[t] = IF t = s THEN "left" ELSE socket[t] BY <1>8, <2>2
  <2> QED BY <2>1, <2>3, <2>4
<1>14. DOMAIN socket' = Sockets BY <1>8 DEF ReachInv, Enlisted
<1> QED BY <1>8, <1>12, <1>13, <1>14 DEF Enlisted

(* The steps of the main thread.                                           *)
LEMMA Stirred ==
  ASSUME ReachInv, NEW ws, walk' = Stir(ws), UNCHANGED <<inbox, said, server>>,
         \A w \in Workers : Walking(w) =>
           ws[w] \in WalkRecord /\ ws[w].message = walk[w].message /\ ws[w].calm = FALSE
  PROVE  Outside
<1>1. walk' = [w \in Workers |-> IF Walking(w) THEN ws[w] ELSE walk[w]] BY DEF Stir
<1>2. WalkTypes /\ \A w \in Workers : Walking(w) => server = "open" BY DEF ReachInv
<1>3. \A w \in Workers : Walking(w) => ws[w].pc = "walking" BY DEF WalkRecord
<1>4. WalkTypes' BY <1>1, <1>2 DEF WalkTypes
<1> QED BY <1>1, <1>2, <1>3, <1>4 DEF Outside, Walking

LEMMA WalkTyped ==
  ASSUME WalkTypes, NEW w \in Workers, Walking(w)
  PROVE  walk[w] \in WalkRecord
<1>1. walk[w] \in {NoWalk} \cup WalkRecord \cup ReturnRecord BY DEF WalkTypes
<1>2. \A r \in ReturnRecord : r.pc = "returned" BY DEF ReturnRecord
<1> QED BY <1>1, <1>2 DEF Walking, NoWalk

LEMMA ComesOutside ==
  ASSUME ReachInv, NEW s \in Sockets, OnNewWebSocketConnection(s) PROVE Outside
<1>1. PICK grows \in BOOLEAN :
        walk' = Stir([w \in Workers |->
          [walk[w] EXCEPT !.calm = FALSE, !.moved = walk[w].moved \/ (grows /\ walk[w].list = ListenerOf[s])]])
  BY DEF OnNewWebSocketConnection
<1> DEFINE ws == [w \in Workers |->
             [walk[w] EXCEPT !.calm = FALSE, !.moved = walk[w].moved \/ (grows /\ walk[w].list = ListenerOf[s])]]
<1>2. ASSUME NEW w \in Workers, Walking(w)
      PROVE  ws[w] \in WalkRecord /\ ws[w].message = walk[w].message /\ ws[w].calm = FALSE
  <2>1. walk[w] \in WalkRecord BY <1>2, WalkTyped DEF ReachInv
  <2> DEFINE moves == walk[w].moved \/ (grows /\ walk[w].list = ListenerOf[s])
  <2>2. moves \in BOOLEAN BY <2>1 DEF WalkRecord
  <2>3. ws[w] = [walk[w] EXCEPT !.calm = FALSE, !.moved = moves] OBVIOUS
  <2> HIDE DEF moves, ws
  <2> QED BY <2>1, <2>2, <2>3 DEF WalkRecord
<1>3. walk' = Stir(ws) BY <1>1
<1> HIDE DEF ws
<1>4. UNCHANGED <<inbox, said, server>> BY DEF OnNewWebSocketConnection
<1> QED BY <1>2, <1>3, <1>4, Stirred

LEMMA DisturbedOutside ==
  ASSUME ReachInv, walk' = Disturbed, UNCHANGED <<inbox, said, server>> PROVE Outside
<1> DEFINE ws == [w \in Workers |-> [walk[w] EXCEPT !.calm = FALSE]]
<1>2. ASSUME NEW w \in Workers, Walking(w)
      PROVE  ws[w] \in WalkRecord /\ ws[w].message = walk[w].message /\ ws[w].calm = FALSE
  <2>1. walk[w] \in WalkRecord BY <1>2, WalkTyped DEF ReachInv
  <2> QED BY <2>1 DEF WalkRecord
<1>3. walk' = Stir(ws) BY DEF Disturbed
<1> HIDE DEF ws
<1> QED BY <1>2, <1>3, Stirred

LEMMA CloseOutside == ASSUME ReachInv, Close PROVE Outside
<1>1. walk' = walk /\ UNCHANGED <<inbox, said>> /\ \A w \in Workers : ~Walking(w) BY DEF Close, Walking
<1>2. WalkTypes' BY <1>1 DEF ReachInv, WalkTypes
<1> QED BY <1>1, <1>2 DEF Outside

(* Lists that stay as they are.                                            *)
LEMMA StillEnlisted ==
  ASSUME ReachInv, UNCHANGED <<slots, size>>, DOMAIN socket' = Sockets,
         \/ server' = "closed"
         \/ server' = server /\ \A s \in Sockets : socket'[s] = "open" <=> socket[s] = "open"
  PROVE  Enlisted'
<1>1. Lists' BY DEF ReachInv, Enlisted, Lists
<1>2. \A l, s : InList(l, s)' <=> InList(l, s) BY DEF InList
<1> QED BY <1>1, <1>2 DEF ReachInv, Enlisted

(* Nothing happens that a walk would notice.                               *)
LEMMA QuietKeeps ==
  ASSUME ReachInv, SocketsInv', UNCHANGED <<slots, size, topic, inbox, walk, said, server, fault>>,
         DOMAIN socket' = Sockets, \A s \in Sockets : socket'[s] = "open" <=> socket[s] = "open"
  PROVE  ReachInv'
<1>1. Enlisted' BY StillEnlisted
<1>2. WalkTypes' BY DEF ReachInv, WalkTypes
<1>3. \A w \in Workers : Walking(w)' <=> Walking(w) BY DEF Walking
<1>4. \A s, m, c : Times(s, m, c)' <=> Times(s, m, c) BY DEF Times, Once, Never
<1>5. \A f : Audience(f)' = Audience(f) BY DEF Audience, Passes
<1>6. \A v, s : Reached(v, s)' <=> Reached(v, s) BY DEF Reached
<1>7. ASSUME NEW w \in Workers, OnTheWay(walk[w]) PROVE OnTheWay(walk[w])'
  <2>1. \A s : Reached(walk[w], s)' <=> Reached(walk[w], s) BY DEF Reached
  <2>2. Audience(walk[w].filter)' = Audience(walk[w].filter) BY DEF Audience, Passes
  <2>3. \A s, c : Times(s, walk[w].message, c)' <=> Times(s, walk[w].message, c) BY DEF Times, Once, Never
  <2> QED BY <1>7, <2>1, <2>2, <2>3 DEF OnTheWay
<1>8. ASSUME NEW w \in Workers, Over(walk[w]) PROVE Over(walk[w])'
  <2>1. \A s, c : Times(s, walk[w].message, c)' <=> Times(s, walk[w].message, c) BY DEF Times, Once, Never
  <2> QED BY <1>3, <1>8, <2>1 DEF Over
<1> QED BY <1>1, <1>2, <1>3, <1>7, <1>8 DEF ReachInv

LEMMA OneWalker ==
  ASSUME ReachInv, NEW v \in Workers, NEW w \in Workers, Walking(v), Walking(w)
  PROVE  v = w
<1>1. <<v>> = <<w>> BY DEF ReachInv, SocketsInv, OneSender
<1> QED BY <1>1

(* A step of the worker that walks disturbs no broadcast that is over.     *)
WalksOn(w) ==
  /\ UNCHANGED <<slots, size, socket, topic, said, server>>
  /\ \A v \in Workers : v # w => walk'[v] = walk[v]
  /\ Walking(w)' => walk'[w].message = walk[w].message
  /\ \A s \in Sockets : \A m \in said : m # walk[w].message =>
       \A c \in BOOLEAN : Times(s, m, c) => Times(s, m, c)'

LEMMA WalkerKeeps ==
  ASSUME ReachInv, SocketsInv', WalkTypes', NEW w \in Workers, Walking(w), WalksOn(w),
         Walking(w)' => (walk'[w].calm => OnTheWay(walk[w])'),
         walk'[w].pc = "returned" => Over(walk[w])'
  PROVE  ReachInv'
<1>1. Enlisted'
  <2>1. DOMAIN socket' = Sockets BY DEF WalksOn, ReachInv, Enlisted
  <2> QED BY <2>1, StillEnlisted DEF WalksOn
<1>2. \A v \in Workers : v # w => ~Walking(v) /\ ~Walking(v)' BY OneWalker DEF WalksOn, Walking
<1>3. ASSUME NEW v \in Workers, v # w, walk'[v].pc = "returned" PROVE Over(walk[v])'
  <2>1. walk'[v] = walk[v] /\ Over(walk[v]) BY <1>3 DEF WalksOn, ReachInv
  <2>2. walk[v].message \in said /\ walk[v].message # walk[w].message BY <2>1 DEF Over
  <2>3. \A u \in Workers : Walking(u)' => walk'[u].message # walk'[v].message
    BY <1>2, <2>1, <2>2 DEF WalksOn
  <2>4. \A s \in Sockets : Times(s, walk[v].message, s \in walk[v].audience) BY <2>1 DEF Over
  <2>5. \A s \in Sockets : Times(s, walk[v].message, s \in walk[v].audience)'
    <3>1. ASSUME NEW s \in Sockets PROVE Times(s, walk[v].message, s \in walk[v].audience)'
      <4>1. PICK m \in {walk[v].message}, c \in BOOLEAN :
               /\ m = walk[v].message /\ m = walk'[v].message
               /\ (c <=> (s \in walk[v].audience)) /\ (c <=> (s \in walk'[v].audience))
        BY <2>1
      <4>2. Times(s, m, c) => Times(s, m, c)' BY <2>2, <4>1 DEF WalksOn
      <4>3. Times(s, m, c)
        <5>1. Times(s, walk[v].message, s \in walk[v].audience) BY <2>4
        <5> QED BY <4>1, <5>1 DEF Times
      <4> QED BY <4>1, <4>2, <4>3 DEF Times, Once, Never
    <3> QED BY <3>1
  <2> QED BY <2>1, <2>2, <2>3, <2>5 DEF Over, WalksOn
<1>4. server' = "open" BY DEF ReachInv, WalksOn
<1> QED BY <1>1, <1>2, <1>3, <1>4 DEF ReachInv

(* What a worker sends, once, to some clients.                             *)
LEMMA NothingSent ==
  ASSUME UNCHANGED inbox
  PROVE  \A s \in Sockets : \A m \in said : \A c \in BOOLEAN : Times(s, m, c) => Times(s, m, c)'
BY DEF Times, Once, Never

LEMMA SentOne ==
  ASSUME Inboxes, NEW s \in Sockets, NEW m \in Messages, inbox' = [inbox EXCEPT ![s] = Append(inbox[s], m)]
  PROVE  /\ \A t \in Sockets : \A n : \A c \in BOOLEAN : (t # s \/ n # m) => (Times(t, n, c) => Times(t, n, c)')
         /\ Times(s, m, FALSE) => Times(s, m, TRUE)'
<1>1. inbox \in [Sockets -> Seq(Messages)] BY DEF Inboxes
<1>2. /\ \A t \in Sockets : t # s => inbox'[t] = inbox[t]
      /\ inbox'[s] = Append(inbox[s], m) /\ inbox[s] \in Seq(Messages)
  BY <1>1
<1> DEFINE k == Len(inbox[s])
<1>3. /\ k \in Nat /\ Len(inbox'[s]) = k + 1 /\ inbox'[s][k + 1] = m
      /\ \A i \in 1..k : inbox'[s][i] = inbox[s][i]
  BY <1>2
<1> HIDE DEF k
<1>4. Len(inbox[s]) = k BY DEF k
<1>5. \A i \in 1..(k + 1) : i \in 1..k \/ i = k + 1 BY <1>3
<1>6. 1..k \subseteq 1..(k + 1) /\ k + 1 \in 1..(k + 1) /\ k + 1 \notin 1..k BY <1>3
<1>7. ASSUME NEW t \in Sockets, NEW n, NEW c \in BOOLEAN, t # s \/ n # m, Times(t, n, c)
      PROVE  Times(t, n, c)'
  <2>1. CASE t # s BY <1>2, <1>7, <2>1 DEF Times, Once, Never
  <2>2. CASE t = s /\ n # m
    <3>1. Never(s, n) => Never(s, n)' BY <1>3, <1>4, <1>5, <2>2 DEF Never
    <3>2. Once(s, n) => Once(s, n)'
      <4> SUFFICES ASSUME Once(s, n) PROVE Once(s, n)' OBVIOUS
      <4>1. PICK j \in 1..k : \A i \in 1..k : inbox[s][i] = n <=> i = j BY <1>4 DEF Once
      <4>2. \A i \in 1..(k + 1) : inbox'[s][i] = n <=> i = j BY <1>3, <1>5, <1>6, <2>2, <4>1
      <4>3. \E l \in 1..(k + 1) : \A i \in 1..(k + 1) : inbox'[s][i] = n <=> i = l BY <1>6, <4>2
      <4>4. Len(inbox'[s]) = k + 1 BY <1>3
      <4>5. \E l \in 1..Len(inbox'[s]) : \A i \in 1..Len(inbox'[s]) : inbox'[s][i] = n <=> i = l
        BY <4>3, <4>4
      <4> QED BY ONLY <4>5 DEF Once
    <3> QED BY <1>7, <2>2, <3>1, <3>2 DEF Times
  <2> QED BY <1>7, <2>1, <2>2
<1>8. ASSUME Never(s, m) PROVE Once(s, m)'
  <2>1. \A i \in 1..(k + 1) : inbox'[s][i] = m <=> i = k + 1
    BY <1>3, <1>4, <1>5, <1>6, <1>8 DEF Never
  <2>2. \E l \in 1..(k + 1) : \A i \in 1..(k + 1) : inbox'[s][i] = m <=> i = l BY <1>6, <2>1
  <2> QED BY <1>3, <2>2 DEF Once
<1> QED BY <1>7, <1>8 DEF Times

(* The client at the next place of a calm walk.                            *)
LEMMA NextOne ==
  ASSUME ReachInv, NEW w \in Workers, Walking(w), OnTheWay(walk[w]), walk[w].at < walk[w].end,
         NEW s, s = slots[walk[w].list][walk[w].at + 1]
  PROVE  /\ s \in Sockets /\ socket[s] = "open" /\ ListenerOf[s] = walk[w].list
         /\ ~Reached(walk[w], s) /\ walk[w].at + 1 <= walk[w].end
<1> DEFINE b == walk[w]
           at == walk[w].at
           l == walk[w].list
<1>1. b \in WalkRecord BY WalkTyped DEF ReachInv
<1>2. at \in Nat /\ l \in Listeners /\ l \in Nat BY <1>1 DEF WalkRecord, Listeners
<1>3. b.end = size[l] /\ Lists /\ server = "open" BY DEF OnTheWay, ReachInv, Enlisted
<1>4. size[l] \in Nat /\ at < size[l] /\ s = slots[l][at + 1] BY <1>2, <1>3 DEF Lists
<1> HIDE DEF at, l
<1>5. at + 1 \in 1..size[l] /\ at + 1 <= size[l] BY <1>2, <1>4
<1>6. s \in Sockets /\ ListenerOf[s] = l
  <2>1. slots[l][at + 1] \in Sockets BY <1>2, <1>3, <1>5, ListClients
  <2> QED BY <1>2, <1>3, <1>4, <1>5, <2>1 DEF Lists
<1>7. socket[s] = "open"
  <2>1. InList(ListenerOf[s], s) BY <1>4, <1>5, <1>6 DEF InList
  <2> QED BY <1>3, <1>6, <2>1 DEF ReachInv, Enlisted
<1>8. ASSUME NEW i \in 1..at PROVE slots[l][i] # s
  <2>1. i \in 1..size[l] /\ i # at + 1 BY <1>2, <1>4, <1>5
  <2> QED BY <1>2, <1>3, <1>4, <1>5, <2>1 DEF Lists
<1>9. ~Reached(b, s)
  <2>1. ~(l < l) BY <1>2
  <2> QED BY <1>6, <1>8, <2>1 DEF Reached, at, l
<1> QED BY <1>3, <1>5, <1>6, <1>7, <1>9 DEF at, l

LEMMA FaultKeeps == ASSUME ReachInv, SocketsInv', NEW w \in Workers, Fault(w) PROVE ReachInv'
<1>1. Walking(w) /\ walk' = walk /\ UNCHANGED <<slots, size, socket, topic, inbox, said, server>>
  BY DEF Fault
<1>2. walk[w].calm = FALSE
  <2>1. SUFFICES ASSUME walk[w].calm = TRUE PROVE FALSE
    <3>1. walk[w] \in WalkRecord BY <1>1, WalkTyped DEF ReachInv
    <3> QED BY <2>1, <3>1 DEF WalkRecord
  <2>2. OnTheWay(walk[w]) BY <1>1, <2>1 DEF ReachInv
  <2>3. socket[slots[walk[w].list][walk[w].at + 1]] = "open" BY <1>1, <2>2, NextOne DEF Fault
  <2> QED BY <2>2, <2>3 DEF Fault, OnTheWay
<1>3. WalkTypes' BY <1>1 DEF ReachInv, WalkTypes
<1>4. WalksOn(w) BY <1>1, NothingSent DEF WalksOn
<1>5. walk'[w].pc = "walking" /\ walk'[w].calm = FALSE BY <1>1, <1>2 DEF Walking
<1> QED BY <1>1, <1>3, <1>4, <1>5, WalkerKeeps

(* All of a list's clients that are open have been passed at its end.      *)
LEMMA Passed ==
  ASSUME ReachInv, NEW w \in Workers, Walking(w), OnTheWay(walk[w]), walk[w].at = walk[w].end,
         NEW s \in walk[w].audience
  PROVE  s \in Sockets /\ (Reached(walk[w], s) <=> ListenerOf[s] < walk[w].list + 1)
<1>1. walk[w] \in WalkRecord BY WalkTyped DEF ReachInv
<1>2. walk[w].list \in Listeners /\ walk[w].list \in Nat BY <1>1 DEF WalkRecord, Listeners
<1>3. s \in Sockets /\ socket[s] = "open" BY DEF OnTheWay, Audience
<1>4. ListenerOf[s] \in Listeners /\ ListenerOf[s] \in Nat BY <1>3, ListenersAssumption DEF Listeners
<1>5. InList(ListenerOf[s], s) BY <1>3 DEF ReachInv, Enlisted, OnTheWay
<1>6. walk[w].at = size[walk[w].list] BY DEF OnTheWay
<1>7. ListenerOf[s] = walk[w].list => \E i \in 1..walk[w].at : slots[walk[w].list][i] = s
  BY <1>5, <1>6 DEF InList
<1>8. ListenerOf[s] < walk[w].list + 1 <=> ListenerOf[s] < walk[w].list \/ ListenerOf[s] = walk[w].list
  BY <1>2, <1>4
<1> QED BY <1>3, <1>7, <1>8 DEF Reached

LEMMA NextListKeeps == ASSUME ReachInv, SocketsInv', NEW w \in Workers, NextList(w) PROVE ReachInv'
<1> DEFINE b == walk[w]
<1>1. /\ Walking(w) /\ UNCHANGED <<slots, size, socket, topic, inbox, said, server, fault>>
      /\ b.at = b.end /\ b.list + 1 \in Listeners
      /\ walk' = [walk EXCEPT ![w] = [b EXCEPT !.list = b.list + 1, !.at = 0, !.end = size[b.list + 1],
                                               !.moved = FALSE]]
  BY DEF NextList
<1>2. b \in WalkRecord /\ walk \in [Workers -> {NoWalk} \cup WalkRecord \cup ReturnRecord]
  BY <1>1, WalkTyped DEF ReachInv, WalkTypes
<1> DEFINE new == [b EXCEPT !.list = b.list + 1, !.at = 0, !.end = size[b.list + 1], !.moved = FALSE]
<1>3. size[b.list + 1] \in Nat BY <1>1 DEF ReachInv, Enlisted, Lists
<1>4. /\ new \in WalkRecord /\ new.list = b.list + 1 /\ new.at = 0 /\ new.end = size[b.list + 1]
      /\ new.moved = FALSE /\ new.calm = b.calm /\ new.audience = b.audience /\ new.filter = b.filter
      /\ new.message = b.message /\ new.sended_once = b.sended_once
  BY <1>1, <1>2, <1>3 DEF WalkRecord
<1>5. walk' = [walk EXCEPT ![w] = new] BY <1>1
<1> HIDE DEF new
<1>6. WalkTypes' /\ walk'[w] = new /\ \A v \in Workers : v # w => walk'[v] = walk[v]
  BY <1>2, <1>4, <1>5 DEF WalkTypes
<1>7. WalksOn(w) BY <1>1, <1>4, <1>6, NothingSent DEF WalksOn
<1>8. ASSUME new.calm PROVE OnTheWay(walk[w])'
  <2>1. OnTheWay(b) BY <1>1, <1>4, <1>8 DEF ReachInv
  <2>2. \A s \in b.audience : s \in Sockets /\ (Reached(b, s) <=> ListenerOf[s] < b.list + 1)
    BY <1>1, <2>1, Passed
  <2>3. \A s \in Sockets : Reached(walk[w], s)' <=> ListenerOf[s] < b.list + 1
    <3>1. \A i \in 1..0 : FALSE OBVIOUS
    <3> QED BY <1>1, <1>4, <1>6, <3>1 DEF Reached
  <2>4. Audience(b.filter)' = b.audience
    <3>1. Audience(b.filter)' = Audience(b.filter) BY <1>1 DEF Audience, Passes
    <3> QED BY <2>1, <3>1 DEF OnTheWay
  <2>5. \A s \in Sockets : Times(s, walk[w].message, s \in walk[w].audience /\ Reached(walk[w], s))'
    <3>1. ASSUME NEW s \in Sockets
          PROVE  Times(s, walk[w].message, s \in walk[w].audience /\ Reached(walk[w], s))'
      <4>1. Times(s, b.message, s \in b.audience /\ Reached(b, s)) BY <2>1 DEF OnTheWay
      <4>2. s \in walk'[w].audience /\ Reached(walk[w], s)' <=> s \in b.audience /\ Reached(b, s)
        BY <1>4, <1>6, <2>2, <2>3
      <4> QED BY <1>1, <1>4, <1>6, <4>1, <4>2 DEF Times, Once, Never
    <3> QED BY <3>1
  <2>6. walk'[w].sended_once <=> \E s \in walk'[w].audience : Reached(walk[w], s)'
    BY <1>4, <1>6, <2>1, <2>2, <2>3 DEF OnTheWay
  <2>7. server' = "open" /\ ~fault' /\ ~walk'[w].moved /\ walk'[w].at <= walk'[w].end
        /\ walk'[w].end = size'[walk'[w].list]
    BY <1>1, <1>3, <1>4, <1>6, <2>1 DEF OnTheWay
  <2>8. walk'[w].audience = Audience(walk[w].filter)'
    BY <1>4, <1>6, <2>4 DEF Audience, Passes
  <2> QED BY <2>5, <2>6, <2>7, <2>8 DEF OnTheWay
<1>9. walk'[w].pc = "walking" BY <1>4, <1>6 DEF WalkRecord
<1> QED BY <1>1, <1>6, <1>7, <1>8, <1>9, WalkerKeeps

LEMMA ReturnKeeps == ASSUME ReachInv, SocketsInv', NEW w \in Workers, Return(w) PROVE ReachInv'
<1> DEFINE b == walk[w]
           told == [pc |-> "returned", message |-> b.message, sended_once |-> b.sended_once,
                    audience |-> b.audience]
           new == IF b.calm THEN told ELSE NoWalk
<1>1. /\ Walking(w) /\ UNCHANGED <<slots, size, socket, topic, inbox, said, server, fault>>
      /\ b.at = b.end /\ b.list + 1 \notin Listeners /\ walk' = [walk EXCEPT ![w] = new]
  BY DEF Return
<1>2. b \in WalkRecord /\ walk \in [Workers -> {NoWalk} \cup WalkRecord \cup ReturnRecord]
  BY <1>1, WalkTyped DEF ReachInv, WalkTypes
<1>3. told \in ReturnRecord /\ NoWalk.pc = "idle" BY <1>2 DEF WalkRecord, ReturnRecord, NoWalk
<1>4. /\ new \in {NoWalk} \cup ReturnRecord /\ new.pc # "walking"
      /\ new.pc = "returned" => b.calm /\ new = told
  BY <1>3 DEF ReturnRecord
<1>5. /\ told.message = b.message /\ told.sended_once = b.sended_once /\ told.audience = b.audience
  OBVIOUS
<1> HIDE DEF new, told
<1>6. WalkTypes' /\ walk'[w] = new /\ \A v \in Workers : v # w => walk'[v] = walk[v]
  BY <1>1, <1>2, <1>4 DEF WalkTypes
<1>7. ~Walking(w)' BY <1>4, <1>6 DEF Walking
<1>8. WalksOn(w) BY <1>1, <1>6, <1>7, NothingSent DEF WalksOn
<1>9. ASSUME new.pc = "returned" PROVE Over(walk[w])'
  <2>1. OnTheWay(b) BY <1>1, <1>4, <1>9 DEF ReachInv
  <2>2. \A s \in b.audience : s \in Sockets /\ (Reached(b, s) <=> ListenerOf[s] < b.list + 1)
    BY <1>1, <2>1, Passed
  <2>3. \A s \in Sockets : ListenerOf[s] < b.list + 1
    <3>1. b.list \in 1..Count /\ Count \in Nat /\ b.list + 1 \notin 1..Count
      BY <1>1, <1>2, ListenersAssumption DEF WalkRecord, Listeners
    <3>2. b.list = Count BY <3>1
    <3>3. \A s \in Sockets : ListenerOf[s] \in 1..Count BY ListenersAssumption DEF Listeners
    <3> QED BY <3>1, <3>2, <3>3
  <2>4. \A s \in b.audience : Reached(b, s) BY <2>2, <2>3
  <2>5. \A s \in Sockets : Times(s, b.message, s \in b.audience)
    <3>1. ASSUME NEW s \in Sockets PROVE Times(s, b.message, s \in b.audience)
      <4>1. Times(s, b.message, s \in b.audience /\ Reached(b, s)) BY <2>1 DEF OnTheWay
      <4> QED BY <2>4, <4>1 DEF Times
    <3> QED BY <3>1
  <2>6. \A s \in Sockets : Times(s, walk[w].message, s \in walk[w].audience)'
    <3>1. ASSUME NEW s \in Sockets PROVE Times(s, walk[w].message, s \in walk[w].audience)'
      <4>1. Times(s, b.message, s \in b.audience) BY <2>5
      <4>2. walk'[w].message = b.message /\ walk'[w].audience = b.audience BY <1>4, <1>5, <1>6, <1>9
      <4> QED BY <1>1, <4>1, <4>2 DEF Times, Once, Never
    <3> QED BY <3>1
  <2>7. walk'[w].sended_once <=> walk'[w].audience # {}
    BY <1>4, <1>5, <1>6, <1>9, <2>1, <2>4 DEF OnTheWay
  <2>8. walk'[w].message \in said'
    <3>1. b.message \in said BY <1>1 DEF ReachInv, SocketsInv, OneSender
    <3> QED BY <1>1, <1>4, <1>5, <1>6, <1>9, <3>1
  <2>9. \A v \in Workers : ~Walking(v)'
    <3>1. \A v \in Workers : v # w => ~Walking(v) BY <1>1, OneWalker
    <3> QED BY <1>6, <1>7, <3>1 DEF Walking
  <2> QED BY <2>6, <2>7, <2>8, <2>9 DEF Over
<1> QED BY <1>1, <1>6, <1>7, <1>8, <1>9, WalkerKeeps

LEMMA LockKeeps ==
  ASSUME ReachInv, SocketsInv', NEW w \in Workers, NEW m \in Messages, NEW filter \in Filters,
         Lock(w, m, filter)
  PROVE  ReachInv'
<1> DEFINE new == [pc |-> "walking", message |-> m, filter |-> filter, list |-> 1,
                   at |-> 0, end |-> size[1], moved |-> FALSE, sended_once |-> FALSE,
                   calm |-> TRUE, audience |-> Audience(filter)]
<1>1. /\ server = "open" /\ ~fault /\ m \notin said /\ holder = <<>> /\ said' = said \cup {m}
      /\ walk' = [walk EXCEPT ![w] = new]
      /\ UNCHANGED <<slots, size, socket, topic, inbox, server, fault>>
  BY DEF Lock, Free
<1>2. 1 \in Listeners /\ size[1] \in Nat
  <2>1. 1 \in 1..Count BY ListenersAssumption
  <2> QED BY <2>1 DEF Listeners, ReachInv, Enlisted, Lists
<1>3. Audience(filter) \subseteq Sockets /\ Audience(filter)' = Audience(filter)
  BY <1>1 DEF Audience, Passes
<1>4. /\ new \in WalkRecord /\ new.pc = "walking" /\ new.message = m /\ new.filter = filter /\ new.list = 1
      /\ new.at = 0 /\ new.end = size[1] /\ new.moved = FALSE /\ new.sended_once = FALSE
      /\ new.audience = Audience(filter)
  BY <1>2, <1>3 DEF WalkRecord
<1> HIDE DEF new
<1>5. WalkTypes' /\ walk'[w] = new /\ \A v \in Workers : v # w => walk'[v] = walk[v]
  BY <1>1, <1>4 DEF WalkTypes, ReachInv
<1>6. \A v \in Workers : ~Walking(v)
  <2>1. \A v \in Workers : <<v>> # <<>> OBVIOUS
  <2> QED BY <1>1, <2>1 DEF ReachInv, SocketsInv, OneSender
<1>7. Enlisted'
  <2>1. DOMAIN socket' = Sockets BY <1>1 DEF ReachInv, Enlisted
  <2> QED BY <1>1, <2>1, StillEnlisted
<1>8. ASSUME NEW v \in Workers, walk'[v].pc = "returned" PROVE Over(walk[v])'
  <2>1. walk'[v] = walk[v] /\ Over(walk[v]) BY <1>4, <1>5, <1>8 DEF ReachInv
  <2>2. walk[v].message \in said /\ walk[v].message # m BY <1>1, <2>1 DEF Over
  <2>3. \A u \in Workers : Walking(u)' => walk'[u].message = m BY <1>4, <1>5, <1>6 DEF Walking
  <2>4. \A s \in Sockets : Times(s, walk[v].message, s \in walk[v].audience)'
    BY <1>1, <2>1 DEF Over, Times, Once, Never
  <2> QED BY <1>1, <2>1, <2>2, <2>3, <2>4 DEF Over
<1>9. OnTheWay(walk[w])'
  <2>1. \A s \in Sockets : ~Reached(walk[w], s)'
    <3>1. \A i \in 1..0 : FALSE OBVIOUS
    <3>2. \A s \in Sockets : ~(ListenerOf[s] < 1)
      <4>1. \A s \in Sockets : ListenerOf[s] \in 1..Count BY ListenersAssumption DEF Listeners
      <4>2. Count \in Nat BY ListenersAssumption
      <4> QED BY <4>1, <4>2
    <3> QED BY <1>4, <1>5, <3>1, <3>2 DEF Reached
  <2>2. \A s \in Sockets : Never(s, m) BY <1>1 DEF ReachInv, SocketsInv, OneSender, Never
  <2>3. \A s \in Sockets : Times(s, walk[w].message, s \in walk[w].audience /\ Reached(walk[w], s))'
    BY <1>1, <1>4, <1>5, <2>1, <2>2 DEF Times, Never
  <2>4. walk'[w].audience = Audience(walk[w].filter)' BY <1>3, <1>4, <1>5 DEF Audience, Passes
  <2>5. server' = "open" /\ ~fault' /\ ~walk'[w].moved /\ walk'[w].at <= walk'[w].end
        /\ walk'[w].end = size'[walk'[w].list] /\ ~walk'[w].sended_once
    BY <1>1, <1>2, <1>4, <1>5
  <2>6. walk'[w].audience \subseteq Sockets BY <1>3, <1>4, <1>5
  <2> QED BY <2>1, <2>3, <2>4, <2>5, <2>6 DEF OnTheWay
<1>10. \A v \in Workers : Walking(v)' => v = w BY <1>5, <1>6 DEF Walking
<1> QED BY <1>1, <1>5, <1>7, <1>8, <1>9, <1>10 DEF ReachInv

LEMMA SendReaches == ASSUME ReachInv, SocketsInv', NEW w \in Workers, SendTextMessage(w) PROVE ReachInv'
<1> DEFINE b == walk[w]
           s == slots[walk[w].list][walk[w].at + 1]
           passes == Passes(s, walk[w].filter)
           once == walk[w].sended_once \/ passes
           new == [walk[w] EXCEPT !.at = walk[w].at + 1, !.sended_once = once]
<1>1. /\ Walking(w) /\ UNCHANGED <<slots, size, socket, topic, said, server, fault>> /\ b.at < b.end
      /\ walk' = [walk EXCEPT ![w] = new]
      /\ inbox' = IF passes /\ socket[s] = "open"
                  THEN [inbox EXCEPT ![s] = Append(inbox[s], b.message)] ELSE inbox
  BY DEF SendTextMessage
<1>2. b \in WalkRecord /\ walk \in [Workers -> {NoWalk} \cup WalkRecord \cup ReturnRecord]
  BY <1>1, WalkTyped DEF ReachInv, WalkTypes
<1>3. passes \in BOOLEAN /\ once \in BOOLEAN BY DEF Passes
<1> HIDE DEF s, passes, once
<1>4. /\ new \in WalkRecord /\ new.pc = "walking" /\ new.list = b.list /\ new.at = b.at + 1
      /\ new.end = b.end /\ new.moved = b.moved /\ new.calm = b.calm /\ new.audience = b.audience
      /\ new.filter = b.filter /\ new.message = b.message
      /\ new.sended_once = once
  <2>1. b.at + 1 \in Nat /\ b.pc = "walking" BY <1>2 DEF WalkRecord
  <2> DEFINE next == b.at + 1
  <2>2. new = [b EXCEPT !.at = next, !.sended_once = once] /\ next \in Nat BY <2>1
  <2> HIDE DEF next, new
  <2>3. new \in WalkRecord BY <1>2, <1>3, <2>2 DEF WalkRecord
  <2> QED BY <1>2, <2>1, <2>2, <2>3 DEF WalkRecord, next
<1> HIDE DEF new
<1>5. WalkTypes' /\ walk'[w] = new /\ \A v \in Workers : v # w => walk'[v] = walk[v]
  BY <1>1, <1>2, <1>4 DEF WalkTypes
<1>6. b.message \in Messages /\ Inboxes BY <1>2 DEF WalkRecord, ReachInv, SocketsInv
<1>7. \A t \in Sockets : \A n : \A c \in BOOLEAN :
        n # b.message => (Times(t, n, c) => Times(t, n, c)')
  <2>1. CASE inbox' = inbox BY <2>1 DEF Times, Once, Never
  <2>2. CASE inbox' # inbox
    <3>1. inbox' = [inbox EXCEPT ![s] = Append(inbox[s], b.message)] /\ s \in Sockets
      BY <1>1, <1>6, <2>2 DEF Inboxes
    <3> QED BY <1>6, <3>1, SentOne
  <2> QED BY <2>1, <2>2
<1>8. WalksOn(w) BY <1>1, <1>4, <1>5, <1>7 DEF WalksOn
<1>9. ASSUME new.calm PROVE OnTheWay(walk[w])'
  <2>1. OnTheWay(b) BY <1>1, <1>4, <1>9 DEF ReachInv
  <2>2. /\ s \in Sockets /\ socket[s] = "open" /\ ListenerOf[s] = b.list /\ ~Reached(b, s)
        /\ b.at + 1 <= b.end
    BY <1>1, <2>1, NextOne DEF s
  <2>3. passes <=> s \in b.audience BY <2>1, <2>2 DEF passes, OnTheWay, Audience
  <2>4. \A t \in Sockets : Reached(walk[w], t)' <=> Reached(b, t) \/ t = s
    <3>1. b.at \in Nat BY <1>2 DEF WalkRecord
    <3>2. \A t : (\E i \in 1..(b.at + 1) : slots[b.list][i] = t)
                   <=> (\E i \in 1..b.at : slots[b.list][i] = t) \/ s = t
      <4>1. \A i \in 1..(b.at + 1) : i \in 1..b.at \/ i = b.at + 1 BY <3>1
      <4>2. 1..b.at \subseteq 1..(b.at + 1) /\ b.at + 1 \in 1..(b.at + 1) BY <3>1
      <4> QED BY <4>1, <4>2 DEF s
    <3>3. ASSUME NEW t \in Sockets PROVE Reached(walk[w], t)' <=> Reached(b, t) \/ t = s
      <4>1. Reached(walk[w], t)' <=> \/ ListenerOf[t] < b.list
                                     \/ ListenerOf[t] = b.list /\ \E i \in 1..(b.at + 1) : slots[b.list][i] = t
        BY <1>1, <1>4, <1>5 DEF Reached
      <4> QED BY <2>2, <3>2, <4>1 DEF Reached
    <3> QED BY <3>3
  <2>5. \A t \in Sockets : Times(t, walk[w].message, t \in walk[w].audience /\ Reached(walk[w], t))'
    <3>1. ASSUME NEW t \in Sockets
          PROVE  Times(t, walk[w].message, t \in walk[w].audience /\ Reached(walk[w], t))'
      <4> DEFINE before == t \in b.audience /\ Reached(b, t)
                 after == before \/ (passes /\ t = s)
      <4>1. before \in BOOLEAN /\ after \in BOOLEAN OBVIOUS
      <4>2. Times(t, b.message, before) BY <2>1 DEF OnTheWay
      <4>3. (t \in walk'[w].audience /\ Reached(walk[w], t)') <=> after BY <1>4, <1>5, <2>3, <2>4
      <4>4. before => t # s BY <2>2
      <4> HIDE DEF before
      <4>5. PICK m \in {b.message}, c \in BOOLEAN, d \in BOOLEAN :
              m = b.message /\ (c <=> before) /\ (d <=> after)
        BY <4>1
      <4>6. Times(t, m, c) BY <4>2, <4>5 DEF Times
      <4>7. Times(t, m, d)'
        <5>1. CASE inbox' = inbox
          <6>1. ~(passes /\ t = s)
            <7>1. SUFFICES ASSUME passes, t = s PROVE FALSE OBVIOUS
            <7>2. inbox' = [inbox EXCEPT ![s] = Append(inbox[s], b.message)] BY <1>1, <2>2, <7>1
            <7>3. inbox[s] \in Seq(Messages) /\ inbox'[s] = Append(inbox[s], b.message)
              BY <1>6, <2>2, <7>2 DEF Inboxes
            <7>4. Len(inbox'[s]) = Len(inbox[s]) + 1 /\ Len(inbox[s]) \in Nat BY <1>6, <7>3
            <7> QED BY <5>1, <7>4
          <6>2. c <=> d BY <4>5, <6>1
          <6> QED BY <4>6, <5>1, <6>2 DEF Times, Once, Never
        <5>2. CASE inbox' # inbox
          <6>1. inbox' = [inbox EXCEPT ![s] = Append(inbox[s], m)] /\ passes BY <1>1, <4>5, <5>2
          <6>2. m \in Messages BY <1>6, <4>5
          <6>3. CASE t = s
            <7>1. c = FALSE /\ d = TRUE BY <4>4, <4>5, <6>1, <6>3
            <7> QED BY <1>6, <2>2, <4>6, <6>1, <6>2, <6>3, <7>1, SentOne
          <6>4. CASE t # s
            <7>1. c = d BY <4>5, <6>4
            <7> QED BY <1>6, <2>2, <4>6, <6>1, <6>2, <6>4, <7>1, SentOne
          <6> QED BY <6>3, <6>4
        <5> QED BY <5>1, <5>2
      <4>8. walk'[w].message = m BY <1>4, <1>5, <4>5
      <4>9. (t \in walk'[w].audience /\ Reached(walk[w], t)') <=> d BY <4>3, <4>5
      <4> QED BY <4>7, <4>8, <4>9 DEF Times, Once, Never
    <3> QED BY <3>1
  <2>6. walk'[w].sended_once <=> \E t \in walk'[w].audience : Reached(walk[w], t)'
    <3>1. b.audience \subseteq Sockets BY <2>1 DEF OnTheWay, Audience
    <3>2. b.sended_once <=> \E t \in b.audience : Reached(b, t) BY <2>1 DEF OnTheWay
    <3> QED BY <1>4, <1>5, <2>3, <2>4, <3>1, <3>2 DEF once
  <2>7. server' = "open" /\ ~fault' /\ ~walk'[w].moved /\ walk'[w].at <= walk'[w].end
        /\ walk'[w].end = size'[walk'[w].list]
    BY <1>1, <1>4, <1>5, <2>1, <2>2 DEF OnTheWay
  <2>8. walk'[w].audience = Audience(walk[w].filter)'
    BY <1>1, <1>4, <1>5, <2>1 DEF OnTheWay, Audience, Passes
  <2> QED BY <2>5, <2>6, <2>7, <2>8 DEF OnTheWay
<1>10. walk'[w].pc = "walking" BY <1>4, <1>5
<1> QED BY <1>1, <1>5, <1>8, <1>9, <1>10, WalkerKeeps

LEMMA ReachStep == ReachInv /\ [ListenerNext]_sockets => ReachInv'
<1> SUFFICES ASSUME ReachInv, [ListenerNext]_sockets PROVE ReachInv' OBVIOUS
<1>0. SocketsInv' BY SocketsStep DEF ReachInv
<1>1. ASSUME NEW s \in Sockets, OnNewWebSocketConnection(s) PROVE ReachInv'
  BY <1>0, <1>1, ComesEnlisted, ComesOutside, OutsideKeeps
<1>2. ASSUME NEW s \in Sockets, WebSocketDisconnected(s) PROVE ReachInv'
  <2>1. Enlisted' BY <1>2, GoesEnlisted
  <2>2. Outside BY <1>2, DisturbedOutside DEF WebSocketDisconnected
  <2> QED BY <1>0, <2>1, <2>2, OutsideKeeps
<1>3. ASSUME NEW s \in Sockets, DeferredDelete(s) PROVE ReachInv'
  <2>1. /\ UNCHANGED <<slots, size, topic, inbox, walk, said, server, fault>>
        /\ socket[s] = "left" /\ socket' = [socket EXCEPT ![s] = "deleted"]
    BY <1>3 DEF DeferredDelete
  <2>2. DOMAIN socket' = Sockets BY <2>1 DEF ReachInv, Enlisted
  <2>3. \A t \in Sockets : socket'[t] = "open" <=> socket[t] = "open"
    <3>1. DOMAIN socket = Sockets BY DEF ReachInv, Enlisted
    <3> QED BY <2>1, <3>1
  <2> QED BY <1>0, <2>1, <2>2, <2>3, QuietKeeps
<1>4. ASSUME NEW s \in Sockets, ProcessWebSocketTextMessage(s) PROVE ReachInv'
  <2>1. walk' = Disturbed /\ UNCHANGED <<slots, size, socket, inbox, said, server>>
    BY <1>4 DEF ProcessWebSocketTextMessage
  <2>2. DOMAIN socket' = Sockets BY <2>1 DEF ReachInv, Enlisted
  <2>3. Enlisted' BY <2>1, <2>2, StillEnlisted
  <2> QED BY <1>0, <2>1, <2>3, DisturbedOutside, OutsideKeeps
<1>5. CASE Close
  <2>1. UNCHANGED <<slots, size>> /\ server' = "closed" /\ DOMAIN socket' = Sockets BY <1>5 DEF Close
  <2>2. Enlisted' BY <2>1, StillEnlisted
  <2> QED BY <1>0, <1>5, <2>2, CloseOutside, OutsideKeeps
<1>6. CASE UNCHANGED sockets
  <2>1. UNCHANGED <<slots, size, socket, topic, inbox, walk, said, server, fault>> BY <1>6 DEF sockets
  <2>2. DOMAIN socket' = Sockets BY <2>1 DEF ReachInv, Enlisted
  <2> QED BY <1>0, <2>1, <2>2, QuietKeeps
<1>7. ASSUME NEW w \in Workers, NEW m \in Messages, NEW filter \in Filters, Lock(w, m, filter) PROVE ReachInv'
  BY <1>0, <1>7, LockKeeps
<1>8. ASSUME NEW w \in Workers, SendTextMessage(w) PROVE ReachInv' BY <1>0, <1>8, SendReaches
<1>9. ASSUME NEW w \in Workers, Fault(w) PROVE ReachInv' BY <1>0, <1>9, FaultKeeps
<1>10. ASSUME NEW w \in Workers, NextList(w) PROVE ReachInv' BY <1>0, <1>10, NextListKeeps
<1>11. ASSUME NEW w \in Workers, Return(w) PROVE ReachInv' BY <1>0, <1>11, ReturnKeeps
<1> QED
  BY <1>1, <1>2, <1>3, <1>4, <1>5, <1>6, <1>7, <1>8, <1>9, <1>10, <1>11 DEF ListenerNext

(* However many clients, listeners and workers there are, and whatever the *)
(* lists went through before: a broadcast during which nobody comes, goes  *)
(* or is marked reaches each client that matches once and nobody else,     *)
(* says whether there was one, and touches no deleted socket               *)
(* (broadcastWSocketsTextMessage and the slots of the listener).           *)
THEOREM UndisturbedBroadcastsReach == ListenerSpec => []UndisturbedReachesAll
<1>1. ASSUME ReachInv, NEW w \in Workers PROVE Walking(w) /\ fault => ~walk[w].calm
  BY <1>1 DEF ReachInv, OnTheWay
<1>2. ASSUME ReachInv, NEW w \in Workers, walk[w].pc = "returned", NEW s \in Sockets
      PROVE  Cardinality({i \in 1..Len(inbox[s]) : inbox[s][i] = walk[w].message})
               = IF s \in walk[w].audience THEN 1 ELSE 0
  <2>1. Times(s, walk[w].message, s \in walk[w].audience) BY <1>2 DEF ReachInv, Over
  <2> DEFINE places == {i \in 1..Len(inbox[s]) : inbox[s][i] = walk[w].message}
  <2>2. CASE s \in walk[w].audience
    <3>1. PICK k \in 1..Len(inbox[s]) : \A i \in 1..Len(inbox[s]) : inbox[s][i] = walk[w].message <=> i = k
      BY <2>1, <2>2 DEF Times, Once
    <3>2. places = {k} BY <3>1
    <3> QED BY <2>2, <3>2, FS_Singleton
  <2>3. CASE s \notin walk[w].audience
    <3>1. places = {} BY <2>1, <2>3 DEF Times, Never
    <3> QED BY <2>3, <3>1, FS_EmptySet
  <2> QED BY <2>2, <2>3
<1>3. ReachInv => UndisturbedReachesAll
  <2>1. ReachInv => \A w \in Workers :
          walk[w].pc = "returned" => (walk[w].sended_once <=> walk[w].audience # {})
    BY DEF ReachInv, Over
  <2> QED BY <1>1, <1>2, <2>1 DEF UndisturbedReachesAll
<1> QED BY <1>3, ReachStart, ReachStep, PTL DEF ListenerSpec

-----------------------------------------------------------------------------
(* The log: at most one thread is at the files, it holds m_mutex, and the  *)
(* files it has not reached yet lack just its record.  That errorslog has  *)
(* the errors of log is shown by induction over the records.               *)

(* g tells the errors among the first n records of s, for every n up to m. *)
Tells(g, s, m) ==
  g = [n \in 0..m |->
         IF n = 0 THEN <<>>
         ELSE IF IsError(s[n]) THEN Append(g[n - 1], s[n]) ELSE g[n - 1]]

LEMMA TellsOneMore ==
  ASSUME NEW s, NEW m \in Nat, NEW g, Tells(g, s, m),
         NEW h, h = [n \in 0..(m + 1) |->
                       IF n <= m THEN g[n]
                       ELSE IF IsError(s[m + 1]) THEN Append(g[m], s[m + 1]) ELSE g[m]]
  PROVE  Tells(h, s, m + 1)
<1> DEFINE F(f) == [n \in 0..(m + 1) |->
         IF n = 0 THEN <<>>
         ELSE IF IsError(s[n]) THEN Append(f[n - 1], s[n]) ELSE f[n - 1]]
<1>1. \A n \in 0..m : g[n] = IF n = 0 THEN <<>>
         ELSE IF IsError(s[n]) THEN Append(g[n - 1], s[n]) ELSE g[n - 1]
  BY DEF Tells
<1>2. ASSUME NEW n \in 0..(m + 1) PROVE h[n] = F(h)[n]
  <2>1. CASE n = 0 BY <1>1, <2>1
  <2>2. CASE n \in 1..m
    <3>1. n - 1 \in 0..m /\ n \in 0..m /\ n # 0 BY <2>2
    <3>2. h[n - 1] = g[n - 1] /\ h[n] = g[n] BY <3>1
    <3> QED BY <1>1, <3>1, <3>2
  <2>3. CASE n = m + 1
    <3>1. h[n - 1] = g[m] /\ n # 0 /\ n - 1 = m BY <2>3
    <3> QED BY <2>3, <3>1
  <2> QED BY <2>1, <2>2, <2>3
<1>3. h = F(h) BY <1>2
<1> QED BY <1>3 DEF Tells

LEMMA SomethingTells == ASSUME NEW s, NEW m \in Nat PROVE \E g : Tells(g, s, m)
<1> DEFINE S == {n \in Nat : \E g : Tells(g, s, n)}
<1>1. 0 \in S
  <2>1. Tells([n \in 0..0 |-> <<>>], s, 0) BY DEF Tells
  <2> QED BY <2>1
<1>2. ASSUME NEW n \in Nat, n \in S PROVE n + 1 \in S
  <2>1. PICK g : Tells(g, s, n) BY <1>2
  <2> DEFINE h == [k \in 0..(n + 1) |->
                       IF k <= n THEN g[k]
                       ELSE IF IsError(s[n + 1]) THEN Append(g[n], s[n + 1]) ELSE g[n]]
  <2>2. Tells(h, s, n + 1) BY <2>1, TellsOneMore
  <2> QED BY <2>2
<1> HIDE DEF S
<1>3. Nat \subseteq S BY <1>1, <1>2, NatSets
<1> QED BY <1>3 DEF S

LEMMA TellSame ==
  ASSUME NEW R, NEW s \in Seq(R), NEW r \in Seq(R), NEW m \in Nat, \A n \in 1..m : s[n] = r[n],
         NEW g, Tells(g, s, m), NEW h, Tells(h, r, m + 1)
  PROVE  g[m] = h[m]
<1> DEFINE S == {n \in Nat : n <= m => g[n] = h[n]}
<1>0. /\ \A n \in 0..m : g[n] = IF n = 0 THEN <<>>
         ELSE IF IsError(s[n]) THEN Append(g[n - 1], s[n]) ELSE g[n - 1]
      /\ \A n \in 0..(m + 1) : h[n] = IF n = 0 THEN <<>>
         ELSE IF IsError(r[n]) THEN Append(h[n - 1], r[n]) ELSE h[n - 1]
  BY DEF Tells
<1>1. 0 \in S BY <1>0
<1>2. ASSUME NEW n \in Nat, n \in S PROVE n + 1 \in S
  <2> SUFFICES ASSUME n + 1 <= m PROVE g[n + 1] = h[n + 1] OBVIOUS
  <2>1. n + 1 \in 0..m /\ n + 1 \in 0..(m + 1) /\ n + 1 # 0 /\ (n + 1) - 1 = n /\ n + 1 \in 1..m OBVIOUS
  <2>2. g[n] = h[n] BY <1>2
  <2>3. /\ g[n + 1] = IF IsError(s[n + 1]) THEN Append(g[n], s[n + 1]) ELSE g[n]
        /\ h[n + 1] = IF IsError(r[n + 1]) THEN Append(h[n], r[n + 1]) ELSE h[n]
    BY <1>0, <2>1
  <2> QED BY <2>1, <2>2, <2>3
<1> HIDE DEF S
<1>3. Nat \subseteq S BY <1>1, <1>2, NatSets
<1> QED BY <1>3 DEF S

LEMMA ErrorsTold ==
  ASSUME NEW s, Len(s) \in Nat
  PROVE  \E g : Tells(g, s, Len(s)) /\ ErrorsIn(s) = g[Len(s)]
<1> DEFINE f == CHOOSE g : g = [n \in 0..Len(s) |->
         IF n = 0 THEN <<>>
         ELSE IF IsError(s[n]) THEN Append(g[n - 1], s[n]) ELSE g[n - 1]]
<1>1. Tells(f, s, Len(s)) BY SomethingTells DEF Tells
<1>2. ErrorsIn(s) = f[Len(s)] BY Zenon DEF ErrorsIn
<1> QED BY <1>1, <1>2

(* The errors among no records, and among one more.                        *)
LEMMA ErrorsInNone == ErrorsIn(<<>>) = <<>>
<1>1. PICK g : Tells(g, <<>>, Len(<<>>)) /\ ErrorsIn(<<>>) = g[Len(<<>>)] BY ErrorsTold
<1> QED BY <1>1 DEF Tells

LEMMA ErrorsInMore ==
  ASSUME NEW R, NEW s \in Seq(R), NEW e \in R
  PROVE  ErrorsIn(Append(s, e)) = IF IsError(e) THEN Append(ErrorsIn(s), e) ELSE ErrorsIn(s)
<1>0. PICK r \in Seq(R) : r = Append(s, e)
  <2>1. Append(s, e) \in Seq(R) OBVIOUS
  <2> QED BY <2>1
<1>1. /\ Len(s) \in Nat /\ Len(r) = Len(s) + 1 /\ Len(r) \in Nat
      /\ \A n \in 1..Len(s) : s[n] = r[n]
      /\ r[Len(s) + 1] = e
  BY <1>0
<1>2. PICK g : Tells(g, s, Len(s)) /\ ErrorsIn(s) = g[Len(s)] BY <1>1, ErrorsTold
<1>3. PICK h : Tells(h, r, Len(r)) /\ ErrorsIn(r) = h[Len(r)] BY <1>1, ErrorsTold
<1>4. g[Len(s)] = h[Len(s)]
  <2>0. PICK m \in Nat : m = Len(s) BY <1>1
  <2>1. m \in Nat /\ Tells(g, s, m) /\ Tells(h, r, m + 1) /\ \A n \in 1..m : s[n] = r[n]
    BY <1>1, <1>2, <1>3, <2>0
  <2>2. g[m] = h[m] BY <2>1, TellSame
  <2> QED BY <2>0, <2>2
<1>5. h[Len(s) + 1] = IF IsError(e) THEN Append(h[Len(s)], e) ELSE h[Len(s)]
  <2>1. Len(s) + 1 \in 0..Len(r) /\ Len(s) + 1 # 0 /\ (Len(s) + 1) - 1 = Len(s) BY <1>1
  <2>2. h[Len(s) + 1] = IF IsError(r[Len(s) + 1]) THEN Append(h[(Len(s) + 1) - 1], r[Len(s) + 1])
                        ELSE h[(Len(s) + 1) - 1]
    BY <1>3, <2>1 DEF Tells
  <2> QED BY <1>1, <2>1, <2>2
<1> QED BY <1>0, <1>1, <1>2, <1>3, <1>4, <1>5

Record == [type : Severities, number : Nat]

(* Where a thread is with its message; at the three files it has m_mutex.  *)
LoggerTypes ==
  /\ log \in Seq(Record) /\ errors \in Seq(Record) /\ html \in Seq(Record)
  /\ records \in Nat /\ isWriteToFile \in BOOLEAN
  /\ logging \in [Threads -> [pc : {"idle"}] \cup
       [pc : {"locking", "log", "error", "html", "written"}, record : Record, filed : BOOLEAN]]

(* m_mutex has an owner just while a thread is at the files.               *)
WriterAtFiles ==
  /\ writer = <<>> \/ \E t \in Threads : writer = <<t>>
  /\ \A t \in Threads : writer = <<t>> <=> logging[t].pc \in {"log", "error", "html"}

(* How far the files agree while a thread writes to them.                  *)
FilesBehind ==
  \A t \in Threads :
    /\ logging[t].pc = "log" => html = log /\ errors = ErrorsIn(log)
    /\ logging[t].pc = "error" => log = Append(html, logging[t].record) /\ errors = ErrorsIn(html)
    /\ logging[t].pc = "html" => log = Append(html, logging[t].record) /\ errors = ErrorsIn(log)

LoggerInv == LoggerTypes /\ WriterAtFiles /\ FilesBehind /\ FilesAgree

LEMMA LoggerStart == LogInit => LoggerInv
<1> SUFFICES ASSUME LogInit PROVE LoggerInv OBVIOUS
<1> USE DEF LogInit, Silent
<1>1. LoggerTypes
  <2>1. <<>> \in Seq(Record) OBVIOUS
  <2> QED BY <2>1 DEF LoggerTypes
<1>2. WriterAtFiles /\ FilesBehind BY DEF WriterAtFiles, FilesBehind
<1>3. FilesAgree BY ErrorsInNone DEF FilesAgree
<1> QED BY <1>1, <1>2, <1>3 DEF LoggerInv

(* What a thread becomes when it goes on with its message.                 *)
LEMMA Goes ==
  ASSUME LoggerTypes, NEW t \in Threads, logging[t].pc \in {"locking", "log", "error", "html"},
         NEW place \in {"log", "error", "html", "written"}, Go(t, place)
  PROVE  /\ logging' \in [Threads -> [pc : {"idle"}] \cup
              [pc : {"locking", "log", "error", "html", "written"}, record : Record, filed : BOOLEAN]]
         /\ logging'[t].pc = place /\ logging'[t].record = logging[t].record /\ logging[t].record \in Record
         /\ \A u \in Threads \ {t} : logging'[u] = logging[u]
<1> DEFINE Busy == [pc : {"locking", "log", "error", "html", "written"}, record : Record, filed : BOOLEAN]
<1>1. logging[t] \in Busy BY DEF LoggerTypes
<1>2. [logging[t] EXCEPT !.pc = place] \in Busy BY <1>1
<1>3. /\ [logging[t] EXCEPT !.pc = place].pc = place
      /\ [logging[t] EXCEPT !.pc = place].record = logging[t].record /\ logging[t].record \in Record
  BY <1>1
<1>4. logging'[t] = [logging[t] EXCEPT !.pc = place] /\ \A u \in Threads \ {t} : logging'[u] = logging[u]
  BY DEF Go, LoggerTypes
<1> HIDE DEF Busy
<1>5. logging' \in [Threads -> [pc : {"idle"}] \cup Busy] BY <1>2 DEF Go, LoggerTypes, Busy
<1> QED BY <1>3, <1>4, <1>5 DEF Busy

(* Steps that leave the files and the mutex alone.                         *)
LEMMA OtherThreadsKeep ==
  ASSUME LoggerInv, UNCHANGED <<logs, writer>>, LoggerTypes',
         \A t \in Threads : \/ logging'[t] = logging[t]
                            \/ /\ logging[t].pc \notin {"log", "error", "html"}
                               /\ logging'[t].pc \notin {"log", "error", "html"}
  PROVE  LoggerInv'
<1> USE DEF LoggerInv, logs
<1>1. WriterAtFiles' BY DEF WriterAtFiles
<1>2. FilesBehind' BY DEF FilesBehind
<1>3. FilesAgree' BY DEF FilesAgree
<1> QED BY <1>1, <1>2, <1>3

LEMMA LoggerStep == LoggerInv /\ [LogNext]_logger => LoggerInv'
<1> SUFFICES ASSUME LoggerInv, [LogNext]_logger PROVE LoggerInv' OBVIOUS
<1> USE DEF LoggerInv
<1> DEFINE Busy == [pc : {"locking", "log", "error", "html", "written"}, record : Record, filed : BOOLEAN]
<1>1. CASE SetWriteToLogFile \/ UNCHANGED logger
  <2>1. UNCHANGED <<logs, writer, logging, records>> /\ isWriteToFile' \in BOOLEAN
    BY <1>1 DEF SetWriteToLogFile, logger, flags, LoggerTypes
  <2> QED BY <2>1, OtherThreadsKeep DEF LoggerTypes, logs
<1>2. ASSUME NEW t \in Threads, MessageOutput(t) PROVE LoggerInv'
  <2>1. logging[t].pc = "idle" /\ records' = records + 1 /\ UNCHANGED <<isWriteToFile, logs, writer>>
    BY <1>2 DEF MessageOutput, Is, flags
  <2>2. CASE UNCHANGED logging
    BY <2>1, <2>2, OtherThreadsKeep DEF LoggerTypes, logs
  <2>3. ASSUME NEW type \in Severities,
               logging' = [logging EXCEPT ![t] =
                 [pc |-> IF isWriteToFile THEN "locking" ELSE "written",
                  record |-> [type |-> type, number |-> records], filed |-> isWriteToFile]]
        PROVE  LoggerInv'
    <3> DEFINE m == [pc |-> IF isWriteToFile THEN "locking" ELSE "written",
                  record |-> [type |-> type, number |-> records], filed |-> isWriteToFile]
    <3>1. m \in Busy /\ m.pc \in {"locking", "written"} BY <2>3 DEF LoggerTypes, Record
    <3> HIDE DEF m, Busy
    <3>2. LoggerTypes' BY <2>1, <2>3, <3>1 DEF LoggerTypes, logs, m, Busy
    <3>3. logging'[t] = m /\ \A u \in Threads \ {t} : logging'[u] = logging[u]
      BY <2>3 DEF LoggerTypes, m
    <3> QED BY <2>1, <3>1, <3>2, <3>3, OtherThreadsKeep
  <2> QED BY <1>2, <2>2, <2>3 DEF MessageOutput
<1>3. ASSUME NEW t \in Threads, LockLog(t) PROVE LoggerInv'
  <2>1. /\ logging[t].pc = "locking" /\ writer = <<>> /\ writer' = <<t>> /\ Go(t, "log")
        /\ UNCHANGED <<isWriteToFile, log, errors, html, records>>
    BY <1>3 DEF LockLog, Is, LogFree, flags, logs
  <2>2. /\ logging'[t].pc = "log" /\ \A u \in Threads \ {t} : logging'[u] = logging[u]
        /\ LoggerTypes'
    BY <2>1, Goes DEF LoggerTypes
  <2>3. WriterAtFiles' BY <2>1, <2>2 DEF WriterAtFiles
  <2>4. FilesBehind'
    <3>1. \A u \in Threads \ {t} : logging'[u].pc \notin {"log", "error", "html"}
      BY <2>1, <2>2 DEF WriterAtFiles
    <3> QED BY <2>1, <2>2, <3>1 DEF FilesBehind, FilesAgree
  <2>5. FilesAgree' BY <2>1 DEF FilesAgree
  <2> QED BY <2>2, <2>3, <2>4, <2>5
<1>4. ASSUME NEW t \in Threads, WriteLog(t) PROVE LoggerInv'
  <2>1. /\ logging[t].pc = "log" /\ log' = Append(log, logging[t].record) /\ Go(t, "error")
        /\ UNCHANGED <<isWriteToFile, errors, html, writer, records>>
    BY <1>4 DEF WriteLog, Is, flags
  <2>2. /\ logging'[t].pc = "error" /\ logging'[t].record = logging[t].record /\ logging[t].record \in Record
        /\ \A u \in Threads \ {t} : logging'[u] = logging[u]
        /\ LoggerTypes'
    <3>1. logging[t].record \in Record => log' \in Seq(Record) BY <2>1 DEF LoggerTypes
    <3> QED BY <2>1, <3>1, Goes DEF LoggerTypes
  <2>3. writer = <<t>> BY <2>1 DEF WriterAtFiles
  <2>4. WriterAtFiles' BY <2>1, <2>2 DEF WriterAtFiles
  <2>5. FilesBehind'
    <3>1. \A u \in Threads \ {t} : logging'[u].pc \notin {"log", "error", "html"}
      BY <2>2, <2>3 DEF WriterAtFiles
    <3> QED BY <2>1, <2>2, <3>1 DEF FilesBehind
  <2>6. FilesAgree' BY <2>1, <2>3 DEF FilesAgree
  <2> QED BY <2>2, <2>4, <2>5, <2>6
<1>5. ASSUME NEW t \in Threads, WriteError(t) PROVE LoggerInv'
  <2>1. /\ logging[t].pc = "error" /\ Go(t, "html")
        /\ errors' = IF IsError(logging[t].record) THEN Append(errors, logging[t].record) ELSE errors
        /\ UNCHANGED <<isWriteToFile, log, html, writer, records>>
    BY <1>5 DEF WriteError, Is, flags
  <2>2. /\ logging'[t].pc = "html" /\ logging'[t].record = logging[t].record /\ logging[t].record \in Record
        /\ \A u \in Threads \ {t} : logging'[u] = logging[u]
        /\ LoggerTypes'
    <3>1. logging[t].record \in Record => errors' \in Seq(Record) BY <2>1 DEF LoggerTypes
    <3> QED BY <2>1, <3>1, Goes DEF LoggerTypes
  <2>3. writer = <<t>> BY <2>1 DEF WriterAtFiles
  <2>4. WriterAtFiles' BY <2>1, <2>2 DEF WriterAtFiles
  <2>5. FilesBehind'
    <3>1. \A u \in Threads \ {t} : logging'[u].pc \notin {"log", "error", "html"}
      BY <2>2, <2>3 DEF WriterAtFiles
    <3>2. log = Append(html, logging[t].record) /\ errors = ErrorsIn(html) BY <2>1 DEF FilesBehind
    <3>3. ErrorsIn(log) = IF IsError(logging[t].record) THEN Append(ErrorsIn(html), logging[t].record)
                          ELSE ErrorsIn(html)
      BY <2>2, <3>2, ErrorsInMore DEF LoggerTypes
    <3> QED BY <2>1, <2>2, <3>1, <3>2, <3>3 DEF FilesBehind
  <2>6. FilesAgree' BY <2>1, <2>3 DEF FilesAgree
  <2> QED BY <2>2, <2>4, <2>5, <2>6
<1>6. ASSUME NEW t \in Threads, WriteHtml(t) PROVE LoggerInv'
  <2>1. /\ logging[t].pc = "html" /\ html' = Append(html, logging[t].record) /\ Go(t, "written")
        /\ writer' = <<>>
        /\ UNCHANGED <<isWriteToFile, log, errors, records>>
    BY <1>6 DEF WriteHtml, Is, flags
  <2>2. /\ logging'[t].pc = "written" /\ logging[t].record \in Record
        /\ \A u \in Threads \ {t} : logging'[u] = logging[u]
        /\ LoggerTypes'
    <3>1. logging[t].record \in Record => html' \in Seq(Record) BY <2>1 DEF LoggerTypes
    <3> QED BY <2>1, <3>1, Goes DEF LoggerTypes
  <2>3. writer = <<t>> BY <2>1 DEF WriterAtFiles
  <2>4. \A u \in Threads : logging'[u].pc \notin {"log", "error", "html"}
    BY <2>2, <2>3 DEF WriterAtFiles
  <2>5. WriterAtFiles' /\ FilesBehind' BY <2>1, <2>4 DEF WriterAtFiles, FilesBehind
  <2>6. FilesAgree' BY <2>1 DEF FilesAgree, FilesBehind
  <2> QED BY <2>2, <2>5, <2>6
<1>7. ASSUME NEW t \in Threads, PassOn(t) PROVE LoggerInv'
  <2>1. /\ logging[t].pc = "written" /\ logging' = [logging EXCEPT ![t] = Silent]
        /\ UNCHANGED <<isWriteToFile, logs, writer, records>>
    BY <1>7 DEF PassOn, Is
  <2>2. Silent \in [pc : {"idle"}] BY DEF Silent
  <2>3. LoggerTypes' BY <2>1, <2>2 DEF LoggerTypes, logs
  <2>4. logging'[t].pc = "idle" /\ \A u \in Threads \ {t} : logging'[u] = logging[u]
    BY <2>1, <2>2 DEF LoggerTypes
  <2> QED BY <2>1, <2>3, <2>4, OtherThreadsKeep
<1> QED BY <1>1, <1>2, <1>3, <1>4, <1>5, <1>6, <1>7 DEF LogNext

(* However many threads log at once, and whenever the log files are turned *)
(* on or off: while nobody writes, the HTML file holds the records of the  *)
(* log and the error file the errors among them (logger.cpp).              *)
THEOREM LogFilesAgree == LogSpec => []FilesAgree
<1>1. LoggerInv => FilesAgree BY DEF LoggerInv
<1> QED BY <1>1, LoggerStart, LoggerStep, PTL DEF LogSpec

-----------------------------------------------------------------------------
(* Mail: what run() reads is right only if its commands and the replies to *)
(* them stay in step.  The invariant says so for every step: after a step  *)
(* in good order nothing is under way but its own command or its reply, and*)
(* once they are out of step, the next line to come is a refusal (Hopeless)*)
(* or an answer to the greeting that lets nothing pass (Misled).           *)

(* The lines the client has not read yet, wherever they are. *)
Unread == buffer \o replies

Line == [code : Nat, last : BOOLEAN]

Sessions == {"away", "accepted", "greeted", "hello", "user", "password", "authed", "mail",
             "data", "gone"}

Steps == Commands \cup Replied \cup {"idle", "encrypt", "returned"}

MailTypeOK ==
  /\ mode \in [connection : {"ssl", "tls"}, auth : {"plain", "login"}, text : MailTexts]
  /\ pc \in Steps /\ waiting \in BOOLEAN /\ acked \in Nat /\ sent \in {"none", "yes", "no"}
  /\ buffer \in Seq(Line) /\ replies \in Seq(Line) /\ smtp \in Seq(Commands)
  /\ session \in Sessions /\ rcpts \in Nat /\ queued \in Nat

Setup == {"EHLO", "STARTTLS", "EHLO2"}

(* No command is unanswered and no answer unread. *)
Quiet == Len(Unread) = 0 /\ Len(smtp) = 0

(* The first m unread lines are the answer to a step of the connection, if any. *)
SetupAnswer(m) ==
  \/ m = 0
  \/ m = 1 /\ Unread[1].last /\ Unread[1].code \in {220, 250, 500}
  \/ m = 2 /\ ~Unread[1].last /\ Unread[2].last /\ Unread[2].code = 250

(* At most one step of the connection is unanswered, or its answer unread. *)
OneOpen ==
  \/ Quiet /\ session \in {"away", "accepted", "greeted", "hello", "gone"}
  \/ /\ Len(Unread) = 0 /\ Len(smtp) = 1 /\ smtp[1] \in Setup
     /\ session \in {"greeted", "hello", "gone"}
  \/ /\ Len(smtp) = 0 /\ Len(Unread) \in {1, 2} /\ SetupAnswer(Len(Unread))
     /\ session \in {"greeted", "hello", "gone"}

(* The answer to AUTH is out, behind what was left of the connection. *)
AuthOpen ==
  \/ /\ Len(Unread) \in 0..2 /\ SetupAnswer(Len(Unread)) /\ Len(smtp) = 1 /\ smtp[1] = "AUTH"
     /\ session \in {"accepted", "greeted", "hello", "gone"}
     /\ session = "accepted" => Len(Unread) = 0
  \/ /\ Len(Unread) = 0 /\ Len(smtp) = 2 /\ smtp[1] \in Setup /\ smtp[2] = "AUTH"
     /\ session \in {"greeted", "hello", "gone"}
  \/ /\ Len(smtp) = 0
     /\ \E m \in 0..2 :
          /\ Len(Unread) = m + 1 /\ SetupAnswer(m)
          /\ Unread[m + 1].last /\ Unread[m + 1].code \in {235, 334, 500}
     /\ session # "accepted"

(* A step of the login and nothing else is unanswered, or its answer unread. *)
LoginOpen ==
  /\ \/ Len(Unread) = 0 /\ Len(smtp) = 1 /\ smtp[1] \in {"user", "password"}
     \/ /\ Len(smtp) = 0 /\ Len(Unread) = 1
        /\ Unread[1].last /\ Unread[1].code \in {235, 334, 500}
  /\ session # "accepted"

(* The i-th line to come ends a reply that is no consent to a step of a    *)
(* mail.                                                                   *)
Hopeless(i) ==
  IF Len(Unread) >= i THEN Unread[i].last /\ Unread[i].code \notin {250, 354}
  ELSE IF Len(smtp) = 0 THEN session = "gone" \/ (pc = "MAIL" /\ ~waiting /\ session # "authed")
  ELSE \/ session = "gone"
       \/ smtp[1] \in {"STARTTLS", "AUTH", "user", "password"}
       \/ smtp[1] = "MAIL" /\ session # "authed"

(* The next reply is an old consent, and the one after it none. *)
Misled ==
  /\ session # "accepted"
  /\ \/ /\ Len(Unread) = 0 /\ Len(smtp) > 0 /\ smtp[1] \in {"EHLO", "EHLO2"} /\ session # "authed"
        /\ IF Len(smtp) = 1 THEN pc = "MAIL" /\ ~waiting ELSE smtp[2] \in {"AUTH", "MAIL"}
     \/ Len(Unread) > 0 /\ Unread[1].last /\ Unread[1].code = 250 /\ Hopeless(2)
     \/ /\ Len(Unread) >= 2 /\ ~Unread[1].last /\ Unread[2].last /\ Unread[2].code = 250
        /\ Hopeless(3)

(* The command is unanswered, or all that is unread is its answer. *)
Asked(step) ==
  /\ session # "accepted"
  /\ \/ Len(Unread) = 0 /\ Len(smtp) = 1 /\ smtp[1] = step
     \/ Len(smtp) = 0 /\ Len(Unread) = 1 /\ Unread[1].last

Mailing == session \in {"mail", "gone"}

(* The lines of the text come last and only to who waits for them, or has  *)
(* ended the mail at a dot among them.                                     *)
TextLast ==
  \A i \in 1..Len(smtp) : smtp[i] \in {"content", "dot"} =>
    /\ \/ session = "gone"
       \/ session = "data" /\ rcpts = Recipients
       \/ Dotted /\ session = "authed" /\ rcpts = Recipients
    /\ \A j \in 1..(i - 1) : smtp[j] = "content" \/ (Dotted /\ smtp[j] = "dot")

AtIdle == pc = "idle" => ~waiting /\ Quiet /\ session = "away"

AtSetup ==
  pc \in {"greeting", "encrypt"} \cup Setup =>
    IF waiting THEN pc # "encrypt" /\ OneOpen
    ELSE pc # "greeting" /\ Quiet /\ session \in {"greeted", "hello", "gone"}

AtAuth == pc = "AUTH" => IF waiting THEN AuthOpen ELSE OneOpen

AtLogin ==
  pc \in {"user", "password"} => IF waiting THEN LoginOpen ELSE Quiet /\ session # "accepted"

AtMail ==
  pc = "MAIL" =>
    \/ Hopeless(1) \/ Misled
    \/ ~waiting /\ Quiet /\ session # "accepted"
    \/ /\ waiting /\ Asked("MAIL")
       /\ Len(Unread) > 0 /\ Unread[1].code = 250 => Mailing /\ rcpts = 0

AtRcpt ==
  pc = "RCPT" =>
    /\ acked < Recipients
    /\ \/ Hopeless(1)
       \/ ~waiting /\ Quiet /\ Mailing /\ rcpts = acked
       \/ /\ waiting /\ Asked("RCPT") /\ Mailing
          /\ rcpts = IF Len(Unread) > 0 /\ Unread[1].code = 250 THEN acked + 1 ELSE acked

AtData ==
  pc = "DATA" =>
    \/ Hopeless(1)
    \/ ~waiting /\ Quiet /\ Mailing /\ rcpts = Recipients
    \/ /\ waiting /\ Asked("DATA") /\ rcpts = Recipients
       /\ IF Len(Unread) > 0 THEN Unread[1].code = 354 => session \in {"data", "gone"} ELSE Mailing

(* No line of the text is answered, or the first answer says whether the   *)
(* mail was taken over.                                                    *)
AtText ==
  pc \in {"content", "dot"} =>
    /\ pc = "content" => ~waiting /\ Len(smtp) = 0
    /\ \A i \in 1..Len(smtp) : smtp[i] = "content" \/ (smtp[i] = "dot" /\ (waiting \/ Dotted))
    /\ \/ Len(Unread) = 0 /\ session \in {"data", "gone"} /\ rcpts = Recipients
       \/ /\ pc = "dot" /\ (waiting \/ Dotted)
          /\ Len(Unread) > 0 /\ Unread[1].last /\ session \in {"authed", "gone"}
          /\ session = "authed" => rcpts = Recipients
          /\ Unread[1].code = 250 => queued = Recipients

AtEnd ==
  IF pc \in {"QUIT", "returned"}
  THEN /\ ~waiting
       /\ sent = "yes" =>
            /\ queued = Recipients /\ session # "data"
            /\ \A i \in 1..Len(smtp) : smtp[i] \in {"content", "dot", "QUIT"}
  ELSE sent = "none"

(* The text is only among the commands once run() has got that far. *)
NoTextYet ==
  pc \notin {"dot", "QUIT", "returned"} =>
    \A i \in 1..Len(smtp) : smtp[i] \notin {"content", "dot"}

(* RCPT commands are accepted from the first one on. *)
NoneAcked ==
  pc \notin {"RCPT", "DATA", "content", "dot", "QUIT", "returned"} => acked = 0

MailInv ==
  /\ MailTypeOK /\ TextLast /\ NoTextYet /\ NoneAcked
  /\ AtIdle /\ AtSetup /\ AtAuth /\ AtLogin /\ AtMail /\ AtRcpt /\ AtData /\ AtText /\ AtEnd

(* f is the lines of s from the m-th to the n-th. *)
Piece(f, s, m, n) == f = SubSeq(s, m, n)

(* Moving the first k of the lines under way to the buffer keeps the whole. *)
LEMMA Moves ==
  ASSUME NEW R, NEW b \in Seq(R), NEW r \in Seq(R), NEW k \in 0..Len(r),
         NEW f, Piece(f, r, 1, k), NEW g, Piece(g, r, k + 1, Len(r))
  PROVE  b \o f \in Seq(R) /\ g \in Seq(R) /\ Len(b \o f) = Len(b) + k
<1>0. Len(r) \in Nat /\ k \in Nat /\ 1 \in 1..(Len(r) + 1) /\ k \in (1 - 1)..Len(r)
  BY LenProperties
<1>1. \A i \in 1..Len(r) : r[i] \in R BY ElementOfSeq
<1>2. f \in Seq(R) /\ Len(f) = k
  <2>1. \A i \in 1..k : r[i] \in R BY <1>0, <1>1
  <2> QED BY <1>0, <2>1, SubSeqProperties DEF Piece
<1>3. g \in Seq(R)
  <2>1. \A i \in (k + 1)..Len(r) : r[i] \in R BY <1>0, <1>1
  <2> QED BY <1>0, <2>1, SubSeqProperties DEF Piece
<1>4. b \o f \in Seq(R) /\ Len(b \o f) = Len(b) + k BY <1>2, ConcatProperties
<1> QED BY <1>3, <1>4

LEMMA MovesAll ==
  ASSUME NEW R, NEW b \in Seq(R), NEW r \in Seq(R), NEW k \in 0..Len(r),
         NEW f, Piece(f, r, 1, k), NEW g, Piece(g, r, k + 1, Len(r))
  PROVE  (b \o f) \o g = b \o r
<1>0. Len(r) \in Nat /\ k \in Nat /\ 1 \in 1..(Len(r) + 1) /\ k \in (1 - 1)..Len(r)
  BY LenProperties
<1>1. \A i \in 1..Len(r) : r[i] \in R BY ElementOfSeq
<1>2. f \in Seq(R) /\ Len(f) = k
  <2>1. \A i \in 1..k : r[i] \in R BY <1>0, <1>1
  <2> QED BY <1>0, <2>1, SubSeqProperties DEF Piece
<1>3. g \in Seq(R)
  <2>1. \A i \in (k + 1)..Len(r) : r[i] \in R BY <1>0, <1>1
  <2> QED BY <1>0, <2>1, SubSeqProperties DEF Piece
<1>5. f \o g = r
  <2>1. f \o g = SubSeq(r, 1, Len(r))
    <3>1. Len(r) \in k..Len(r) BY <1>0
    <3> QED BY <1>0, <3>1, ConcatAdjacentSubSeq DEF Piece
  <2> QED BY <2>1, SubSeqFull
<1>6. b \in Seq(R) OBVIOUS
<1>7. (b \o f) \o g = b \o (f \o g) BY ONLY <1>2, <1>3, <1>6, ConcatAssociative
<1> QED BY <1>5, <1>7

(* u is what the sequence v has behind its first n elements. *)
Rest(u, v, n) == Len(u) = Len(v) - n /\ \A i \in 1..Len(u) : u[i] = v[i + n]

(* To drop the first n of some lines is to drop them from all. *)
LEMMA Drops ==
  ASSUME NEW R, NEW s \in Seq(R), NEW t \in Seq(R), NEW n \in 0..Len(s),
         NEW g, Piece(g, s, n + 1, Len(s))
  PROVE  g \in Seq(R) /\ Rest(g \o t, s \o t, n)
<1>0. Len(s) \in Nat /\ Len(t) \in Nat /\ n \in Nat BY LenProperties
<1>1. g \in Seq(R) /\ Len(g) = Len(s) - n /\ \A i \in 1..(Len(s) - n) : g[i] = s[n + 1 + i - 1]
  <2>1. \A i \in (n + 1)..Len(s) : s[i] \in R BY <1>0, ElementOfSeq
  <2> QED BY <1>0, <2>1, SubSeqProperties DEF Piece
<1>2. \A i \in 1..(Len(s) - n) : g[i] = s[i + n]
  <2> SUFFICES ASSUME NEW i \in 1..(Len(s) - n) PROVE g[i] = s[i + n] OBVIOUS
  <2>1. n + 1 + i - 1 = i + n BY <1>0
  <2> QED BY <1>1, <2>1
<1>3. Len(g \o t) = Len(g) + Len(t) /\ Len(s \o t) = Len(s) + Len(t) BY <1>1, ConcatProperties
<1>4. ASSUME NEW i \in 1..Len(g \o t) PROVE (g \o t)[i] = (s \o t)[i + n]
  <2>0. i \in 1..(Len(g) + Len(t)) /\ i + n \in 1..(Len(s) + Len(t)) BY <1>0, <1>1, <1>3
  <2>1. (g \o t)[i] = IF i <= Len(g) THEN g[i] ELSE t[i - Len(g)]
    BY <1>1, <2>0, ConcatProperties
  <2>2. (s \o t)[i + n] = IF i + n <= Len(s) THEN s[i + n] ELSE t[i + n - Len(s)]
    BY <2>0, ConcatProperties
  <2>3. i - Len(g) = i + n - Len(s) /\ (i <= Len(g) <=> i + n <= Len(s))
    <3>1. Len(g) \in Int /\ i \in Int /\ Len(g) = Len(s) - n BY <1>0, <1>1, <2>0
    <3> QED BY ONLY <1>0, <3>1
  <2>4. CASE i <= Len(g)
    <3>1. i \in 1..(Len(s) - n) BY <1>0, <1>1, <2>0, <2>4
    <3> QED BY <1>2, <2>1, <2>2, <2>3, <2>4, <3>1
  <2>5. CASE ~(i <= Len(g)) BY <2>1, <2>2, <2>3, <2>5
  <2> QED BY <2>4, <2>5
<1>5. Len(g \o t) = Len(s \o t) - n BY <1>0, <1>1, <1>3
<1> QED BY <1>1, <1>4, <1>5 DEF Rest
(* Every set of natural numbers has a least element. *)
LEMMA Least ==
  ASSUME NEW S \in SUBSET Nat, S # {}
  PROVE  \E n \in S : \A m \in S : ~(m < n)
<1>1. IsWellFoundedOn(OpToRel(<, Nat), Nat) BY NatLessThanWellFounded
<1>2. PICK n \in S : \A m \in S : ~(<<m, n>> \in OpToRel(<, Nat)) BY <1>1, WFMin
<1> QED BY <1>2 DEF OpToRel

LEMMA ReplyEnds ==
  ASSUME NEW lines \in Seq(Line), Len(lines) > 0
  PROVE  /\ lines[1].last => ReplyEnd(lines) = 1
         /\ Len(lines) = 1 => ReplyEnd(lines) = 1
         /\ Len(lines) > 1 /\ ~lines[1].last /\ lines[2].last => ReplyEnd(lines) = 2
         /\ ReplyEnd(lines) \in 1..Len(lines)
<1>1. CASE lines[1].last
  <2>1. 1 \in DOMAIN lines /\ \A i \in DOMAIN lines : i # 1 => i > 1 /\ i \in Nat OBVIOUS
  <2>2. \A i \in DOMAIN lines :
          (lines[i].last /\ \A j \in 1..(i - 1) : ~lines[j].last) <=> i = 1
    BY <1>1, <2>1
  <2>3. ReplyEnd(lines) = 1 BY <1>1, <2>1, <2>2 DEF ReplyEnd
  <2> QED BY <1>1, <2>3
<1>2. CASE ~lines[1].last /\ Len(lines) = 1
  <2>1. \A i \in DOMAIN lines : i = 1 BY <1>2
  <2> QED BY <1>2, <2>1 DEF ReplyEnd
<1>3. CASE Len(lines) > 1 /\ ~lines[1].last /\ lines[2].last
  <2>1. 2 \in DOMAIN lines /\ 1 \in DOMAIN lines BY <1>3
  <2>2. \A i \in DOMAIN lines : i # 1 /\ i # 2 => i > 2 /\ i \in Nat OBVIOUS
  <2>3. \A i \in DOMAIN lines :
          (lines[i].last /\ \A j \in 1..(i - 1) : ~lines[j].last) <=> i = 2
    BY <1>3, <2>1, <2>2
  <2>4. ReplyEnd(lines) = 2 BY <1>3, <2>1, <2>3 DEF ReplyEnd
  <2> QED BY <1>3, <2>4
<1>4. ReplyEnd(lines) \in 1..Len(lines)
  <2> DEFINE S == {i \in DOMAIN lines : lines[i].last}
  <2>1. DOMAIN lines = 1..Len(lines) /\ Len(lines) \in Nat OBVIOUS
  <2>2. CASE S = {}
    <3>1. ~\E i \in DOMAIN lines : lines[i].last BY <2>2
    <3> QED BY <2>1, <3>1 DEF ReplyEnd
  <2>3. CASE S # {}
    <3>1. PICK n \in S : \A m \in S : ~(m < n)
      <4>1. S \subseteq Nat BY <2>1
      <4> QED BY <2>3, <4>1, Least
    <3>2. \A j \in 1..(n - 1) : j \in DOMAIN lines /\ j < n BY <2>1, <3>1
    <3>3. n \in DOMAIN lines /\ lines[n].last /\ \A j \in 1..(n - 1) : ~lines[j].last
      BY <3>1, <3>2
    <3>4. ReplyEnd(lines) \in DOMAIN lines BY <3>3 DEF ReplyEnd
    <3> QED BY <2>1, <3>4
  <2> QED BY <2>2, <2>3
<1> QED BY <1>1, <1>2, <1>3, <1>4

LEMMA UnreadType == MailTypeOK => Unread \in Seq(Line)
BY DEF MailTypeOK, Unread

LEMMA FollowingType ==
  ASSUME MailTypeOK, NEW step \in Replied
  PROVE  Following[step] \in Steps
BY DEF MailTypeOK, Following, Replied, Steps, Commands

LEMMA AbandonType ==
  ASSUME NEW step
  PROVE  Abandon(step) \in {"AUTH", "MAIL", "QUIT", "returned"}
BY DEF Abandon

LEMMA VerdictType ==
  ASSUME MailTypeOK, NEW step, NEW good, Verdict(step, good)
  PROVE  sent' \in {"none", "yes", "no"}
BY DEF MailTypeOK, Verdict

LEMMA ReplyKept ==
  ASSUME MailTypeOK, NEW k \in 0..Len(replies), Absorb(k)
  PROVE  Unread' = Unread /\ buffer' \in Seq(Line) /\ replies' \in Seq(Line)
<1>1. buffer \in Seq(Line) /\ replies \in Seq(Line) BY DEF MailTypeOK
<1>2. PICK f : Piece(f, replies, 1, k) BY DEF Piece
<1>3. PICK g : Piece(g, replies, k + 1, Len(replies)) BY DEF Piece
<1>4. buffer' = buffer \o f /\ replies' = g BY <1>2, <1>3 DEF Absorb, Piece
<1>5. buffer \o f \in Seq(Line) /\ g \in Seq(Line) BY <1>1, <1>2, <1>3, Moves
<1>6. (buffer \o f) \o g = buffer \o replies BY <1>1, <1>2, <1>3, MovesAll
<1>7. buffer' \o replies' = buffer \o replies BY <1>4, <1>6
<1> QED BY <1>4, <1>5, <1>7 DEF Unread

(* sendMessage() leaves the replies as they are and adds its command. *)
LEMMA SendFacts ==
  ASSUME MailTypeOK, NEW step \in Commands, SendMessage(step)
  PROVE  /\ MailTypeOK'
         /\ pc = step /\ ~waiting /\ session # "away" /\ waiting' = (step \in Replied)
         /\ pc' = IF step = "content" THEN "dot" ELSE IF step = "QUIT" THEN "returned" ELSE step
         /\ UNCHANGED <<mode, acked, sent, session, rcpts, queued>>
         /\ Unread' = Unread
         /\ IF step = "content" THEN Len(smtp) = 0 => smtp' = mode.text
            ELSE /\ Len(smtp') = Len(smtp) + 1 /\ smtp'[Len(smtp) + 1] = step
                 /\ \A i \in 1..Len(smtp) : smtp'[i] = smtp[i]
<1>1. smtp \in Seq(Commands) BY DEF MailTypeOK
<1>2. smtp' = smtp \o Written(step) BY DEF SendMessage
<1>3. Written(step) \in Seq(Commands) /\ smtp' \in Seq(Commands)
  <2>1. CASE step = "content"
    <3>1. mode.text \in Seq(TextLines) BY MailAssumption DEF MailTypeOK
    <3>2. TextLines \subseteq Commands BY DEF TextLines, Commands
    <3>3. mode.text \in Seq(Commands) BY <3>1, <3>2
    <3>4. Written(step) = mode.text BY <2>1 DEF Written
    <3> QED BY <1>1, <1>2, <3>3, <3>4, ConcatProperties
  <2>2. CASE step # "content"
    <3>1. Written(step) = <<step>> BY <2>2 DEF Written
    <3> QED BY <1>1, <1>2, <3>1, ConcatProperties
  <2> QED BY <2>1, <2>2
<1>4. ASSUME step = "content", Len(smtp) = 0 PROVE smtp' = mode.text
  <2>1. smtp = <<>> BY <1>1, <1>4, EmptySeq
  <2>2. mode.text \in Seq(Commands) BY <1>3, <1>4 DEF Written
  <2> QED BY <1>2, <1>4, <2>1, <2>2, ConcatEmptySeq DEF Written
<1>5. ASSUME step # "content"
      PROVE  /\ Len(smtp') = Len(smtp) + 1 /\ smtp'[Len(smtp) + 1] = step
             /\ \A i \in 1..Len(smtp) : smtp'[i] = smtp[i]
  <2>1. smtp' = smtp \o <<step>> BY <1>2, <1>5 DEF Written
  <2> QED BY <1>1, <2>1
<1>6. PICK k \in 0..Len(replies) : Absorb(k) BY DEF SendMessage
<1>7. Unread' = Unread /\ buffer' \in Seq(Line) /\ replies' \in Seq(Line) BY <1>6, ReplyKept
<1>8. /\ pc = step /\ ~waiting /\ session # "away" /\ waiting' = (step \in Replied)
      /\ UNCHANGED <<mode, acked, sent, session, rcpts, queued>>
  BY DEF SendMessage, peers
<1>9. pc' = IF step = "content" THEN "dot" ELSE IF step = "QUIT" THEN "returned" ELSE step
  BY DEF SendMessage
<1>10. pc' \in Steps BY <1>9 DEF Steps, Commands
<1>11. MailTypeOK' BY <1>3, <1>7, <1>8, <1>10 DEF MailTypeOK
<1> QED BY <1>4, <1>5, <1>7, <1>8, <1>9, <1>11

(* waitForResponse() reads the first reply, or a line of it. *)
LEMMA ReadFacts ==
  ASSUME MailTypeOK, NEW step \in Replied, WaitForResponse(step)
  PROVE  /\ MailTypeOK'
         /\ pc = step /\ waiting
         /\ UNCHANGED <<mode, smtp, session, rcpts, queued>>
         /\ \E n \in 1..Len(Unread) :
              /\ Rest(Unread', Unread, n)
              /\ Unread[1].last => n = 1
              /\ Len(Unread) > 1 /\ ~Unread[1].last /\ Unread[2].last => n \in 1..2
              /\ Len(Unread) = 1 => n = 1
              /\ IF ~Unread[n].last THEN UNCHANGED <<pc, waiting, sent, acked>>
                 ELSE /\ ~waiting'
                      /\ pc' = IF Good(Unread[n].code, step) THEN Following[step] ELSE Abandon(step)
                      /\ Verdict(step, Good(Unread[n].code, step))
                      /\ acked' = IF step = "RCPT" /\ Good(Unread[n].code, step) THEN acked + 1
                                  ELSE acked
<1>1. buffer \in Seq(Line) /\ replies \in Seq(Line) BY DEF MailTypeOK
<1>2. pc = step /\ waiting /\ UNCHANGED <<mode, smtp, session, rcpts, queued>>
  BY DEF WaitForResponse, peers
<1> DEFINE lines(k) == buffer \o SubSeq(replies, 1, k)
           n(k) == ReplyEnd(lines(k))
<1>3. PICK k \in 1..Len(replies) :
        /\ buffer' = SubSeq(lines(k), n(k) + 1, Len(lines(k)))
        /\ replies' = SubSeq(replies, k + 1, Len(replies))
        /\ IF ~lines(k)[n(k)].last THEN UNCHANGED <<pc, waiting, sent, acked>>
           ELSE /\ waiting' = FALSE
                /\ pc' = IF Good(lines(k)[n(k)].code, step) THEN Following[step] ELSE Abandon(step)
                /\ Verdict(step, Good(lines(k)[n(k)].code, step))
                /\ acked' = IF step = "RCPT" /\ Good(lines(k)[n(k)].code, step) THEN acked + 1
                            ELSE acked
  BY DEF WaitForResponse
<1>4. k \in 0..Len(replies) BY <1>3
<1>5. PICK f : Piece(f, replies, 1, k) BY DEF Piece
<1>6. PICK rest : Piece(rest, replies, k + 1, Len(replies)) BY DEF Piece
<1>a. PICK l : l = buffer \o f OBVIOUS
<1>b. l = lines(k) BY <1>5, <1>a DEF Piece
<1>7. /\ l \in Seq(Line) /\ rest \in Seq(Line) /\ l \o rest = Unread /\ Len(l) > 0
      /\ Len(Unread) = Len(l) + Len(rest) /\ Len(rest) \in Nat
      /\ \A i \in 1..Len(l) : Unread[i] = l[i]
  <2>0. (buffer \o f) \o rest = buffer \o replies BY <1>1, <1>4, <1>5, <1>6, MovesAll
  <2>1. buffer \o f \in Seq(Line) /\ rest \in Seq(Line) /\ Len(buffer \o f) = Len(buffer) + k
    BY <1>1, <1>4, <1>5, <1>6, Moves
  <2>2. l \o rest = Unread BY <1>a, <2>0 DEF Unread
  <2>3. l \in Seq(Line) /\ Len(l) > 0 BY <1>1, <1>3, <1>a, <2>1, LenProperties
  <2>4. Len(l \o rest) = Len(l) + Len(rest) /\ \A i \in 1..(Len(l) + Len(rest)) :
          (l \o rest)[i] = IF i <= Len(l) THEN l[i] ELSE rest[i - Len(l)]
    BY <2>1, <2>3, ConcatProperties
  <2>5. Len(l) \in Nat /\ Len(rest) \in Nat BY <2>1, <2>3, LenProperties
  <2>6. \A i \in 1..Len(l) : (l \o rest)[i] = l[i] BY <2>4, <2>5
  <2> QED BY <2>1, <2>2, <2>3, <2>4, <2>5, <2>6
<1> HIDE DEF lines
<1>9. PICK m : m = ReplyEnd(l) OBVIOUS
<1>10. /\ l[1].last => m = 1
       /\ Len(l) = 1 => m = 1
       /\ Len(l) > 1 /\ ~l[1].last /\ l[2].last => m = 2
       /\ m \in 1..Len(l)
  BY <1>7, <1>9, ReplyEnds
<1>11. /\ buffer' = SubSeq(l, m + 1, Len(l)) /\ replies' = rest
       /\ IF ~l[m].last THEN UNCHANGED <<pc, waiting, sent, acked>>
          ELSE /\ waiting' = FALSE
               /\ pc' = IF Good(l[m].code, step) THEN Following[step] ELSE Abandon(step)
               /\ Verdict(step, Good(l[m].code, step))
               /\ acked' = IF step = "RCPT" /\ Good(l[m].code, step) THEN acked + 1 ELSE acked
  BY <1>3, <1>6, <1>9, <1>b DEF Piece
<1>12. l[m] = Unread[m] /\ m \in 1..Len(Unread) /\ Len(rest) \in Nat BY <1>7, <1>10
<1>13. buffer' \in Seq(Line) /\ Rest(Unread', Unread, m)
  <2>1. m \in 0..Len(l) BY <1>10
  <2>2. PICK g : Piece(g, l, m + 1, Len(l)) BY DEF Piece
  <2>3. g \in Seq(Line) /\ Rest(g \o rest, l \o rest, m)
    <3>1. l \in Seq(Line) /\ rest \in Seq(Line) BY <1>7
    <3> QED BY ONLY <2>1, <2>2, <3>1, Drops
  <2>4. buffer' = g /\ Unread' = g \o rest BY <1>11, <2>2 DEF Unread, Piece
  <2> QED BY <1>7, <2>3, <2>4
<1>14. /\ Unread[1].last => m = 1
       /\ Len(Unread) > 1 /\ ~Unread[1].last /\ Unread[2].last => m \in 1..2
       /\ Len(Unread) = 1 => m = 1
  <2>1. Unread[1] = l[1] BY <1>7
  <2>3. CASE Len(l) > 1
    <3>1. Unread[2] = l[2] /\ Len(Unread) > 1 BY <1>7, <1>12, <2>3
    <3> QED BY <1>10, <2>1, <2>3, <3>1
  <2>4. Len(l) \in Nat BY <1>7, LenProperties
  <2>a. Len(l) > 0 BY <1>7
  <2>b. \A q \in Nat : q > 0 => q = 1 \/ q > 1 OBVIOUS
  <2>5. Len(l) = 1 \/ Len(l) > 1 BY ONLY <2>4, <2>a, <2>b
  <2>6. CASE Len(l) = 1 BY <1>10, <2>6
  <2> QED BY <2>3, <2>5, <2>6
<1>15. MailTypeOK'
  <2>1. buffer' \in Seq(Line) /\ replies' \in Seq(Line) BY <1>7, <1>11, <1>13
  <2>2. pc' \in Steps /\ waiting' \in BOOLEAN /\ acked' \in Nat /\ sent' \in {"none", "yes", "no"}
    <3>1. CASE l[m].last
      <4>1. Following[step] \in Steps /\ Abandon(step) \in Steps
        BY FollowingType, AbandonType DEF Steps, Commands
      <4>2. sent' \in {"none", "yes", "no"} BY <1>11, <3>1, VerdictType
      <4>3. pc' \in Steps /\ waiting' = FALSE BY <1>11, <3>1, <4>1
      <4>4. acked' = acked \/ acked' = acked + 1 BY <1>11, <3>1
      <4>5. acked \in Nat BY DEF MailTypeOK
      <4>6. acked' \in Nat BY <4>4, <4>5
      <4>7. waiting' \in BOOLEAN BY <4>3
      <4> QED BY <4>2, <4>3, <4>6, <4>7
    <3>2. CASE ~l[m].last BY <1>11, <3>2 DEF MailTypeOK
    <3> QED BY <3>1, <3>2
  <2> QED BY <1>2, <2>1, <2>2 DEF MailTypeOK
<1>16. /\ Rest(Unread', Unread, m)
       /\ Unread[1].last => m = 1
       /\ Len(Unread) > 1 /\ ~Unread[1].last /\ Unread[2].last => m \in 1..2
       /\ Len(Unread) = 1 => m = 1
       /\ IF ~Unread[m].last THEN UNCHANGED <<pc, waiting, sent, acked>>
          ELSE /\ ~waiting'
               /\ pc' = IF Good(Unread[m].code, step) THEN Following[step] ELSE Abandon(step)
               /\ Verdict(step, Good(Unread[m].code, step))
               /\ acked' = IF step = "RCPT" /\ Good(Unread[m].code, step) THEN acked + 1
                           ELSE acked
  BY <1>11, <1>12, <1>13, <1>14
<1> QED BY <1>2, <1>12, <1>15, <1>16

(* u is the sequence v with more behind it. *)
Grows(u, v, more) ==
  /\ Len(u) = Len(v) + Len(more)
  /\ \A i \in 1..Len(v) : u[i] = v[i]
  /\ \A i \in 1..Len(more) : u[Len(v) + i] = more[i]

LEMMA Adds ==
  ASSUME NEW R, NEW b \in Seq(R), NEW r \in Seq(R), NEW more \in Seq(R)
  PROVE  r \o more \in Seq(R) /\ Grows(b \o (r \o more), b \o r, more)
<1>1. PICK s : s = b \o r OBVIOUS
<1>2. s \in Seq(R) /\ r \o more \in Seq(R) BY <1>1, ConcatProperties
<1>3. b \o (r \o more) = s \o more BY <1>1, ConcatAssociative
<1>4. Len(s \o more) = Len(s) + Len(more) BY <1>2, ConcatProperties
<1>5. Len(s) \in Nat /\ Len(more) \in Nat BY <1>2, LenProperties
<1>6. ASSUME NEW i \in 1..Len(s) PROVE (s \o more)[i] = s[i]
  <2>1. i \in 1..(Len(s) + Len(more)) /\ i <= Len(s) BY <1>5
  <2> QED BY <1>2, <2>1, ConcatProperties
<1>7. ASSUME NEW i \in 1..Len(more) PROVE (s \o more)[Len(s) + i] = more[i]
  <2>1. Len(s) + i \in 1..(Len(s) + Len(more)) /\ ~(Len(s) + i <= Len(s)) BY <1>5
  <2>2. Len(s) + i - Len(s) = i BY <1>5
  <2> QED BY <1>2, <2>1, <2>2, ConcatProperties
<1>8. Grows(s \o more, s, more) BY <1>4, <1>6, <1>7 DEF Grows
<1> QED BY <1>1, <1>2, <1>3, <1>8

LEMMA ReplyFacts ==
  ASSUME MailTypeOK, NEW lines \in Seq(Line), Reply(lines), buffer' = buffer
  PROVE  replies' \in Seq(Line) /\ Grows(Unread', Unread, lines)
<1>1. buffer \in Seq(Line) /\ replies \in Seq(Line) BY DEF MailTypeOK
<1>2. replies \o lines \in Seq(Line) /\ Grows(buffer \o (replies \o lines), buffer \o replies, lines)
  BY <1>1, Adds
<1> QED BY <1>2 DEF Reply, Unread

LEMMA OneLine ==
  ASSUME NEW c \in Nat
  PROVE  /\ <<LastLine(c)>> \in Seq(Line) /\ Len(<<LastLine(c)>>) = 1
         /\ <<LastLine(c)>>[1] = LastLine(c) /\ LastLine(c).last /\ LastLine(c).code = c
BY DEF LastLine, Line

LEMMA Heads == smtp # <<>> => Head(smtp) = smtp[1]
OBVIOUS

LEMMA Setups ==
  ASSUME smtp # <<>>
  PROVE  /\ smtp[1] \in {"EHLO", "EHLO2"} =>
              Granted = <<"hello", <<[code |-> 250, last |-> FALSE], LastLine(250)>>>>
         /\ smtp[1] = "STARTTLS" => \/ Granted = <<"greeted", <<LastLine(220)>>>>
                                    \/ Granted = <<session, Refuse>>
<1>1. smtp[1] = "EHLO" =>
        Granted = <<"hello", <<[code |-> 250, last |-> FALSE], LastLine(250)>>>>
  BY Heads DEF Granted
<1>2. smtp[1] = "EHLO2" =>
        Granted = <<"hello", <<[code |-> 250, last |-> FALSE], LastLine(250)>>>>
  BY Heads DEF Granted
<1>3. smtp[1] = "STARTTLS" =>
        Granted = <<"greeted", <<LastLine(220)>>>> \/ Granted = <<session, Refuse>>
  BY Heads DEF Granted
<1> QED BY <1>1, <1>2, <1>3

LEMMA Logins ==
  ASSUME smtp # <<>>
  PROVE  smtp[1] \in {"AUTH", "user", "password"} =>
           \/ Granted = <<"user", <<LastLine(334)>>>> \/ Granted = <<"authed", <<LastLine(235)>>>>
           \/ Granted = <<"password", <<LastLine(334)>>>> \/ Granted = <<session, Refuse>>
<1>1. smtp[1] = "AUTH" =>
        \/ Granted = <<"user", <<LastLine(334)>>>> \/ Granted = <<"authed", <<LastLine(235)>>>>
        \/ Granted = <<session, Refuse>>
  BY Heads DEF Granted
<1>2. smtp[1] = "user" =>
        Granted = <<"password", <<LastLine(334)>>>> \/ Granted = <<session, Refuse>>
  BY Heads DEF Granted
<1>3. smtp[1] = "password" =>
        Granted = <<"authed", <<LastLine(235)>>>> \/ Granted = <<session, Refuse>>
  BY Heads DEF Granted
<1> QED BY <1>1, <1>2, <1>3

LEMMA Transactions ==
  ASSUME smtp # <<>>
  PROVE  /\ smtp[1] = "MAIL" =>
              IF session = "authed" THEN Granted = <<"mail", <<LastLine(250)>>>>
              ELSE Granted = <<session, Refuse>>
         /\ smtp[1] = "RCPT" =>
              IF session = "mail" THEN Granted = <<"mail", <<LastLine(250)>>>>
              ELSE Granted = <<session, Refuse>>
         /\ smtp[1] = "DATA" =>
              IF session = "mail" /\ rcpts > 0 THEN Granted = <<"data", <<LastLine(354)>>>>
              ELSE Granted = <<session, Refuse>>
<1>1. smtp[1] = "MAIL" =>
        IF session = "authed" THEN Granted = <<"mail", <<LastLine(250)>>>>
        ELSE Granted = <<session, Refuse>>
  BY Heads DEF Granted
<1>2. smtp[1] = "RCPT" =>
        IF session = "mail" THEN Granted = <<"mail", <<LastLine(250)>>>>
        ELSE Granted = <<session, Refuse>>
  BY Heads DEF Granted
<1>3. smtp[1] = "DATA" =>
        IF session = "mail" /\ rcpts > 0 THEN Granted = <<"data", <<LastLine(354)>>>>
        ELSE Granted = <<session, Refuse>>
  BY Heads DEF Granted
<1> QED BY <1>1, <1>2, <1>3

LEMMA Texts ==
  ASSUME smtp # <<>>
  PROVE  /\ smtp[1] = "content" =>
              IF session = "data" THEN Granted = <<"data", <<>>>> ELSE Granted = <<session, Refuse>>
         /\ smtp[1] = "dot" =>
              IF session = "data" THEN Granted = <<"authed", <<LastLine(250)>>>>
              ELSE Granted = <<session, Refuse>>
         /\ smtp[1] = "QUIT" => Granted = <<"gone", <<LastLine(221)>>>>
<1>1. smtp[1] = "content" =>
        IF session = "data" THEN Granted = <<"data", <<>>>> ELSE Granted = <<session, Refuse>>
  BY Heads DEF Granted
<1>2. smtp[1] = "dot" =>
        IF session = "data" THEN Granted = <<"authed", <<LastLine(250)>>>>
        ELSE Granted = <<session, Refuse>>
  BY Heads DEF Granted
<1>3. smtp[1] = "QUIT" => Granted = <<"gone", <<LastLine(221)>>>>
  BY Heads DEF Granted
<1> QED BY <1>1, <1>2, <1>3

(* What the answer of one line does to whom it answers. *)
Effect(h, l) ==
  /\ l.last /\ session' # "accepted" /\ h # "content"
  /\ h \in {"EHLO", "EHLO2"} => l.code = 500
  /\ h = "STARTTLS" => l.code \in {220, 500}
  /\ h \in Setup /\ session \in {"greeted", "hello"} => session' \in {"greeted", "hello"}
  /\ h \in {"AUTH", "user", "password"} => l.code \in {235, 334, 500}
  /\ h = "MAIL" =>
       \/ l.code = 500
       \/ l.code = 250 /\ session = "authed" /\ session' = "mail" /\ rcpts' = 0
  /\ h = "RCPT" =>
       /\ session = "mail" => session' = "mail"
       /\ \/ l.code = 500 /\ rcpts' = rcpts
          \/ l.code = 250 /\ session' = "mail" /\ rcpts' = rcpts + 1
  /\ h = "DATA" => rcpts' = rcpts /\ (l.code = 500 \/ (l.code = 354 /\ session' = "data"))
  /\ h \in {"dot", "QUIT"} => session' # "data"
  /\ h = "dot" =>
       /\ session \in {"data", "authed"} => session' = "authed" /\ rcpts' = rcpts
       /\ l.code = 500 \/ (l.code = 250 /\ queued' = rcpts)
  /\ h # "dot" \/ session # "data" => queued' = queued

(* The server takes the next command and answers with one line, with the    *)
(* two of an EHLO, or with none to a line of the text.                      *)
LEMMA ServeFacts ==
  ASSUME MailTypeOK, Serve
  PROVE  /\ MailTypeOK'
         /\ Len(smtp) > 0 /\ session \notin {"away", "accepted", "gone"}
         /\ UNCHANGED <<mode, pc, waiting, acked, sent>>
         /\ Rest(smtp', smtp, 1)
         /\ \/ /\ smtp[1] \in {"EHLO", "EHLO2"} /\ session' = "hello" /\ UNCHANGED queued
               /\ Grows(Unread', Unread, <<[code |-> 250, last |-> FALSE], LastLine(250)>>)
            \/ /\ smtp[1] = "content" /\ session = "data" /\ UNCHANGED <<session, rcpts, queued>>
               /\ Grows(Unread', Unread, <<>>)
            \/ /\ smtp[1] = "content" /\ session # "data" /\ UNCHANGED <<session, rcpts, queued>>
               /\ \E l \in Line : Grows(Unread', Unread, <<l>>)
            \/ \E l \in Line : Grows(Unread', Unread, <<l>>) /\ Effect(smtp[1], l)
<1>1. /\ smtp # <<>> /\ session \notin {"away", "accepted", "gone"} /\ smtp' = Tail(smtp)
      /\ UNCHANGED <<mode, pc, waiting, acked, sent, buffer>>
  BY DEF Serve
<1>2. smtp \in Seq(Commands) /\ session \in Sessions /\ rcpts \in Nat /\ queued \in Nat
  BY DEF MailTypeOK
<1>3. Len(smtp) > 0 /\ smtp' \in Seq(Commands) /\ Rest(smtp', smtp, 1)
  BY <1>1, <1>2, HeadTailProperties, LenProperties, EmptySeq DEF Rest
<1>4. smtp[1] \in Commands BY <1>2, <1>3, ElementOfSeq, LenProperties
<1>5. Refuse \in Seq(Line) /\ Refuse = <<LastLine(500)>> /\ LastLine(500) \in Line
      /\ LastLine(500).last /\ LastLine(500).code = 500
  BY OneLine DEF Refuse, LastLine, Line
<1>6. ASSUME smtp[1] # "content", Reply(Refuse),
             session' = Refused \/ (session' = session /\ (smtp[1] = "dot" => session # "data")),
             smtp[1] = "QUIT" => session' = Refused,
             UNCHANGED <<rcpts, queued>>
      PROVE  MailTypeOK' /\ \E l \in Line : Grows(Unread', Unread, <<l>>) /\ Effect(smtp[1], l)
  <2>1. replies' \in Seq(Line) /\ Grows(Unread', Unread, <<LastLine(500)>>)
    BY <1>1, <1>5, <1>6, ReplyFacts
  <2>2. session' \in Sessions /\ session' # "accepted"
        /\ (session \in {"greeted", "hello", "mail", "authed"} => session' = session)
        /\ (smtp[1] \in {"dot", "QUIT"} => session' # "data")
        /\ (smtp[1] = "dot" /\ session = "data" => session' = "authed")
    BY <1>1, <1>2, <1>6 DEF Refused, Sessions
  <2>3. Effect(smtp[1], LastLine(500)) BY <1>5, <1>6, <2>2 DEF Effect
  <2>4. MailTypeOK' BY <1>1, <1>2, <1>3, <1>6, <2>1, <2>2 DEF MailTypeOK
  <2> QED BY <1>5, <2>1, <2>3, <2>4
<1>7. CASE smtp[1] # "content" /\ Reply(Refuse) /\ session' = Refused /\ UNCHANGED <<rcpts, queued>>
  BY <1>1, <1>3, <1>6, <1>7
<1>8. CASE /\ Reply(Granted[2]) /\ session' = Granted[1]
           /\ rcpts' = CASE Granted = <<"mail", <<LastLine(250)>>>> ->
                              IF Head(smtp) = "RCPT" THEN rcpts + 1 ELSE 0
                         [] OTHER -> rcpts
           /\ queued' = IF Head(smtp) = "dot" /\ session = "data" THEN rcpts ELSE queued
  <2>1. queued' = (IF smtp[1] = "dot" /\ session = "data" THEN rcpts ELSE queued) /\ queued' \in Nat
    BY <1>1, <1>2, <1>8, Heads
  <2>2. Granted = <<"mail", <<LastLine(250)>>>> => rcpts' = IF smtp[1] = "RCPT" THEN rcpts + 1 ELSE 0
    BY <1>1, <1>8, Heads
  <2>3. Granted # <<"mail", <<LastLine(250)>>>> => rcpts' = rcpts BY <1>8
  <2>4. rcpts' \in Nat BY <1>2, <2>2, <2>3
  <2>5. ASSUME NEW c \in Nat, NEW s \in Sessions, Granted = <<s, <<LastLine(c)>>>>
        PROVE  /\ Grows(Unread', Unread, <<LastLine(c)>>) /\ session' = s /\ MailTypeOK'
               /\ LastLine(c) \in Line /\ LastLine(c).last /\ LastLine(c).code = c
    <3>1. Reply(<<LastLine(c)>>) /\ session' = s BY <1>8, <2>5
    <3>2. <<LastLine(c)>> \in Seq(Line) BY OneLine
    <3>3. replies' \in Seq(Line) /\ Grows(Unread', Unread, <<LastLine(c)>>)
      BY <1>1, <3>1, <3>2, ReplyFacts
    <3>4. MailTypeOK' BY <1>1, <1>2, <1>3, <2>1, <2>4, <3>1, <3>3 DEF MailTypeOK
    <3>5. LastLine(c) \in Line /\ LastLine(c).last /\ LastLine(c).code = c
      BY DEF LastLine, Line
    <3> QED BY <3>1, <3>3, <3>4, <3>5
  <2>6. CASE Granted = <<session, Refuse>> /\ smtp[1] \notin {"content", "QUIT"}
             /\ ~(smtp[1] = "dot" /\ session = "data")
    <3>1. <<LastLine(500)>> # <<LastLine(250)>> BY DEF LastLine
    <3>2. Granted # <<"mail", <<LastLine(250)>>>> BY <1>5, <2>6, <3>1
    <3>3. Reply(Refuse) /\ session' = session /\ rcpts' = rcpts /\ queued' = queued
      BY <1>8, <2>1, <2>3, <2>6, <3>2
    <3> QED BY <1>1, <1>3, <1>6, <2>6, <3>3
  <2>7. CASE smtp[1] \in {"EHLO", "EHLO2"}
    <3> DEFINE two == <<[code |-> 250, last |-> FALSE], LastLine(250)>>
    <3>1. Granted = <<"hello", two>> BY <1>1, <2>7, Setups
    <3>2. two \in Seq(Line) BY DEF LastLine, Line
    <3>3. Reply(two) /\ session' = "hello" BY <1>8, <3>1
    <3>4. replies' \in Seq(Line) /\ Grows(Unread', Unread, two) BY <1>1, <3>2, <3>3, ReplyFacts
    <3>5. MailTypeOK' BY <1>1, <1>2, <1>3, <2>1, <2>4, <3>3, <3>4 DEF MailTypeOK, Sessions
    <3> QED BY <1>1, <1>3, <2>1, <2>7, <3>3, <3>4, <3>5
  <2>8. CASE smtp[1] = "STARTTLS"
    <3>1. CASE Granted = <<"greeted", <<LastLine(220)>>>>
      <4>1. /\ Grows(Unread', Unread, <<LastLine(220)>>) /\ session' = "greeted" /\ MailTypeOK'
            /\ LastLine(220) \in Line /\ LastLine(220).last /\ LastLine(220).code = 220
        BY <2>5, <3>1 DEF Sessions
      <4>2. Effect(smtp[1], LastLine(220)) BY <2>1, <2>8, <4>1 DEF Effect
      <4> QED BY <1>1, <1>3, <4>1, <4>2
    <3> QED BY <1>1, <2>6, <2>8, <3>1, Setups
  <2>9. CASE smtp[1] \in {"AUTH", "user", "password"}
    <3>1. ASSUME NEW c \in {235, 334}, NEW s \in {"user", "password", "authed"},
                 Granted = <<s, <<LastLine(c)>>>>
          PROVE  MailTypeOK' /\ \E l \in Line : Grows(Unread', Unread, <<l>>) /\ Effect(smtp[1], l)
      <4>1. /\ Grows(Unread', Unread, <<LastLine(c)>>) /\ session' = s /\ MailTypeOK'
            /\ LastLine(c) \in Line /\ LastLine(c).last /\ LastLine(c).code = c
        BY <2>5, <3>1 DEF Sessions
      <4>2. Effect(smtp[1], LastLine(c)) BY <2>1, <2>9, <4>1, <3>1 DEF Effect, Setup
      <4> QED BY <4>1, <4>2
    <3> QED BY <1>1, <1>3, <2>6, <2>9, <3>1, Logins
  <2>10. CASE smtp[1] \in {"MAIL", "RCPT"}
    <3>1. CASE Granted = <<"mail", <<LastLine(250)>>>> /\ session = IF smtp[1] = "MAIL" THEN "authed" ELSE "mail"
      <4>1. /\ Grows(Unread', Unread, <<LastLine(250)>>) /\ session' = "mail" /\ MailTypeOK'
            /\ LastLine(250) \in Line /\ LastLine(250).last /\ LastLine(250).code = 250
        BY <2>5, <3>1 DEF Sessions
      <4>2. Effect(smtp[1], LastLine(250)) BY <2>1, <2>2, <2>10, <3>1, <4>1 DEF Effect, Setup
      <4> QED BY <1>1, <1>3, <4>1, <4>2
    <3> QED BY <1>1, <2>6, <2>10, <3>1, Transactions
  <2>11. CASE smtp[1] = "DATA"
    <3>1. CASE Granted = <<"data", <<LastLine(354)>>>>
      <4>1. /\ Grows(Unread', Unread, <<LastLine(354)>>) /\ session' = "data" /\ MailTypeOK'
            /\ LastLine(354) \in Line /\ LastLine(354).last /\ LastLine(354).code = 354
        BY <2>5, <3>1 DEF Sessions
      <4>2. rcpts' = rcpts BY <2>3, <3>1
      <4>3. Effect(smtp[1], LastLine(354)) BY <2>1, <2>11, <4>1, <4>2 DEF Effect, Setup
      <4> QED BY <1>1, <1>3, <4>1, <4>3
    <3> QED BY <1>1, <2>6, <2>11, <3>1, Transactions
  <2>12. CASE smtp[1] = "content" /\ session = "data"
    <3>1. Granted = <<"data", <<>>>> BY <1>1, <2>12, Texts
    <3>2. Reply(<<>>) /\ session' = "data" /\ rcpts' = rcpts /\ queued' = queued
      BY <1>8, <2>1, <2>3, <2>12, <3>1
    <3>3. <<>> \in Seq(Line) BY EmptySeq
    <3>4. replies' \in Seq(Line) /\ Grows(Unread', Unread, <<>>) BY <1>1, <3>2, <3>3, ReplyFacts
    <3>5. MailTypeOK' BY <1>1, <1>2, <1>3, <2>12, <3>2, <3>4 DEF MailTypeOK
    <3> QED BY <1>1, <1>3, <2>12, <3>2, <3>4, <3>5
  <2>13. CASE smtp[1] = "content" /\ session # "data"
    <3>1. Granted = <<session, Refuse>> BY <1>1, <2>13, Texts
    <3>2. <<LastLine(500)>> # <<LastLine(250)>> BY DEF LastLine
    <3>3. Reply(Refuse) /\ session' = session /\ rcpts' = rcpts /\ queued' = queued
      BY <1>5, <1>8, <2>1, <2>3, <2>13, <3>1, <3>2
    <3>4. replies' \in Seq(Line) /\ Grows(Unread', Unread, <<LastLine(500)>>)
      BY <1>1, <1>5, <3>3, ReplyFacts
    <3>5. MailTypeOK' BY <1>1, <1>2, <1>3, <3>3, <3>4 DEF MailTypeOK
    <3> QED BY <1>1, <1>3, <1>5, <2>13, <3>3, <3>4, <3>5
  <2>14. CASE smtp[1] = "dot"
    <3>1. CASE Granted = <<"authed", <<LastLine(250)>>>> /\ session = "data"
      <4>1. /\ Grows(Unread', Unread, <<LastLine(250)>>) /\ session' = "authed" /\ MailTypeOK'
            /\ LastLine(250) \in Line /\ LastLine(250).last /\ LastLine(250).code = 250
        BY <2>5, <3>1 DEF Sessions
      <4>2. rcpts' = rcpts BY <2>3, <3>1
      <4>3. Effect(smtp[1], LastLine(250)) BY <2>1, <2>14, <3>1, <4>1, <4>2 DEF Effect, Setup
      <4> QED BY <1>1, <1>3, <4>1, <4>3
    <3> QED BY <1>1, <2>6, <2>14, <3>1, Texts
  <2>15. CASE smtp[1] = "QUIT"
    <3>1. Granted = <<"gone", <<LastLine(221)>>>> BY <1>1, <2>15, Texts
    <3>2. /\ Grows(Unread', Unread, <<LastLine(221)>>) /\ session' = "gone" /\ MailTypeOK'
          /\ LastLine(221) \in Line /\ LastLine(221).last /\ LastLine(221).code = 221
      BY <2>5, <3>1 DEF Sessions
    <3>3. Effect(smtp[1], LastLine(221)) BY <2>1, <2>15, <3>2 DEF Effect, Setup
    <3> QED BY <1>1, <1>3, <3>2, <3>3
  <2> QED BY <1>4, <2>7, <2>8, <2>9, <2>10, <2>11, <2>12, <2>13, <2>14, <2>15 DEF Commands
<1>9. \/ /\ Reply(Granted[2]) /\ session' = Granted[1]
         /\ rcpts' = CASE Granted = <<"mail", <<LastLine(250)>>>> ->
                            IF Head(smtp) = "RCPT" THEN rcpts + 1 ELSE 0
                       [] OTHER -> rcpts
         /\ queued' = IF Head(smtp) = "dot" /\ session = "data" THEN rcpts ELSE queued
      \/ /\ Head(smtp) # "content" /\ Reply(Refuse) /\ session' = Refused
         /\ UNCHANGED <<rcpts, queued>>
  BY DEF Serve
<1> QED BY <1>1, <1>7, <1>8, <1>9, Heads

(* What is said of run() at one step holds while it is at another. *)
LEMMA Elsewhere ==
  /\ pc' # "idle" => AtIdle'
  /\ pc' \notin {"greeting", "encrypt"} \cup Setup => AtSetup'
  /\ pc' # "AUTH" => AtAuth'
  /\ pc' \notin {"user", "password"} => AtLogin'
  /\ pc' # "MAIL" => AtMail'
  /\ pc' # "RCPT" => AtRcpt'
  /\ pc' # "DATA" => AtData'
  /\ pc' \notin {"content", "dot"} => AtText'
  /\ pc' \notin {"QUIT", "returned"} /\ sent' = "none" => AtEnd'
<1>1. pc' # "idle" => AtIdle' BY DEF AtIdle
<1>2. pc' \notin {"greeting", "encrypt"} \cup Setup => AtSetup' BY DEF AtSetup
<1>3. pc' # "AUTH" => AtAuth' BY DEF AtAuth
<1>4. pc' \notin {"user", "password"} => AtLogin' BY DEF AtLogin
<1>5. pc' # "MAIL" => AtMail' BY DEF AtMail
<1>6. pc' # "RCPT" => AtRcpt' BY DEF AtRcpt
<1>7. pc' # "DATA" => AtData' BY DEF AtData
<1>8. pc' \notin {"content", "dot"} => AtText' BY DEF AtText
<1>9. pc' \notin {"QUIT", "returned"} /\ sent' = "none" => AtEnd' BY DEF AtEnd
<1> QED BY <1>1, <1>2, <1>3, <1>4, <1>5, <1>6, <1>7, <1>8, <1>9

LEMMA Lengths == MailTypeOK => Len(Unread) \in Nat /\ Len(smtp) \in Nat
<1> SUFFICES ASSUME MailTypeOK PROVE Len(Unread) \in Nat /\ Len(smtp) \in Nat OBVIOUS
<1>1. Unread \in Seq(Line) BY UnreadType
<1>2. smtp \in Seq(Commands) BY DEF MailTypeOK
<1> QED BY <1>1, <1>2, LenProperties

LEMMA AfterSend ==
  ASSUME MailInv, NEW step \in Commands, SendMessage(step)
  PROVE  MailInv'
<1>0. /\ MailTypeOK /\ TextLast /\ NoTextYet /\ NoneAcked /\ AtIdle /\ AtSetup /\ AtAuth /\ AtLogin /\ AtMail
      /\ AtRcpt /\ AtData /\ AtText /\ AtEnd
  BY DEF MailInv
<1>1. /\ MailTypeOK'
      /\ pc = step /\ ~waiting /\ session # "away" /\ waiting' = (step \in Replied)
      /\ pc' = IF step = "content" THEN "dot" ELSE IF step = "QUIT" THEN "returned" ELSE step
      /\ UNCHANGED <<mode, acked, sent, session, rcpts, queued>>
      /\ Unread' = Unread
  BY <1>0, SendFacts
<1>b. IF step = "content" THEN Len(smtp) = 0 => smtp' = mode.text
      ELSE /\ Len(smtp') = Len(smtp) + 1 /\ smtp'[Len(smtp) + 1] = step
           /\ \A i \in 1..Len(smtp) : smtp'[i] = smtp[i]
  BY <1>0, SendFacts
<1>2. Len(Unread) \in Nat /\ Len(smtp) \in Nat BY <1>0, Lengths
<1>a. NoneAcked' BY <1>0, <1>1 DEF NoneAcked
<1>3. CASE step \in Setup
  <2>1. pc' \in Setup /\ waiting' /\ sent' = "none" BY <1>0, <1>1, <1>3 DEF Setup, Replied, AtEnd
  <2>2. Len(Unread) = 0 /\ Len(smtp) = 0 /\ session \in {"greeted", "hello", "gone"}
    BY <1>0, <1>1, <1>3 DEF AtSetup, Quiet, Setup
  <2>3. TextLast' /\ NoTextYet' BY <1>1, <1>b, <1>3, <2>2 DEF TextLast, Dotted, NoTextYet, Setup
  <2>4. AtSetup' BY <1>1, <1>b, <1>3, <2>1, <2>2 DEF AtSetup, OneOpen, Setup
  <2> QED BY <1>1, <1>a, <2>1, <2>3, <2>4, Elsewhere DEF MailInv, Setup
<1>4. CASE step = "AUTH"
  <2>1. pc' = "AUTH" /\ waiting' /\ sent' = "none" BY <1>0, <1>1, <1>4 DEF Replied, AtEnd
  <2>2. OneOpen BY <1>0, <1>1, <1>4 DEF AtAuth
  <2>3. TextLast' /\ NoTextYet' BY <1>0, <1>1, <1>b, <1>2, <1>4 DEF TextLast, Dotted, NoTextYet
  <2>4. AuthOpen'
    <3>1. CASE Quiet /\ session \in {"away", "accepted", "greeted", "hello", "gone"}
      BY <1>1, <1>b, <1>2, <1>4, <3>1 DEF AuthOpen, Quiet, SetupAnswer
    <3>2. CASE /\ Len(Unread) = 0 /\ Len(smtp) = 1 /\ smtp[1] \in Setup
               /\ session \in {"greeted", "hello", "gone"}
      BY <1>1, <1>b, <1>2, <1>4, <3>2 DEF AuthOpen
    <3>3. CASE /\ Len(smtp) = 0 /\ Len(Unread) \in {1, 2} /\ SetupAnswer(Len(Unread))
               /\ session \in {"greeted", "hello", "gone"}
      BY <1>1, <1>b, <1>2, <1>4, <3>3 DEF AuthOpen, SetupAnswer
    <3> QED BY <2>2, <3>1, <3>2, <3>3 DEF OneOpen
  <2> QED BY <1>1, <1>a, <2>1, <2>3, <2>4, Elsewhere DEF MailInv, Setup, AtAuth
<1>5. CASE step \in {"user", "password"}
  <2>1. pc' = step /\ waiting' /\ sent' = "none" BY <1>0, <1>1, <1>5 DEF Replied, AtEnd
  <2>2. Len(Unread) = 0 /\ Len(smtp) = 0 /\ session # "accepted"
    BY <1>0, <1>1, <1>5 DEF AtLogin, Quiet
  <2>3. TextLast' /\ NoTextYet' BY <1>1, <1>b, <1>5, <2>2 DEF TextLast, Dotted, NoTextYet
  <2>4. AtLogin' BY <1>1, <1>b, <1>5, <2>1, <2>2 DEF AtLogin, LoginOpen
  <2> QED BY <1>1, <1>5, <1>a, <2>1, <2>3, <2>4, Elsewhere DEF MailInv, Setup
<1>6. CASE step \in {"MAIL", "RCPT", "DATA"}
  <2>1. pc' = step /\ waiting' /\ sent' = "none" BY <1>0, <1>1, <1>6 DEF Replied, AtEnd
  <2>2. TextLast' /\ NoTextYet' BY <1>0, <1>1, <1>b, <1>2, <1>6 DEF TextLast, Dotted, NoTextYet
  <2>3. ASSUME NEW i \in {1, 2, 3}, Hopeless(i) PROVE Hopeless(i)'
    <3>1. CASE Len(smtp) = 0 BY <1>1, <1>b, <1>2, <1>6, <2>1, <2>3, <3>1 DEF Hopeless
    <3>2. CASE Len(smtp) > 0
      <4>1. smtp'[1] = smtp[1] BY <1>1, <1>b, <1>2, <1>6, <3>2
      <4> QED BY <1>1, <1>b, <1>2, <1>6, <2>1, <2>3, <3>2, <4>1 DEF Hopeless
    <3> QED BY <1>2, <3>1, <3>2
  <2>4. ASSUME Quiet, session # "accepted" PROVE Asked(step)'
    BY <1>1, <1>b, <1>2, <1>6, <2>4 DEF Quiet, Asked
  <2>5. CASE step = "MAIL"
    <3>1. ASSUME Misled PROVE Misled'
      <4>1. CASE /\ Len(Unread) = 0 /\ Len(smtp) > 0 /\ smtp[1] \in {"EHLO", "EHLO2"}
                 /\ session # "authed" /\ session # "accepted"
                 /\ IF Len(smtp) = 1 THEN pc = "MAIL" /\ ~waiting ELSE smtp[2] \in {"AUTH", "MAIL"}
        <5>1. smtp'[1] = smtp[1] /\ (Len(smtp) > 1 => smtp'[2] = smtp[2]) BY <1>1, <1>b, <1>2, <2>5, <4>1
        <5>2. Len(smtp) = 1 => smtp'[2] = "MAIL" BY <1>1, <1>b, <1>2, <2>5
        <5>3. Len(smtp') > 1 BY <1>1, <1>b, <1>2, <2>5, <4>1
        <5>4. smtp'[2] \in {"AUTH", "MAIL"}
          <6>1. CASE Len(smtp) = 1 BY <5>2, <6>1
          <6>2. CASE Len(smtp) # 1
            <7>1. Len(smtp) > 1 BY <1>2, <4>1, <6>2
            <7> QED BY <4>1, <5>1, <6>2, <7>1
          <6> QED BY <6>1, <6>2
        <5>5. Len(Unread') = 0 /\ Len(smtp') > 0 /\ Len(smtp') # 1 BY <1>1, <1>b, <1>2, <2>5, <4>1, <5>3
        <5>6. session' \notin {"authed", "accepted"} /\ smtp'[1] \in {"EHLO", "EHLO2"}
          BY <1>1, <4>1, <5>1
        <5> QED BY <5>4, <5>5, <5>6 DEF Misled
      <4>2. CASE ~(/\ Len(Unread) = 0 /\ Len(smtp) > 0 /\ smtp[1] \in {"EHLO", "EHLO2"}
                   /\ session # "authed" /\ session # "accepted"
                   /\ IF Len(smtp) = 1 THEN pc = "MAIL" /\ ~waiting
                      ELSE smtp[2] \in {"AUTH", "MAIL"})
        BY <1>1, <2>3, <3>1, <4>2 DEF Misled
      <4> QED BY <4>1, <4>2
    <3>2. AtMail'
      <4>1. Hopeless(1) \/ Misled \/ (Quiet /\ session # "accepted")
        BY <1>0, <1>1, <2>5 DEF AtMail
      <4>2. Quiet => Len(Unread') = 0 BY <1>1 DEF Quiet
      <4> QED BY <2>1, <2>3, <2>4, <2>5, <3>1, <4>1, <4>2 DEF AtMail
    <3> QED BY <1>1, <1>a, <2>1, <2>2, <2>5, <3>2, Elsewhere DEF MailInv, Setup
  <2>6. CASE step = "RCPT"
    <3>1. acked < Recipients /\ (Hopeless(1) \/ (Quiet /\ Mailing /\ rcpts = acked))
      BY <1>0, <1>1, <2>6 DEF AtRcpt
    <3>2. Mailing => Mailing' /\ session # "accepted" BY <1>1 DEF Mailing
    <3>3. Quiet => Len(Unread') = 0 BY <1>1 DEF Quiet
    <3>4. AtRcpt' BY <1>1, <2>1, <2>3, <2>4, <2>6, <3>1, <3>2, <3>3 DEF AtRcpt
    <3> QED BY <1>1, <1>a, <2>1, <2>2, <2>6, <3>4, Elsewhere DEF MailInv, Setup
  <2>7. CASE step = "DATA"
    <3>1. Hopeless(1) \/ (Quiet /\ Mailing /\ rcpts = Recipients)
      BY <1>0, <1>1, <2>7 DEF AtData
    <3>2. Mailing => Mailing' /\ session # "accepted" BY <1>1 DEF Mailing
    <3>3. Quiet => Len(Unread') = 0 BY <1>1 DEF Quiet
    <3>4. AtData' BY <1>1, <2>1, <2>3, <2>4, <2>7, <3>1, <3>2, <3>3 DEF AtData
    <3> QED BY <1>1, <1>a, <2>1, <2>2, <2>7, <3>4, Elsewhere DEF MailInv, Setup
  <2> QED BY <1>6, <2>5, <2>6, <2>7
<1>7. CASE step = "content"
  <2>1. pc' = "dot" /\ ~waiting' /\ sent' = "none" BY <1>0, <1>1, <1>7 DEF Replied, AtEnd
  <2>2. /\ Len(Unread') = 0 /\ session' \in {"data", "gone"} /\ rcpts' = Recipients
        /\ smtp' = mode.text
    BY <1>0, <1>1, <1>b, <1>7 DEF AtText
  <2>3. mode.text \in Seq(TextLines) BY <1>0, MailAssumption DEF MailTypeOK
  <2>4. \A i \in 1..Len(smtp') : smtp'[i] = "content" \/ (Dotted /\ smtp'[i] = "dot")
    BY <2>2, <2>3 DEF Dotted, TextLines
  <2>5. Dotted' = Dotted BY <1>1 DEF Dotted
  <2>6. AtText' BY <2>1, <2>2, <2>4, <2>5 DEF AtText
  <2>7. TextLast'
    <3>1. Len(smtp') \in Nat BY <2>2, <2>3, LenProperties
    <3>2. ASSUME NEW i \in 1..Len(smtp'), NEW j \in 1..(i - 1)
          PROVE  smtp'[j] = "content" \/ (Dotted /\ smtp'[j] = "dot")
      <4>1. j \in 1..Len(smtp') BY <3>1, <3>2
      <4> QED BY <2>4, <4>1
    <3> QED BY <2>2, <2>5, <3>2 DEF TextLast
  <2>8. NoTextYet' BY <2>1 DEF NoTextYet
  <2> QED BY <1>1, <1>a, <2>1, <2>6, <2>7, <2>8, Elsewhere DEF MailInv, Setup
<1>9. CASE step = "dot"
  <2>1. pc' = "dot" /\ waiting' /\ sent' = "none" BY <1>0, <1>1, <1>9 DEF Replied, AtEnd
  <2>2. /\ \A i \in 1..Len(smtp) : smtp[i] = "content" \/ (Dotted /\ smtp[i] = "dot")
        /\ \/ Len(Unread) = 0 /\ session \in {"data", "gone"} /\ rcpts = Recipients
           \/ /\ Dotted /\ Len(Unread) > 0 /\ Unread[1].last /\ session \in {"authed", "gone"}
              /\ session = "authed" => rcpts = Recipients
              /\ Unread[1].code = 250 => queued = Recipients
    BY <1>0, <1>1, <1>9 DEF AtText
  <2>3. \A i \in 1..Len(smtp') : i \in 1..Len(smtp) \/ i = Len(smtp) + 1 BY <1>b, <1>2, <1>9
  <2>4. \A i \in 1..Len(smtp') : smtp'[i] = "content" \/ smtp'[i] = "dot"
    BY <1>b, <1>9, <2>2, <2>3
  <2>5. Dotted' = Dotted BY <1>1 DEF Dotted
  <2>6. AtText' BY <1>1, <2>1, <2>2, <2>4, <2>5 DEF AtText
  <2>7. TextLast'
    <3>1. ASSUME NEW i \in 1..Len(smtp'), NEW j \in 1..(i - 1)
          PROVE  smtp'[j] = "content" \/ (Dotted /\ smtp'[j] = "dot")
      <4>1. j \in 1..Len(smtp) BY <1>b, <1>2, <1>9, <3>1
      <4> QED BY <1>b, <1>9, <2>2, <4>1
    <3> QED BY <1>1, <2>2, <2>5, <3>1 DEF TextLast
  <2>8. NoTextYet' BY <2>1 DEF NoTextYet
  <2> QED BY <1>1, <1>a, <2>1, <2>6, <2>7, <2>8, Elsewhere DEF MailInv, Setup
<1>8. CASE step = "QUIT"
  <2>1. pc' = "returned" /\ ~waiting' BY <1>1, <1>8 DEF Replied
  <2>2. \A i \in 1..Len(smtp') : i \in 1..Len(smtp) \/ i = Len(smtp) + 1 BY <1>1, <1>b, <1>2, <1>8
  <2>3. AtEnd' BY <1>0, <1>1, <1>b, <1>8, <2>1, <2>2 DEF AtEnd
  <2>4. TextLast' BY <1>0, <1>1, <1>b, <1>2, <1>8, <2>2 DEF TextLast, Dotted
  <2>5. NoTextYet' BY <2>1 DEF NoTextYet
  <2> QED BY <1>1, <1>a, <2>1, <2>3, <2>4, <2>5, Elsewhere DEF MailInv, Setup
<1> QED BY <1>3, <1>4, <1>5, <1>6, <1>7, <1>8, <1>9 DEF Commands, Setup

(* A step that fails before its command or its answer is out.               *)
LEMMA AfterFailure ==
  ASSUME MailInv, NEW step \in Commands \cup Replied \cup {"encrypt"},
         pc = step, waiting => step \in Replied, ~waiting => step # "greeting",
         pc' = Abandon(step), waiting' = FALSE, Verdict(step, FALSE),
         UNCHANGED <<mode, acked, wires, peers>>
  PROVE  MailInv'
<1>0. /\ MailTypeOK /\ TextLast /\ NoTextYet /\ NoneAcked /\ AtIdle /\ AtSetup /\ AtAuth /\ AtLogin /\ AtMail
      /\ AtRcpt /\ AtData /\ AtText /\ AtEnd
  BY DEF MailInv
<1>1. /\ UNCHANGED <<mode, acked, buffer, replies, smtp, session, rcpts, queued>>
      /\ Unread' = Unread
  BY DEF wires, peers, Unread
<1>2. MailTypeOK'
  <2>1. pc' \in Steps BY AbandonType DEF Steps, Commands
  <2>2. sent' \in {"none", "yes", "no"} BY <1>0, VerdictType
  <2>3. waiting' \in BOOLEAN OBVIOUS
  <2> QED BY <1>0, <1>1, <2>1, <2>2, <2>3 DEF MailTypeOK
<1>3. TextLast' BY <1>0, <1>1 DEF TextLast, Dotted
<1>4. Len(Unread) \in Nat /\ Len(smtp) \in Nat BY <1>0, Lengths
<1>5. CASE step \in Setup \cup {"greeting", "encrypt"}
  <2>1. pc' = "AUTH" /\ sent' = "none" BY <1>0, <1>5 DEF Abandon, Verdict, InSendMail, AtEnd, Setup
  <2>2. OneOpen BY <1>0, <1>5 DEF AtSetup, OneOpen
  <2>3. AtAuth' BY <1>1, <2>1, <2>2 DEF AtAuth, OneOpen, Quiet, SetupAnswer
  <2>5. NoneAcked' BY <1>0, <1>1, <1>5 DEF NoneAcked, Setup
  <2>4. NoTextYet' BY <1>0, <1>1, <1>5, <2>1 DEF NoTextYet, Setup
  <2> QED BY <1>2, <1>3, <2>1, <2>3, <2>4, <2>5, Elsewhere DEF MailInv, Setup
<1>6. CASE step \in {"AUTH", "user", "password"}
  <2>1. pc' = "MAIL" /\ sent' = "none" BY <1>0, <1>6 DEF Abandon, Verdict, InSendMail, AtEnd
  <2>2. NoTextYet' BY <1>0, <1>1, <1>6, <2>1 DEF NoTextYet
  <2>3. Hopeless(1)' \/ Misled' \/ (Quiet' /\ session' # "accepted")
    <3>1. CASE step \in {"user", "password"} /\ waiting
      <4>1. LoginOpen BY <1>0, <3>1 DEF AtLogin
      <4> QED BY <1>1, <4>1 DEF LoginOpen, Hopeless
    <3>2. CASE step \in {"user", "password"} /\ ~waiting
      BY <1>0, <1>1, <3>2 DEF AtLogin, Quiet
    <3>3. CASE step = "AUTH" /\ waiting
      <4>1. AuthOpen BY <1>0, <3>3 DEF AtAuth
      <4> QED BY <1>1, <1>4, <4>1 DEF AuthOpen, SetupAnswer, Hopeless, Misled, Setup
    <3>4. CASE step = "AUTH" /\ ~waiting
      <4>1. OneOpen BY <1>0, <3>4 DEF AtAuth
      <4> QED BY <1>1, <1>4, <2>1, <4>1 DEF OneOpen, Quiet, SetupAnswer, Hopeless, Misled, Setup
    <3> QED BY <1>6, <3>1, <3>2, <3>3, <3>4
  <2>4. NoneAcked' BY <1>0, <1>1, <1>6 DEF NoneAcked
  <2>5. AtMail' BY <2>1, <2>3 DEF AtMail
  <2> QED BY <1>2, <1>3, <2>1, <2>2, <2>4, <2>5, Elsewhere DEF MailInv, Setup
<1>7. CASE step \in {"MAIL", "RCPT", "DATA", "content", "dot"}
  <2>1. pc' = "QUIT" /\ sent' = "no" BY <1>7 DEF Abandon, Verdict, InSendMail
  <2>2. NoTextYet' /\ NoneAcked' /\ AtEnd' BY <2>1 DEF NoTextYet, NoneAcked, AtEnd
  <2> QED BY <1>2, <1>3, <2>1, <2>2, Elsewhere DEF MailInv, Setup
<1>8. CASE step = "QUIT"
  <2>1. pc' = "returned" /\ sent' = sent BY <1>8 DEF Abandon, Verdict, InSendMail
  <2>2. NoTextYet' /\ NoneAcked' /\ AtEnd' BY <1>0, <1>1, <1>8, <2>1 DEF NoTextYet, NoneAcked, AtEnd
  <2> QED BY <1>2, <1>3, <2>1, <2>2, Elsewhere DEF MailInv, Setup
<1> QED BY <1>5, <1>6, <1>7, <1>8 DEF Commands, Replied, Setup

LEMMA WholeAnswer ==
  ASSUME Len(Unread) \in {1, 2}, SetupAnswer(Len(Unread)), NEW n \in 1..Len(Unread),
         Unread[1].last => n = 1, Unread[n].last
  PROVE  n = Len(Unread) /\ Unread[n].code \in {220, 250, 500}
<1>1. CASE Len(Unread) = 1 BY <1>1 DEF SetupAnswer
<1>2. CASE Len(Unread) = 2
  <2>1. ~Unread[1].last /\ Unread[2].code = 250 BY <1>2 DEF SetupAnswer
  <2>2. n \in {1, 2} /\ n # 1 BY <1>2, <2>1
  <2> QED BY <1>2, <2>1, <2>2
<1> QED BY <1>1, <1>2

LEMMA AfterReply ==
  ASSUME MailInv, NEW step \in Replied, WaitForResponse(step)
  PROVE  MailInv'
<1>0. /\ MailTypeOK /\ TextLast /\ NoTextYet /\ NoneAcked /\ AtIdle /\ AtSetup /\ AtAuth /\ AtLogin
      /\ AtMail /\ AtRcpt /\ AtData /\ AtText /\ AtEnd
  BY DEF MailInv
<1>1. /\ MailTypeOK' /\ pc = step /\ waiting
      /\ UNCHANGED <<mode, smtp, session, rcpts, queued>>
  BY <1>0, ReadFacts
<1>2. PICK n \in 1..Len(Unread) :
        /\ Rest(Unread', Unread, n)
        /\ Unread[1].last => n = 1
        /\ Len(Unread) > 1 /\ ~Unread[1].last /\ Unread[2].last => n \in 1..2
        /\ Len(Unread) = 1 => n = 1
        /\ IF ~Unread[n].last THEN UNCHANGED <<pc, waiting, sent, acked>>
           ELSE /\ ~waiting'
                /\ pc' = IF Good(Unread[n].code, step) THEN Following[step] ELSE Abandon(step)
                /\ Verdict(step, Good(Unread[n].code, step))
                /\ acked' = IF step = "RCPT" /\ Good(Unread[n].code, step) THEN acked + 1
                            ELSE acked
  BY <1>0, ReadFacts
<1>3. Len(Unread) \in Nat /\ Len(smtp) \in Nat /\ Len(Unread) > 0 BY <1>0, <1>2, Lengths
<1>4. Len(Unread') = Len(Unread) - n /\ \A i \in 1..(Len(Unread) - n) : Unread'[i] = Unread[i + n]
  BY <1>2 DEF Rest
<1> DEFINE c == Unread[n].code
<1>5. TextLast' BY <1>0, <1>1 DEF TextLast, Dotted
<1>6. step \notin {"dot"} => \A i \in 1..Len(smtp) : smtp[i] \notin {"content", "dot"}
  BY <1>0, <1>1 DEF NoTextYet, Replied
<1>7. CASE step \in Setup \cup {"greeting"}
  <2>1. OneOpen BY <1>0, <1>1, <1>7 DEF AtSetup
  <2>2. /\ Len(smtp) = 0 /\ Len(Unread) \in {1, 2} /\ SetupAnswer(Len(Unread))
        /\ session \in {"greeted", "hello", "gone"}
    BY <1>3, <2>1 DEF OneOpen, Quiet
  <2>3. CASE ~Unread[n].last
    <3>1. Len(Unread) = 2 /\ n = 1 BY <1>2, <1>3, <2>2, <2>3 DEF SetupAnswer
    <3>2. Len(Unread') = 1 /\ Unread'[1] = Unread[2] BY <1>4, <3>1
    <3>3. OneOpen' BY <1>1, <2>2, <3>1, <3>2 DEF OneOpen, SetupAnswer
    <3>4. pc' = pc /\ waiting' = waiting /\ sent' = sent /\ acked' = acked BY <1>2, <2>3
    <3>5. AtSetup' BY <1>1, <1>7, <3>3, <3>4 DEF AtSetup, Setup
    <3>6. NoTextYet' /\ NoneAcked' BY <1>0, <1>1, <3>4 DEF NoTextYet, NoneAcked
    <3>7. sent' = "none" BY <1>0, <1>1, <1>7, <3>4 DEF AtEnd, Setup
    <3> QED BY <1>1, <1>5, <1>7, <3>4, <3>5, <3>6, <3>7, Elsewhere DEF MailInv, Setup
  <2>4. CASE Unread[n].last
    <3>1. n = Len(Unread) BY <1>2, <2>2, <2>4, WholeAnswer
    <3>2. Len(Unread') = 0 BY <1>3, <1>4, <3>1
    <3>3. Quiet' BY <1>1, <2>2, <3>2 DEF Quiet
    <3>4. waiting' = FALSE /\ sent' = "none" /\ acked' = acked
          /\ pc' = IF Good(c, step) THEN Following[step] ELSE Abandon(step)
      BY <1>0, <1>1, <1>2, <1>7, <2>4 DEF Verdict, InSendMail, AtEnd, Setup
    <3>5. pc' \in {"EHLO", "STARTTLS", "encrypt", "EHLO2", "AUTH"}
      BY <1>7, <3>4 DEF Following, Abandon, Setup
    <3>6. AtSetup' /\ AtAuth' BY <1>1, <2>2, <3>3, <3>4, <3>5 DEF AtSetup, AtAuth, OneOpen, Setup
    <3>7. NoTextYet' /\ NoneAcked'
      BY <1>0, <1>1, <1>6, <1>7, <3>4, <3>5 DEF NoTextYet, NoneAcked, Setup
    <3> QED BY <1>1, <1>5, <3>4, <3>5, <3>6, <3>7, Elsewhere DEF MailInv, Setup
  <2> QED BY <2>3, <2>4
<1>8. CASE step = "AUTH"
  <2>1. AuthOpen BY <1>0, <1>1, <1>8 DEF AtAuth
  <2>2. CASE ~Unread[n].last
    <3>1. n = 1 /\ Len(Unread) > 1 /\ ~Unread[1].last /\ Unread[2].last /\ Unread[2].code = 250
      BY <1>2, <1>3, <2>1, <2>2 DEF AuthOpen, SetupAnswer
    <3>2. Len(Unread') = Len(Unread) - 1 /\ Unread'[1] = Unread[2]
          /\ (Len(Unread) = 3 => Unread'[2] = Unread[3])
      BY <1>3, <1>4, <3>1
    <3>3. AuthOpen'
      <4>1. CASE /\ Len(Unread) \in 0..2 /\ SetupAnswer(Len(Unread)) /\ Len(smtp) = 1
                 /\ smtp[1] = "AUTH" /\ session \in {"accepted", "greeted", "hello", "gone"}
                 /\ session = "accepted" => Len(Unread) = 0
        BY <1>1, <3>1, <3>2, <4>1 DEF AuthOpen, SetupAnswer
      <4>2. CASE /\ Len(smtp) = 0
                 /\ \E m \in 0..2 :
                      /\ Len(Unread) = m + 1 /\ SetupAnswer(m)
                      /\ Unread[m + 1].last /\ Unread[m + 1].code \in {235, 334, 500}
                 /\ session # "accepted"
        <5>1. /\ Len(Unread) = 3 /\ Unread[3].last /\ Unread[3].code \in {235, 334, 500}
          BY <3>1, <4>2 DEF SetupAnswer
        <5>2. /\ Len(Unread') = 1 + 1 /\ Unread'[1 + 1].last
              /\ Unread'[1 + 1].code \in {235, 334, 500}
          BY <3>2, <5>1
        <5>3. SetupAnswer(1)' BY <3>1, <3>2 DEF SetupAnswer
        <5> QED BY <1>1, <4>2, <5>2, <5>3 DEF AuthOpen
      <4> QED BY <1>3, <2>1, <4>1, <4>2 DEF AuthOpen
    <3>4. pc' = pc /\ waiting' = waiting /\ sent' = sent /\ acked' = acked BY <1>2, <2>2
    <3>5. AtAuth' BY <1>1, <3>3, <3>4 DEF AtAuth
    <3>6. NoTextYet' /\ NoneAcked' BY <1>0, <1>1, <3>4 DEF NoTextYet, NoneAcked
    <3>7. sent' = "none" BY <1>0, <1>1, <1>8, <3>4 DEF AtEnd
    <3> QED BY <1>1, <1>5, <1>8, <3>4, <3>5, <3>6, <3>7, Elsewhere DEF MailInv, Setup
  <2>3. CASE Unread[n].last
    <3>1. waiting' = FALSE /\ sent' = "none" /\ acked' = acked
          /\ pc' = IF Good(c, step) THEN Following[step] ELSE "MAIL"
      BY <1>0, <1>1, <1>2, <1>8, <2>3 DEF Verdict, InSendMail, AtEnd, Abandon
    <3>2. Good(c, step) => c \in {334, 235} /\ Following[step] \in {"user", "MAIL"}
      BY <1>8 DEF Good, Wanted, Following
    <3>3. NoTextYet' /\ NoneAcked'
      BY <1>0, <1>1, <1>6, <1>8, <3>1, <3>2 DEF NoTextYet, NoneAcked
    <3>4. CASE Len(Unread') = 0 /\ Len(smtp) = 0 /\ session # "accepted"
      <4>1. Quiet' BY <1>1, <3>4 DEF Quiet
      <4>2. AtLogin' /\ AtMail' BY <1>1, <3>1, <3>2, <3>4, <4>1 DEF AtLogin, AtMail
      <4> QED BY <1>1, <1>5, <3>1, <3>2, <3>3, <4>2, Elsewhere DEF MailInv, Setup
    <3>5. CASE c \notin {334, 235} /\ Hopeless(1)'
      <4>1. pc' = "MAIL" BY <3>1, <3>2, <3>5
      <4>2. AtMail' BY <3>5 DEF AtMail
      <4> QED BY <1>1, <1>5, <3>1, <3>3, <4>1, <4>2, Elsewhere DEF MailInv, Setup
    <3>6. CASE /\ Len(Unread) \in 0..2 /\ SetupAnswer(Len(Unread)) /\ Len(smtp) = 1
               /\ smtp[1] = "AUTH"
      <4>0. Len(Unread) \in {1, 2} BY <1>3, <3>6
      <4>1. n = Len(Unread) /\ c \in {220, 250, 500} BY <1>2, <2>3, <3>6, <4>0, WholeAnswer
      <4>2. Len(Unread') = 0 BY <1>3, <1>4, <4>1
      <4>3. Hopeless(1)' BY <1>1, <3>6, <4>2 DEF Hopeless
      <4> QED BY <3>5, <4>1, <4>3
    <3>7. CASE /\ Len(smtp) = 0
               /\ \E m \in 0..2 :
                    /\ Len(Unread) = m + 1 /\ SetupAnswer(m)
                    /\ Unread[m + 1].last /\ Unread[m + 1].code \in {235, 334, 500}
               /\ session # "accepted"
      <4>1. CASE n = Len(Unread) BY <1>3, <1>4, <3>4, <3>7, <4>1
      <4>2. CASE n # Len(Unread)
        <5>1. Len(Unread) = n + 1 /\ c \in {220, 250, 500} /\ Unread[n + 1].last
              /\ Unread[n + 1].code \in {235, 334, 500}
          BY <1>2, <1>3, <2>3, <3>7, <4>2 DEF SetupAnswer
        <5>2. Len(Unread') = 1 /\ Unread'[1] = Unread[n + 1] BY <1>3, <1>4, <5>1
        <5>3. Hopeless(1)' BY <5>1, <5>2 DEF Hopeless
        <5> QED BY <3>5, <5>1, <5>3
      <4> QED BY <4>1, <4>2
    <3> QED BY <1>3, <2>1, <3>6, <3>7 DEF AuthOpen
  <2> QED BY <2>2, <2>3
<1>9. CASE step \in {"user", "password"}
  <2>1. /\ Len(smtp) = 0 /\ Len(Unread) = 1 /\ Unread[1].last /\ session # "accepted" /\ n = 1
    BY <1>0, <1>1, <1>2, <1>3, <1>9 DEF AtLogin, LoginOpen
  <2>2. Quiet' BY <1>1, <1>4, <2>1 DEF Quiet
  <2>3. waiting' = FALSE /\ sent' = "none" /\ acked' = acked /\ pc' \in {"password", "MAIL"}
    BY <1>0, <1>1, <1>2, <1>9, <2>1 DEF Verdict, InSendMail, AtEnd, Abandon, Following
  <2>4. AtLogin' /\ AtMail' BY <1>1, <2>1, <2>2, <2>3 DEF AtLogin, AtMail
  <2>5. NoTextYet' /\ NoneAcked' BY <1>0, <1>1, <1>6, <1>9, <2>3 DEF NoTextYet, NoneAcked
  <2> QED BY <1>1, <1>5, <2>3, <2>4, <2>5, Elsewhere DEF MailInv, Setup
<1>10. ASSUME step \in {"MAIL", "RCPT", "DATA"}, NEW i \in {1, 2}, Hopeless(i + n)
       PROVE  Hopeless(i)'
  <2>1. CASE i + n <= Len(Unread)
    <3>1. i \in 1..(Len(Unread) - n) BY <1>2, <1>3, <1>10, <2>1
    <3>2. Len(Unread') >= i /\ Unread'[i] = Unread[i + n] BY <1>3, <1>4, <3>1
    <3> QED BY <1>10, <2>1, <3>2 DEF Hopeless
  <2>2. CASE ~(i + n <= Len(Unread))
    <3>1. ~(Len(Unread') >= i) /\ ~(Len(Unread) >= i + n) BY <1>2, <1>3, <1>4, <1>10, <2>2
    <3> QED BY <1>1, <1>10, <3>1 DEF Hopeless
  <2> QED BY <2>1, <2>2
<1>11. CASE step \in {"MAIL", "RCPT", "DATA", "dot"} /\ Unread[n].last /\ ~Good(c, step)
  <2>1. pc' = "QUIT" /\ sent' = "no" /\ ~waiting'
    BY <1>2, <1>11 DEF Abandon, Verdict, InSendMail
  <2>2. NoTextYet' /\ NoneAcked' /\ AtEnd' BY <2>1 DEF NoTextYet, NoneAcked, AtEnd
  <2> QED BY <1>1, <1>5, <2>1, <2>2, Elsewhere DEF MailInv, Setup
<1>12. CASE step \in {"MAIL", "RCPT", "DATA"} /\ Hopeless(1)
  <2>1. Unread[1].last /\ Unread[1].code \notin {250, 354} BY <1>3, <1>12 DEF Hopeless
  <2>2. n = 1 BY <1>2, <2>1
  <2>3. ~Good(c, step) BY <1>12, <2>1, <2>2 DEF Good, Wanted
  <2> QED BY <1>11, <1>12, <2>1, <2>2, <2>3
<1>13. CASE step = "MAIL" /\ Misled /\ ~Hopeless(1)
  <2>1. CASE Unread[n].last /\ c = 250 /\ Hopeless(1)'
    <3>1. Good(c, step) BY <1>13, <2>1 DEF Good, Wanted
    <3>2. pc' = (IF Recipients = 0 THEN "DATA" ELSE "RCPT") /\ waiting' = FALSE /\ acked' = acked
      BY <1>2, <1>13, <2>1, <3>1 DEF Following
    <3>3. sent' = "none" BY <1>0, <1>1, <1>2, <1>13, <2>1, <3>1 DEF Verdict, AtEnd
    <3>4. acked = 0 BY <1>0, <1>1, <1>13 DEF NoneAcked
    <3>5. NoTextYet' /\ NoneAcked' BY <1>1, <1>6, <1>13, <3>2 DEF NoTextYet, NoneAcked
    <3>6. AtRcpt' /\ AtData' BY <2>1, <3>2, <3>4, MailAssumption DEF AtRcpt, AtData
    <3> QED BY <1>1, <1>5, <3>2, <3>3, <3>5, <3>6, Elsewhere DEF MailInv, Setup
  <2>2. CASE Unread[1].last /\ Unread[1].code = 250 /\ Hopeless(2)
    <3>1. n = 1 BY <1>2, <2>2
    <3>2. Hopeless(1)' BY <1>10, <1>13, <2>2, <3>1
    <3> QED BY <2>1, <2>2, <3>1, <3>2
  <2>3. CASE /\ Len(Unread) >= 2 /\ ~Unread[1].last /\ Unread[2].last /\ Unread[2].code = 250
             /\ Hopeless(3)
    <3>1. n = 1 \/ n = 2 BY <1>2, <1>3, <2>3
    <3>2. CASE n = 2
      <4>1. Hopeless(1)' BY <1>10, <1>13, <2>3, <3>2
      <4> QED BY <2>1, <2>3, <3>2, <4>1
    <3>3. CASE n = 1
      <4>1. Hopeless(2)' BY <1>10, <1>13, <2>3, <3>3
      <4>2. Len(Unread') > 0 /\ Unread'[1] = Unread[2] BY <1>3, <1>4, <2>3, <3>3
      <4>3. pc' = pc /\ waiting' = waiting /\ sent' = sent /\ acked' = acked BY <1>2, <2>3, <3>3
      <4>4. Misled' BY <1>1, <1>13, <2>3, <4>1, <4>2 DEF Misled
      <4>5. AtMail' BY <4>4 DEF AtMail
      <4>6. NoTextYet' /\ NoneAcked' BY <1>0, <1>1, <4>3 DEF NoTextYet, NoneAcked
      <4>7. sent' = "none" BY <1>0, <1>1, <1>13, <4>3 DEF AtEnd
      <4> QED BY <1>1, <1>5, <1>13, <4>3, <4>5, <4>6, <4>7, Elsewhere DEF MailInv, Setup
    <3> QED BY <3>1, <3>2, <3>3
  <2> QED BY <1>3, <1>13, <2>2, <2>3 DEF Misled
<1>14. CASE step \in {"MAIL", "RCPT", "DATA"} /\ Asked(step) /\ Good(c, step)
  <2>1. Len(smtp) = 0 /\ Len(Unread) = 1 /\ Unread[1].last /\ n = 1 /\ session # "accepted"
    BY <1>2, <1>3, <1>14 DEF Asked
  <2>2. Quiet' /\ Len(Unread') = 0 BY <1>1, <1>4, <2>1 DEF Quiet
  <2>3. ~Hopeless(1) BY <1>14, <2>1 DEF Hopeless, Good, Wanted
  <2>4. /\ waiting' = FALSE /\ pc' = Following[step] /\ sent' = "none"
        /\ acked' = IF step = "RCPT" THEN acked + 1 ELSE acked
    BY <1>0, <1>1, <1>2, <1>14, <2>1 DEF Verdict, AtEnd
  <2>5. Mailing => Mailing' BY <1>1 DEF Mailing
  <2>6. CASE step = "MAIL" /\ ~Misled
    <3>1. c = 250 /\ pc' = IF Recipients = 0 THEN "DATA" ELSE "RCPT"
      BY <1>14, <2>4, <2>6 DEF Good, Wanted, Following
    <3>2. Mailing /\ rcpts = 0 BY <1>0, <1>1, <2>1, <2>3, <2>6, <3>1 DEF AtMail
    <3>3. acked = 0 BY <1>0, <1>1, <2>6 DEF NoneAcked
    <3>4. AtRcpt' /\ AtData'
      BY <1>1, <2>2, <2>4, <2>5, <2>6, <3>1, <3>2, <3>3, MailAssumption DEF AtRcpt, AtData
    <3>5. NoTextYet' /\ NoneAcked' BY <1>1, <1>6, <2>6, <3>1 DEF NoTextYet, NoneAcked
    <3> QED BY <1>1, <1>5, <2>4, <3>1, <3>4, <3>5, Elsewhere DEF MailInv, Setup
  <2>7. CASE step = "RCPT"
    <3>1. c = 250 /\ pc' = IF acked + 1 < Recipients THEN "RCPT" ELSE "DATA"
      BY <1>14, <2>4, <2>7 DEF Good, Wanted, Following
    <3>2. Mailing /\ rcpts = acked + 1 /\ acked < Recipients
      BY <1>0, <1>1, <2>1, <2>3, <2>7, <3>1 DEF AtRcpt
    <3>3. acked \in Nat BY <1>0 DEF MailTypeOK
    <3>4. AtRcpt' /\ AtData'
      BY <1>1, <2>2, <2>4, <2>5, <2>7, <3>1, <3>2, <3>3, MailAssumption DEF AtRcpt, AtData
    <3>5. NoTextYet' /\ NoneAcked' BY <1>1, <1>6, <2>7, <3>1 DEF NoTextYet, NoneAcked
    <3> QED BY <1>1, <1>5, <2>4, <3>1, <3>4, <3>5, Elsewhere DEF MailInv, Setup
  <2>8. CASE step = "DATA"
    <3>1. c = 354 /\ pc' = "content" BY <1>14, <2>4, <2>8 DEF Good, Wanted, Following
    <3>2. session \in {"data", "gone"} /\ rcpts = Recipients
      BY <1>0, <1>1, <2>1, <2>3, <2>8, <3>1 DEF AtData
    <3>3. AtText' BY <1>1, <2>1, <2>2, <2>4, <3>1, <3>2 DEF AtText
    <3>4. NoTextYet' /\ NoneAcked' BY <1>1, <1>6, <2>8, <3>1 DEF NoTextYet, NoneAcked
    <3> QED BY <1>1, <1>5, <2>4, <3>1, <3>3, <3>4, Elsewhere DEF MailInv, Setup
  <2> QED BY <1>13, <1>14, <2>3, <2>6, <2>7, <2>8
<1>15. CASE step = "dot" /\ Good(c, step)
  <2>1. /\ Unread[1].last /\ n = 1 /\ session \in {"authed", "gone"}
        /\ Unread[1].code = 250 => queued = Recipients
        /\ \A i \in 1..Len(smtp) : smtp[i] \in {"content", "dot"}
    BY <1>0, <1>1, <1>2, <1>3, <1>15 DEF AtText
  <2>2. c = 250 BY <1>15 DEF Good, Wanted
  <2>3. waiting' = FALSE /\ pc' = "QUIT" BY <1>2, <1>15, <2>1 DEF Following
  <2>4. queued' = Recipients /\ session' # "data"
        /\ \A i \in 1..Len(smtp') : smtp'[i] \in {"content", "dot", "QUIT"}
    BY <1>1, <2>1, <2>2
  <2>5. NoTextYet' /\ NoneAcked' /\ AtEnd' BY <2>3, <2>4 DEF NoTextYet, NoneAcked, AtEnd
  <2> QED BY <1>1, <1>5, <2>3, <2>5, Elsewhere DEF MailInv, Setup
<1>16. CASE step \in {"MAIL", "RCPT", "DATA"}
  <2>1. Hopeless(1) \/ (step = "MAIL" /\ Misled) \/ Asked(step)
    BY <1>0, <1>1, <1>16 DEF AtMail, AtRcpt, AtData
  <2>2. Asked(step) => Unread[n].last
    BY <1>2, <1>3 DEF Asked
  <2> QED BY <1>11, <1>12, <1>13, <1>14, <1>16, <2>1, <2>2
<1>17. CASE step = "dot"
  <2>1. Unread[n].last BY <1>0, <1>1, <1>2, <1>3, <1>17 DEF AtText
  <2> QED BY <1>11, <1>15, <1>17, <2>1
<1> QED BY <1>7, <1>8, <1>9, <1>16, <1>17 DEF Replied, Setup

(* The server goes on: the next line to come stays a refusal. *)
LEMMA StaysHopeless ==
  ASSUME MailTypeOK, NEW i \in {1, 2, 3}, Len(Unread) + 1 >= i,
         Len(Unread) >= i => Unread[i].last /\ Unread[i].code \notin {250, 354},
         NEW more, Grows(Unread', Unread, more), Len(more) \in Nat,
         Len(more) > 0,
         Len(Unread) + 1 = i => more[1].last /\ more[1].code \notin {250, 354}
  PROVE  Len(Unread') >= i /\ Unread'[i].last /\ Unread'[i].code \notin {250, 354}
<1>1. Len(Unread) \in Nat BY Lengths
<1>2. CASE Len(Unread) >= i
  <2>1. i \in 1..Len(Unread) BY <1>1, <1>2
  <2>2. Unread'[i] = Unread[i] /\ Len(Unread') >= i BY <1>1, <2>1 DEF Grows
  <2> QED BY <1>2, <2>2
<1>3. CASE Len(Unread) + 1 = i
  <2>1. more[1].last /\ more[1].code \notin {250, 354} /\ 1 \in 1..Len(more) BY <1>3
  <2>2. Len(Unread') >= i BY <1>1, <1>3, <2>1 DEF Grows
  <2>3. Unread'[Len(Unread) + 1] = more[1] BY <2>1 DEF Grows
  <2>4. Unread'[i] = more[1] BY <1>3, <2>3
  <2> QED BY <2>1, <2>2, <2>4
<1> QED BY <1>1, <1>2, <1>3

LEMMA AfterGreet ==
  ASSUME MailInv, Greet
  PROVE  MailInv'
<1>0. /\ MailTypeOK /\ TextLast /\ NoTextYet /\ NoneAcked /\ AtIdle /\ AtSetup /\ AtAuth /\ AtLogin
      /\ AtMail /\ AtRcpt /\ AtData /\ AtText /\ AtEnd
  BY DEF MailInv
<1>1. /\ session = "accepted" /\ session' = "greeted"
      /\ UNCHANGED <<mode, pc, waiting, acked, sent, buffer, smtp, rcpts, queued>>
      /\ Reply(<<LastLine(220)>>)
  BY DEF Greet
<1>2. <<LastLine(220)>> \in Seq(Line) /\ LastLine(220).last /\ LastLine(220).code = 220
      /\ <<LastLine(220)>>[1] = LastLine(220) /\ Len(<<LastLine(220)>>) = 1
  BY OneLine
<1>3. replies' \in Seq(Line) /\ Grows(Unread', Unread, <<LastLine(220)>>)
  BY <1>0, <1>1, <1>2, ReplyFacts
<1>4. MailTypeOK' BY <1>0, <1>1, <1>3 DEF MailTypeOK, Sessions
<1>5. \A i \in 1..Len(smtp) : smtp[i] \notin {"content", "dot"} BY <1>0, <1>1 DEF TextLast
<1>6. TextLast' /\ NoTextYet' /\ NoneAcked'
  BY <1>0, <1>1, <1>5 DEF TextLast, NoTextYet, NoneAcked
<1>7. Len(Unread) \in Nat /\ Len(smtp) \in Nat BY <1>0, Lengths
<1>8. Len(Unread') = Len(Unread) + 1 /\ (Len(Unread) = 0 => Unread'[1] = LastLine(220))
  <2>1. Unread'[Len(Unread) + 1] = <<LastLine(220)>>[1] BY <1>2, <1>3 DEF Grows
  <2> QED BY <1>2, <1>3, <1>7, <2>1 DEF Grows
<1>9. AtIdle' BY <1>0, <1>1 DEF AtIdle
<1>10. OneOpen => OneOpen' /\ Len(Unread) = 0
  BY <1>1, <1>2, <1>7, <1>8 DEF OneOpen, Quiet, SetupAnswer
<1>11. AtSetup' BY <1>0, <1>1, <1>10 DEF AtSetup
<1>12. AuthOpen => AuthOpen'
  <2> SUFFICES ASSUME AuthOpen PROVE AuthOpen' OBVIOUS
  <2>1. Len(Unread) = 0 /\ Len(smtp) = 1 /\ smtp[1] = "AUTH" BY <1>1 DEF AuthOpen
  <2> QED BY <1>1, <1>2, <1>8, <2>1 DEF AuthOpen, SetupAnswer
<1>13. AtAuth' BY <1>0, <1>1, <1>10, <1>12 DEF AtAuth
<1>14. AtLogin' BY <1>0, <1>1 DEF AtLogin, LoginOpen
<1>15. Hopeless(1) => Hopeless(1)'
  <2> SUFFICES ASSUME Hopeless(1) PROVE Hopeless(1)' OBVIOUS
  <2>1. PICK more : more = <<LastLine(220)>> OBVIOUS
  <2>2. /\ Grows(Unread', Unread, more) /\ Len(more) = 1 /\ more[1].last
        /\ more[1].code \notin {250, 354}
    BY <1>2, <1>3, <2>1
  <2>3. 1 \in {1, 2, 3} /\ Len(Unread) + 1 >= 1 BY <1>7
  <2>4. Len(Unread) >= 1 => Unread[1].last /\ Unread[1].code \notin {250, 354} BY DEF Hopeless
  <2>a. /\ Grows(Unread', Unread, more) /\ Len(more) \in Nat /\ Len(more) > 0
        /\ Len(Unread) + 1 = 1 => (more[1].last /\ more[1].code \notin {250, 354})
    BY <2>2
  <2>5. Len(Unread') >= 1 /\ Unread'[1].last /\ Unread'[1].code \notin {250, 354}
    BY ONLY <1>0, <2>a, <2>3, <2>4, StaysHopeless
  <2> QED BY <2>5 DEF Hopeless
<1>16. AtMail' BY <1>0, <1>1, <1>15 DEF AtMail, Misled, Asked
<1>17. AtRcpt' BY <1>0, <1>1, <1>15 DEF AtRcpt, Mailing
<1>18. AtData' BY <1>0, <1>1, <1>15 DEF AtData, Mailing, Asked
<1>19. AtText' BY <1>0, <1>1 DEF AtText
<1>20. AtEnd' BY <1>0, <1>1 DEF AtEnd
<1> QED BY <1>4, <1>6, <1>9, <1>11, <1>13, <1>14, <1>16, <1>17, <1>18, <1>19, <1>20 DEF MailInv

LEMMA AfterGoAway ==
  ASSUME MailInv, GoAway
  PROVE  MailInv'
<1>0. /\ MailTypeOK /\ TextLast /\ NoTextYet /\ NoneAcked /\ AtIdle /\ AtSetup /\ AtAuth /\ AtLogin
      /\ AtMail /\ AtRcpt /\ AtData /\ AtText /\ AtEnd
  BY DEF MailInv
<1>1. /\ session # "away" /\ session' = "gone" /\ Unread' = Unread
      /\ UNCHANGED <<mode, pc, waiting, acked, sent, buffer, replies, smtp, rcpts, queued>>
  BY DEF GoAway, wires, Unread
<1>2. MailTypeOK' BY <1>0, <1>1 DEF MailTypeOK, Sessions
<1>3. TextLast' /\ NoTextYet' /\ NoneAcked' /\ AtEnd'
  BY <1>0, <1>1 DEF TextLast, NoTextYet, NoneAcked, AtEnd, Dotted
<1>4. AtIdle' BY <1>0, <1>1 DEF AtIdle
<1>5. OneOpen => OneOpen' BY <1>1 DEF OneOpen, Quiet, SetupAnswer
<1>6. AtSetup' BY <1>0, <1>1, <1>5 DEF AtSetup, Quiet
<1>7. AtAuth' BY <1>0, <1>1, <1>5 DEF AtAuth, AuthOpen, SetupAnswer
<1>8. AtLogin' BY <1>0, <1>1 DEF AtLogin, LoginOpen, Quiet
<1>9. \A i \in {1, 2, 3} : Hopeless(i) => Hopeless(i)' BY <1>1 DEF Hopeless
<1>10. Misled => Misled' BY <1>1, <1>9 DEF Misled
<1>11. AtMail' BY <1>0, <1>1, <1>9, <1>10 DEF AtMail, Asked, Quiet, Mailing
<1>12. AtRcpt' BY <1>0, <1>1, <1>9 DEF AtRcpt, Asked, Quiet, Mailing
<1>13. AtData' BY <1>0, <1>1, <1>9 DEF AtData, Asked, Quiet, Mailing
<1>14. AtText' BY <1>0, <1>1 DEF AtText, Dotted
<1> QED BY <1>2, <1>3, <1>4, <1>6, <1>7, <1>8, <1>11, <1>12, <1>13, <1>14 DEF MailInv

LEMMA AfterServe ==
  ASSUME MailInv, Serve
  PROVE  MailInv'
<1>0. /\ MailTypeOK /\ TextLast /\ NoTextYet /\ NoneAcked /\ AtIdle /\ AtSetup /\ AtAuth /\ AtLogin
      /\ AtMail /\ AtRcpt /\ AtData /\ AtText /\ AtEnd
  BY DEF MailInv
<1> DEFINE two == <<[code |-> 250, last |-> FALSE], LastLine(250)>>
           h == smtp[1]
<1>1. /\ MailTypeOK'
      /\ Len(smtp) > 0 /\ session \notin {"away", "accepted", "gone"}
      /\ UNCHANGED <<mode, pc, waiting, acked, sent>>
      /\ Rest(smtp', smtp, 1)
      /\ \/ /\ smtp[1] \in {"EHLO", "EHLO2"} /\ session' = "hello" /\ UNCHANGED queued
            /\ Grows(Unread', Unread, <<[code |-> 250, last |-> FALSE], LastLine(250)>>)
         \/ /\ smtp[1] = "content" /\ session = "data" /\ UNCHANGED <<session, rcpts, queued>>
            /\ Grows(Unread', Unread, <<>>)
         \/ /\ smtp[1] = "content" /\ session # "data" /\ UNCHANGED <<session, rcpts, queued>>
            /\ \E l \in Line : Grows(Unread', Unread, <<l>>)
         \/ \E l \in Line : Grows(Unread', Unread, <<l>>) /\ Effect(smtp[1], l)
  BY <1>0, ServeFacts
<1>2. Len(Unread) \in Nat /\ Len(smtp) \in Nat BY <1>0, Lengths
<1>3. Len(smtp') = Len(smtp) - 1 /\ \A i \in 1..(Len(smtp) - 1) : smtp'[i] = smtp[i + 1]
  BY <1>1 DEF Rest
<1>4. 1 \in 1..Len(smtp) BY <1>1, <1>2
<1>5. NoTextYet' /\ NoneAcked'
  <2>1. \A i \in 1..Len(smtp') : i + 1 \in 1..Len(smtp) BY <1>2, <1>3
  <2> QED BY <1>0, <1>1, <1>3, <2>1 DEF NoTextYet, NoneAcked
<1>6. TextLast'
  <2>0. Dotted' = Dotted BY <1>1 DEF Dotted
  <2> SUFFICES ASSUME NEW i \in 1..Len(smtp'), smtp'[i] \in {"content", "dot"}
               PROVE  /\ \/ session' = "data" /\ rcpts' = Recipients
                         \/ Dotted /\ session' = "authed" /\ rcpts' = Recipients
                      /\ \A j \in 1..(i - 1) :
                           smtp'[j] = "content" \/ (Dotted /\ smtp'[j] = "dot")
    BY <2>0 DEF TextLast
  <2>1. i + 1 \in 1..Len(smtp) /\ smtp[i + 1] \in {"content", "dot"} BY <1>2, <1>3
  <2>2. /\ session = "data" \/ (Dotted /\ session = "authed")
        /\ rcpts = Recipients
        /\ \A j \in 1..i : smtp[j] = "content" \/ (Dotted /\ smtp[j] = "dot")
    <3>1. /\ session = "data" \/ (Dotted /\ session = "authed")
          /\ rcpts = Recipients
          /\ \A j \in 1..(i + 1 - 1) : smtp[j] = "content" \/ (Dotted /\ smtp[j] = "dot")
      BY <1>0, <1>1, <2>1 DEF TextLast
    <3>2. i + 1 - 1 = i BY <1>2, <1>3
    <3> QED BY <3>1, <3>2
  <2>3. h = "content" \/ (Dotted /\ h = "dot") BY <1>2, <1>3, <2>2
  <2>4. /\ session' = "data" \/ (Dotted /\ session' = "authed")
        /\ rcpts' = Recipients
    <3>1. CASE h = "content" BY <1>1, <2>2, <3>1 DEF Effect
    <3>2. CASE Dotted /\ h = "dot"
      <4>1. PICK l \in Line : Effect(h, l) BY <1>1, <3>2
      <4> QED BY <2>2, <3>2, <4>1 DEF Effect
    <3> QED BY <2>3, <3>1, <3>2
  <2>5. \A j \in 1..(i - 1) : j \in 1..(Len(smtp) - 1) /\ j + 1 \in 1..i BY <1>2, <1>3
  <2> QED BY <1>3, <2>2, <2>4, <2>5
<1>7. AtIdle' BY <1>0, <1>1 DEF AtIdle, Quiet
<1>8. /\ h \in {"EHLO", "EHLO2"} /\ Grows(Unread', Unread, two) =>
           /\ Len(Unread') = Len(Unread) + 2
           /\ ~Unread'[Len(Unread) + 1].last
           /\ Unread'[Len(Unread) + 2].last /\ Unread'[Len(Unread) + 2].code = 250
      /\ \A l : Grows(Unread', Unread, <<l>>) =>
           Len(Unread') = Len(Unread) + 1 /\ Unread'[Len(Unread) + 1] = l
  <2>1. Len(two) = 2 /\ ~two[1].last /\ two[2].last /\ two[2].code = 250 BY DEF LastLine
  <2>2. ASSUME Grows(Unread', Unread, two)
        PROVE  /\ Len(Unread') = Len(Unread) + 2
               /\ ~Unread'[Len(Unread) + 1].last
               /\ Unread'[Len(Unread) + 2].last /\ Unread'[Len(Unread) + 2].code = 250
    <3>0. PICK t : t = two OBVIOUS
    <3>1. /\ Grows(Unread', Unread, t) /\ Len(t) = 2 /\ ~t[1].last /\ t[2].last
          /\ t[2].code = 250
      BY <2>1, <2>2, <3>0
    <3>2. 1 \in 1..Len(t) /\ 2 \in 1..Len(t) BY <3>1
    <3>3. Unread'[Len(Unread) + 1] = t[1] /\ Unread'[Len(Unread) + 2] = t[2]
      BY <3>1, <3>2 DEF Grows
    <3>4. Len(Unread') = Len(Unread) + 2 BY <3>1 DEF Grows
    <3> QED BY <3>1, <3>3, <3>4
  <2>3. ASSUME NEW l, Grows(Unread', Unread, <<l>>)
        PROVE  Len(Unread') = Len(Unread) + 1 /\ Unread'[Len(Unread) + 1] = l
    <3>1. Len(<<l>>) = 1 /\ <<l>>[1] = l OBVIOUS
    <3>2. Unread'[Len(Unread) + 1] = <<l>>[1] BY <2>3, <3>1 DEF Grows
    <3> QED BY <2>3, <3>1, <3>2 DEF Grows
  <2> QED BY <2>2, <2>3
<1> HIDE DEF two
<1>9. OneOpen => OneOpen'
  <2> SUFFICES ASSUME OneOpen PROVE OneOpen' OBVIOUS
  <2>1. Len(Unread) = 0 /\ Len(smtp) = 1 /\ h \in Setup /\ session \in {"greeted", "hello"}
    BY <1>1 DEF OneOpen, Quiet
  <2>2. Len(smtp') = 0 BY <1>3, <2>1
  <2>3. CASE Grows(Unread', Unread, two) /\ session' = "hello" /\ h \in {"EHLO", "EHLO2"}
    BY <1>8, <2>1, <2>2, <2>3 DEF OneOpen, SetupAnswer
  <2>4. CASE \E l \in Line : Grows(Unread', Unread, <<l>>) /\ Effect(h, l)
    <3>1. PICK l \in Line : Grows(Unread', Unread, <<l>>) /\ Effect(h, l) BY <2>4
    <3>2. l.last /\ l.code \in {220, 250, 500} /\ session' \in {"greeted", "hello"}
      BY <2>1, <3>1 DEF Effect, Setup
    <3>3. Len(Unread') = 1 /\ Unread'[1] = l BY <1>8, <2>1, <3>1
    <3> QED BY <2>2, <3>2, <3>3 DEF OneOpen, SetupAnswer
  <2> QED BY <1>1, <2>1, <2>3, <2>4 DEF Setup, two
<1>10. AtSetup' BY <1>0, <1>1, <1>9 DEF AtSetup, Quiet
<1>11. AuthOpen => AuthOpen'
  <2> SUFFICES ASSUME AuthOpen PROVE AuthOpen' OBVIOUS
  <2>1. CASE /\ Len(Unread) \in 0..2 /\ SetupAnswer(Len(Unread)) /\ Len(smtp) = 1
             /\ smtp[1] = "AUTH"
    <3>1. PICK l \in Line : Grows(Unread', Unread, <<l>>) /\ Effect(h, l) BY <1>1, <2>1
    <3>2. l.last /\ l.code \in {235, 334, 500} /\ session' # "accepted"
      BY <2>1, <3>1 DEF Effect
    <3>3. Len(Unread') = Len(Unread) + 1 /\ Unread'[Len(Unread) + 1] = l BY <1>8, <3>1
    <3>4. \A i \in 1..Len(Unread) : Unread'[i] = Unread[i] BY <3>1 DEF Grows
    <3>5. PICK m : m = Len(Unread) OBVIOUS
    <3>6. SetupAnswer(m)' BY <2>1, <3>4, <3>5 DEF SetupAnswer
    <3>7. Len(smtp') = 0 /\ m \in 0..2 BY <1>3, <2>1, <3>5
    <3>8. Len(Unread') = m + 1 /\ Unread'[m + 1].last /\ Unread'[m + 1].code \in {235, 334, 500}
      BY <3>2, <3>3, <3>5
    <3> QED BY <3>2, <3>6, <3>7, <3>8 DEF AuthOpen
  <2>2. CASE /\ Len(Unread) = 0 /\ Len(smtp) = 2 /\ smtp[1] \in Setup /\ smtp[2] = "AUTH"
             /\ session \in {"greeted", "hello", "gone"}
    <3>1. Len(smtp') = 1 /\ smtp'[1] = "AUTH" BY <1>3, <2>2
    <3>2. CASE Grows(Unread', Unread, two) /\ session' = "hello" /\ h \in {"EHLO", "EHLO2"}
      <4>1. Len(Unread') = 2 /\ ~Unread'[1].last /\ Unread'[2].last /\ Unread'[2].code = 250
        BY <1>8, <2>2, <3>2
      <4> QED BY <3>1, <3>2, <4>1 DEF AuthOpen, SetupAnswer
    <3>3. CASE \E l \in Line : Grows(Unread', Unread, <<l>>) /\ Effect(h, l)
      <4>1. PICK l \in Line : Grows(Unread', Unread, <<l>>) /\ Effect(h, l) BY <3>3
      <4>2. l.last /\ l.code \in {220, 250, 500} /\ session' \in {"greeted", "hello"}
        BY <1>1, <2>2, <4>1 DEF Effect, Setup
      <4>3. Len(Unread') = 1 /\ Unread'[1] = l BY <1>8, <2>2, <4>1
      <4> QED BY <3>1, <4>2, <4>3 DEF AuthOpen, SetupAnswer
    <3> QED BY <1>1, <2>2, <3>2, <3>3 DEF Setup, two
  <2> QED BY <1>1, <2>1, <2>2 DEF AuthOpen
<1>12. AtAuth' BY <1>0, <1>1, <1>9, <1>11 DEF AtAuth
<1>13. AtLogin'
  <2> SUFFICES ASSUME pc \in {"user", "password"} PROVE AtLogin' BY <1>1 DEF AtLogin
  <2>1. waiting /\ Len(Unread) = 0 /\ Len(smtp) = 1 /\ h \in {"user", "password"}
    BY <1>0, <1>1 DEF AtLogin, LoginOpen, Quiet
  <2>2. PICK l \in Line : Grows(Unread', Unread, <<l>>) /\ Effect(h, l) BY <1>1, <2>1
  <2>3. l.last /\ l.code \in {235, 334, 500} /\ session' # "accepted" BY <2>1, <2>2 DEF Effect
  <2>4. Len(Unread') = 1 /\ Unread'[1] = l /\ Len(smtp') = 0 BY <1>3, <1>8, <2>1, <2>2
  <2> QED BY <1>1, <2>1, <2>3, <2>4 DEF AtLogin, LoginOpen
<1>14. ASSUME pc \in {"MAIL", "RCPT", "DATA"}, NEW i \in {1, 2, 3}, Hopeless(i), Len(Unread) + 1 >= i
       PROVE  Hopeless(i)'
  <2>0. Len(Unread) >= i => Unread[i].last /\ Unread[i].code \notin {250, 354}
    BY <1>14 DEF Hopeless
  <2>1. h # "content" BY <1>0, <1>4, <1>14 DEF NoTextYet
  <2>2. CASE Grows(Unread', Unread, two) /\ h \in {"EHLO", "EHLO2"}
    <3>1. Len(Unread) + 1 # i BY <1>1, <1>2, <1>14, <2>2 DEF Hopeless
    <3>2. PICK more : more = two OBVIOUS
    <3>3. Grows(Unread', Unread, more) /\ Len(more) = 2 BY <2>2, <3>2 DEF two
    <3>4. Len(Unread') >= i /\ Unread'[i].last /\ Unread'[i].code \notin {250, 354}
      BY <1>0, <1>14, <2>0, <3>1, <3>3, StaysHopeless
    <3> QED BY <3>4 DEF Hopeless
  <2>3. CASE \E l \in Line : Grows(Unread', Unread, <<l>>) /\ Effect(h, l)
    <3>1. PICK l \in Line : Grows(Unread', Unread, <<l>>) /\ Effect(h, l) BY <2>3
    <3>2. ASSUME Len(Unread) + 1 = i PROVE l.last /\ l.code \notin {250, 354}
      <4>0. ~(Len(Unread) >= i) /\ Len(smtp) # 0 BY <1>1, <1>2, <3>2
      <4>a. session # "gone" /\ Hopeless(i) BY <1>1, <1>14
      <4>1. \/ h \in {"STARTTLS", "AUTH", "user", "password"}
            \/ (h = "MAIL" /\ session # "authed")
        BY ONLY <4>0, <4>a DEF Hopeless
      <4> QED BY <3>1, <4>1 DEF Effect
    <3>3. PICK more : more = <<l>> OBVIOUS
    <3>4. Grows(Unread', Unread, more) /\ Len(more) = 1 /\ more[1] = l BY <3>1, <3>3
    <3>b. /\ Grows(Unread', Unread, more) /\ Len(more) \in Nat /\ Len(more) > 0
          /\ Len(Unread) + 1 = i => (more[1].last /\ more[1].code \notin {250, 354})
      BY <3>2, <3>4
    <3>c. i \in {1, 2, 3} /\ Len(Unread) + 1 >= i BY <1>14
    <3>5. Len(Unread') >= i /\ Unread'[i].last /\ Unread'[i].code \notin {250, 354}
      BY ONLY <1>0, <2>0, <3>b, <3>c, StaysHopeless
    <3> QED BY <3>5 DEF Hopeless
  <2> QED BY <1>1, <2>1, <2>2, <2>3 DEF two
<1>15. ASSUME pc = "MAIL", Misled PROVE Misled' \/ Hopeless(1)'
  <2>1. CASE /\ Len(Unread) = 0 /\ smtp[1] \in {"EHLO", "EHLO2"} /\ session # "authed"
             /\ IF Len(smtp) = 1 THEN pc = "MAIL" /\ ~waiting ELSE smtp[2] \in {"AUTH", "MAIL"}
    <3>1. CASE Grows(Unread', Unread, two) /\ session' = "hello"
      <4>1. Len(Unread') = 2 /\ ~Unread'[1].last /\ Unread'[2].last /\ Unread'[2].code = 250
        BY <1>8, <2>1, <3>1
      <4>2. Hopeless(3)'
        <5>1. CASE Len(smtp) = 1
          <6>1. Len(smtp') = 0 BY <1>3, <5>1
          <6> QED BY <1>1, <2>1, <3>1, <4>1, <5>1, <6>1 DEF Hopeless
        <5>2. CASE Len(smtp) # 1
          <6>1. Len(smtp') > 0 /\ smtp'[1] = smtp[2] BY <1>1, <1>2, <1>3, <5>2
          <6> QED BY <2>1, <3>1, <4>1, <5>2, <6>1 DEF Hopeless
        <5> QED BY <5>1, <5>2
      <4> QED BY <3>1, <4>1, <4>2 DEF Misled
    <3>2. CASE \E l \in Line : Grows(Unread', Unread, <<l>>) /\ Effect(h, l)
      <4>1. PICK l \in Line : Grows(Unread', Unread, <<l>>) /\ Effect(h, l) BY <3>2
      <4>2. l.last /\ l.code = 500 BY <2>1, <4>1 DEF Effect
      <4>3. Len(Unread') = 1 /\ Unread'[1] = l BY <1>8, <2>1, <4>1
      <4> QED BY <4>2, <4>3 DEF Hopeless
    <3> QED BY <1>1, <2>1, <3>1, <3>2 DEF two
  <2>2. h # "content" BY <1>0, <1>4, <1>15 DEF NoTextYet
  <2>3. session' # "accepted" BY <1>1, <2>2 DEF Effect
  <2>4. \A i \in 1..Len(Unread) : Unread'[i] = Unread[i] BY <1>1, <2>2 DEF Grows
  <2>5. Len(Unread') >= Len(Unread)
    <3>1. Len(Unread') = Len(Unread) + 2 \/ Len(Unread') = Len(Unread) + 1
      BY <1>1, <1>8, <2>2 DEF two
    <3> QED BY <1>2, <3>1
  <2>6. CASE Len(Unread) > 0 /\ Unread[1].last /\ Unread[1].code = 250 /\ Hopeless(2)
    <3>1. Len(Unread) + 1 >= 2 /\ 1 \in 1..Len(Unread) BY <1>2, <2>6
    <3>2. Hopeless(2)' BY <1>14, <1>15, <2>6, <3>1
    <3>3. Unread'[1] = Unread[1] /\ Len(Unread') > 0 BY <1>2, <2>4, <2>5, <2>6, <3>1
    <3> QED BY <2>3, <2>6, <3>2, <3>3 DEF Misled
  <2>7. CASE /\ Len(Unread) >= 2 /\ ~Unread[1].last /\ Unread[2].last /\ Unread[2].code = 250
             /\ Hopeless(3)
    <3>1. Len(Unread) + 1 >= 3 /\ 1 \in 1..Len(Unread) /\ 2 \in 1..Len(Unread) BY <1>2, <2>7
    <3>2. Hopeless(3)' BY <1>14, <1>15, <2>7, <3>1
    <3>3. Unread'[1] = Unread[1] /\ Unread'[2] = Unread[2] BY <2>4, <3>1
    <3>4. Len(Unread') >= 2 BY <1>2, <2>5, <2>7
    <3> QED BY <2>3, <2>7, <3>2, <3>3, <3>4 DEF Misled
  <2> QED BY <1>15, <2>1, <2>6, <2>7 DEF Misled
<1>16. ASSUME pc \in {"MAIL", "RCPT", "DATA"}, Asked(pc)
       PROVE  /\ Len(Unread) = 0 /\ Asked(pc)' /\ Len(Unread') = 1
              /\ \E l \in Line : l = Unread'[1] /\ Effect(pc, l)
  <2>1. Len(Unread) = 0 /\ Len(smtp) = 1 /\ h = pc BY <1>1, <1>16 DEF Asked
  <2>2. PICK l \in Line : Grows(Unread', Unread, <<l>>) /\ Effect(h, l) BY <1>1, <1>16, <2>1
  <2>3. Len(Unread') = 1 /\ Unread'[1] = l /\ Len(smtp') = 0 BY <1>3, <1>8, <2>1, <2>2
  <2>4. l.last /\ session' # "accepted" BY <2>2 DEF Effect
  <2>5. Asked(pc)' BY <2>3, <2>4 DEF Asked
  <2> QED BY <2>1, <2>2, <2>3, <2>5
<1>17. Len(Unread) + 1 >= 1 /\ ~Quiet BY <1>1, <1>2 DEF Quiet
<1>18. AtMail'
  <2> SUFFICES ASSUME pc = "MAIL" PROVE AtMail' BY <1>1 DEF AtMail
  <2>1. CASE Hopeless(1) \/ Misled BY <1>14, <1>15, <1>17, <2>1 DEF AtMail
  <2>2. CASE waiting /\ Asked("MAIL")
    <3>1. Asked("MAIL")' /\ \E l \in Line : l = Unread'[1] /\ Effect("MAIL", l)
      BY <1>1, <1>16, <2>2
    <3>2. Unread'[1].code = 250 => Mailing' /\ rcpts' = 0 BY <3>1 DEF Effect, Mailing
    <3> QED BY <1>1, <2>2, <3>1, <3>2 DEF AtMail
  <2> QED BY <1>0, <1>17, <2>1, <2>2 DEF AtMail
<1>19. AtRcpt'
  <2> SUFFICES ASSUME pc = "RCPT" PROVE AtRcpt' BY <1>1 DEF AtRcpt
  <2>1. CASE Hopeless(1)
    <3>1. Hopeless(1)' BY <1>14, <1>17, <2>1
    <3> QED BY <1>0, <1>1, <3>1 DEF AtRcpt
  <2>2. CASE waiting /\ Asked("RCPT") /\ Mailing
             /\ rcpts = IF Len(Unread) > 0 /\ Unread[1].code = 250 THEN acked + 1 ELSE acked
    <3>1. /\ Asked("RCPT")' /\ Len(Unread) = 0 /\ Len(Unread') = 1
          /\ \E l \in Line : l = Unread'[1] /\ Effect("RCPT", l)
      BY <1>1, <1>16, <2>2
    <3>2. session = "mail" BY <1>1, <2>2 DEF Mailing
    <3>3. Mailing' /\ rcpts' = IF Unread'[1].code = 250 THEN rcpts + 1 ELSE rcpts
      BY <3>1, <3>2 DEF Effect, Mailing
    <3>4. rcpts = acked BY <2>2, <3>1
    <3> QED BY <1>0, <1>1, <2>2, <3>1, <3>3, <3>4 DEF AtRcpt
  <2> QED BY <1>0, <1>17, <2>1, <2>2 DEF AtRcpt
<1>20. AtData'
  <2> SUFFICES ASSUME pc = "DATA" PROVE AtData' BY <1>1 DEF AtData
  <2>1. CASE Hopeless(1) BY <1>14, <1>17, <2>1 DEF AtData
  <2>2. CASE waiting /\ Asked("DATA") /\ rcpts = Recipients
    <3>1. /\ Asked("DATA")' /\ Len(Unread') = 1
          /\ \E l \in Line : l = Unread'[1] /\ Effect("DATA", l)
      BY <1>1, <1>16, <2>2
    <3>2. rcpts' = rcpts /\ (Unread'[1].code = 354 => session' = "data") BY <3>1 DEF Effect
    <3> QED BY <1>1, <2>2, <3>1, <3>2 DEF AtData
  <2> QED BY <1>0, <1>17, <2>1, <2>2 DEF AtData
<1>21. AtText'
  <2> SUFFICES ASSUME pc \in {"content", "dot"} PROVE AtText' BY <1>1 DEF AtText
  <2>0. Dotted' = Dotted BY <1>1 DEF Dotted
  <2>1. /\ pc = "dot"
        /\ \A i \in 1..Len(smtp) : smtp[i] = "content" \/ (smtp[i] = "dot" /\ (waiting \/ Dotted))
        /\ \/ Len(Unread) = 0 /\ session = "data" /\ rcpts = Recipients
           \/ /\ waiting \/ Dotted
              /\ Len(Unread) > 0 /\ Unread[1].last /\ session = "authed" /\ rcpts = Recipients
              /\ Unread[1].code = 250 => queued = Recipients
    BY <1>0, <1>1 DEF AtText
  <2>2. \A i \in 1..Len(smtp') : i + 1 \in 1..Len(smtp) BY <1>2, <1>3
  <2>3. \A i \in 1..Len(smtp') : smtp'[i] = "content" \/ (smtp'[i] = "dot" /\ (waiting \/ Dotted))
    BY <1>3, <2>1, <2>2
  <2>4. h = "content" \/ (h = "dot" /\ (waiting \/ Dotted)) BY <1>4, <2>1
  <2>5. CASE Len(Unread) = 0 /\ session = "data" /\ rcpts = Recipients /\ h = "content"
    <3>1. Grows(Unread', Unread, <<>>) /\ UNCHANGED <<session, rcpts, queued>>
      BY <1>1, <2>5 DEF Effect
    <3>2. Len(Unread') = 0 BY <2>5, <3>1 DEF Grows
    <3> QED BY <1>1, <2>0, <2>1, <2>3, <2>5, <3>1, <3>2 DEF AtText
  <2>6. CASE Len(Unread) = 0 /\ session = "data" /\ rcpts = Recipients /\ h = "dot"
    <3>1. PICK l \in Line : Grows(Unread', Unread, <<l>>) /\ Effect(h, l) BY <1>1, <2>6
    <3>2. Len(Unread') = 1 /\ Unread'[1] = l BY <1>8, <2>6, <3>1
    <3>3. /\ l.last /\ session' = "authed" /\ rcpts' = Recipients
          /\ l.code = 250 => queued' = Recipients
      BY <2>6, <3>1 DEF Effect
    <3>4. waiting \/ Dotted BY <2>4, <2>6
    <3> QED BY <1>1, <2>0, <2>1, <2>3, <3>2, <3>3, <3>4 DEF AtText
  <2>7. CASE /\ waiting \/ Dotted
             /\ Len(Unread) > 0 /\ Unread[1].last /\ session = "authed" /\ rcpts = Recipients
             /\ Unread[1].code = 250 => queued = Recipients
    <3>1. PICK l \in Line : Grows(Unread', Unread, <<l>>) /\ (h = "content" \/ Effect(h, l))
      BY <1>1, <2>4, <2>7
    <3>2. Len(Unread') = Len(Unread) + 1 BY <1>8, <3>1
    <3>3. 1 \in 1..Len(Unread) BY <1>2, <2>7
    <3>4. Unread'[1] = Unread[1] /\ Len(Unread') > 0 BY <1>2, <3>1, <3>2, <3>3 DEF Grows
    <3>5. session' = "authed" /\ rcpts' = Recipients /\ queued' = queued
      <4>1. CASE h = "content" BY <1>1, <2>7, <4>1 DEF Effect
      <4>2. CASE h = "dot" BY <2>7, <3>1, <4>2 DEF Effect
      <4> QED BY <2>4, <4>1, <4>2
    <3> QED BY <1>1, <2>0, <2>1, <2>3, <2>7, <3>4, <3>5 DEF AtText
  <2> QED BY <2>1, <2>4, <2>5, <2>6, <2>7
<1>22. AtEnd'
  <2>1. CASE pc \in {"QUIT", "returned"} /\ sent = "yes"
    <3>1. /\ ~waiting /\ queued = Recipients /\ session # "data"
          /\ \A i \in 1..Len(smtp) : smtp[i] \in {"content", "dot", "QUIT"}
      BY <1>0, <2>1 DEF AtEnd
    <3>2. h \in {"content", "dot", "QUIT"} BY <1>4, <3>1
    <3>3. queued' = queued /\ session' # "data" BY <1>1, <3>1, <3>2 DEF Effect
    <3>4. \A i \in 1..Len(smtp') : i + 1 \in 1..Len(smtp) BY <1>2, <1>3
    <3>5. \A i \in 1..Len(smtp') : smtp'[i] \in {"content", "dot", "QUIT"} BY <1>3, <3>1, <3>4
    <3> QED BY <1>1, <2>1, <3>1, <3>3, <3>5 DEF AtEnd
  <2>2. CASE ~(pc \in {"QUIT", "returned"} /\ sent = "yes")
    BY <1>0, <1>1, <2>2 DEF AtEnd
  <2> QED BY <2>1, <2>2
<1> QED BY <1>1, <1>5, <1>6, <1>7, <1>10, <1>12, <1>13, <1>18, <1>19, <1>20, <1>21, <1>22
        DEF MailInv

LEMMA MailStart == MailInit => MailInv
<1> SUFFICES ASSUME MailInit PROVE MailInv OBVIOUS
<1>1. buffer = <<>> /\ replies = <<>> /\ smtp = <<>> /\ pc = "idle" /\ sent = "none"
      /\ waiting = FALSE /\ acked = 0 /\ session = "away"
  BY DEF MailInit
<1>2. MailTypeOK BY EmptySeq DEF MailInit, MailTypeOK, Steps, Sessions
<1>3. Unread = <<>> BY <1>1, EmptySeq, ConcatEmptySeq DEF Unread
<1>4. Len(Unread) = 0 /\ Len(smtp) = 0 BY <1>1, <1>3, EmptySeq
<1>5. TextLast /\ NoTextYet /\ NoneAcked BY <1>1, <1>4 DEF TextLast, NoTextYet, NoneAcked
<1>6. AtIdle /\ AtSetup /\ AtAuth /\ AtLogin /\ AtMail /\ AtRcpt /\ AtData /\ AtText /\ AtEnd
  BY <1>1, <1>4
     DEF AtIdle, AtSetup, AtAuth, AtLogin, AtMail, AtRcpt, AtData, AtText, AtEnd, Quiet, Setup
<1> QED BY <1>2, <1>5, <1>6 DEF MailInv

LEMMA MailStep == MailInv /\ [MailNext]_mail => MailInv'
<1> SUFFICES ASSUME MailInv, [MailNext]_mail PROVE MailInv' OBVIOUS
<1>0. /\ MailTypeOK /\ TextLast /\ NoTextYet /\ NoneAcked /\ AtIdle /\ AtSetup /\ AtAuth /\ AtLogin
      /\ AtMail /\ AtRcpt /\ AtData /\ AtText /\ AtEnd
  BY DEF MailInv
<1>1. CASE ConnectToHost
  <2>1. /\ pc = "idle" /\ UNCHANGED <<mode, acked, sent, buffer, replies, smtp, rcpts, queued>>
        /\ Unread' = Unread
        /\ \/ pc' = "greeting" /\ waiting' = TRUE /\ session' = "accepted"
           \/ pc' = "AUTH" /\ waiting' = FALSE /\ session' = "away"
    BY <1>1 DEF ConnectToHost, wires, Unread, Abandon
  <2>2. Quiet /\ sent = "none" /\ acked = 0 BY <1>0, <2>1 DEF AtIdle, AtEnd, NoneAcked
  <2>3. Quiet' BY <2>1, <2>2 DEF Quiet
  <2>4. MailTypeOK' BY <1>0, <2>1 DEF MailTypeOK, Steps, Sessions, Commands, Replied
  <2>5. TextLast' /\ NoTextYet' /\ NoneAcked'
    BY <1>0, <2>1, <2>2, <2>3 DEF TextLast, NoTextYet, NoneAcked, Quiet
  <2>6. AtSetup' /\ AtAuth' BY <2>1, <2>3 DEF AtSetup, AtAuth, OneOpen, Setup
  <2> QED BY <2>1, <2>2, <2>4, <2>5, <2>6, Elsewhere DEF MailInv, Setup
<1>2. ASSUME NEW step \in Commands, SendMessage(step) PROVE MailInv' BY <1>2, AfterSend
<1>3. ASSUME NEW step \in Commands, SendMessageTimeout(step) PROVE MailInv'
  <2>1. pc = step /\ ~waiting /\ pc' = Abandon(step) /\ Verdict(step, FALSE)
        /\ UNCHANGED <<mode, waiting, acked, wires, peers>>
    BY <1>3 DEF SendMessageTimeout
  <2>2. waiting' = FALSE BY <1>0, <2>1 DEF MailTypeOK
  <2>3. step # "greeting" BY DEF Commands
  <2> QED BY <2>1, <2>2, <2>3, AfterFailure
<1>4. ASSUME NEW step \in Replied, WaitForResponse(step) PROVE MailInv' BY <1>4, AfterReply
<1>5. ASSUME NEW step \in Replied, ResponseTimeout(step) PROVE MailInv'
  <2>1. pc = step /\ waiting /\ waiting' = FALSE /\ pc' = Abandon(step) /\ Verdict(step, FALSE)
        /\ UNCHANGED <<mode, acked, wires, peers>>
    BY <1>5 DEF ResponseTimeout
  <2> QED BY <2>1, AfterFailure
<1>6. CASE WaitForEncrypted
  <2>1. /\ pc = "encrypt" /\ pc' \in {"EHLO2", Abandon("encrypt")}
        /\ UNCHANGED <<mode, waiting, acked, sent, wires, peers>>
    BY <1>6 DEF WaitForEncrypted
  <2>2. ~waiting BY <1>0, <2>1 DEF AtSetup
  <2>3. CASE pc' = "EHLO2"
    <3>1. UNCHANGED <<mode, acked, sent, buffer, replies, smtp, session, rcpts, queued>>
          /\ Unread' = Unread /\ waiting' = waiting
      BY <2>1 DEF wires, peers, Unread
    <3>2. Quiet /\ session \in {"greeted", "hello", "gone"} BY <1>0, <2>1, <2>2 DEF AtSetup
    <3>3. MailTypeOK' BY <1>0, <2>3, <3>1 DEF MailTypeOK, Steps, Commands
    <3>4. TextLast' /\ NoTextYet' /\ NoneAcked'
      BY <1>0, <2>1, <2>3, <3>1 DEF TextLast, NoTextYet, NoneAcked, Dotted
    <3>5. AtSetup' BY <2>2, <2>3, <3>1, <3>2 DEF AtSetup, Quiet
    <3>6. sent' = "none" BY <1>0, <2>1, <3>1 DEF AtEnd
    <3> QED BY <2>3, <3>3, <3>4, <3>5, <3>6, Elsewhere DEF MailInv, Setup
  <2>4. CASE pc' = Abandon("encrypt")
    <3>1. waiting' = FALSE BY <1>0, <2>1, <2>2 DEF MailTypeOK
    <3>2. Verdict("encrypt", FALSE) BY <2>1 DEF Verdict, InSendMail
    <3> QED BY <2>1, <2>2, <2>4, <3>1, <3>2, AfterFailure
  <2> QED BY <2>1, <2>3, <2>4
<1>7. CASE UNCHANGED mail
  <2>1. /\ UNCHANGED <<mode, pc, waiting, acked, sent, buffer, replies, smtp, session, rcpts, queued>>
        /\ Unread' = Unread
    BY <1>7 DEF mail, wires, peers, Unread
  <2>2. MailTypeOK' BY <1>0, <2>1 DEF MailTypeOK
  <2>3. TextLast' /\ NoTextYet' /\ NoneAcked' /\ AtIdle' /\ AtEnd' /\ AtText'
    BY <1>0, <2>1 DEF TextLast, NoTextYet, NoneAcked, AtIdle, AtEnd, AtText, Quiet, Dotted
  <2>4. AtSetup' /\ AtAuth' /\ AtLogin'
    BY <1>0, <2>1 DEF AtSetup, AtAuth, AtLogin, OneOpen, AuthOpen, LoginOpen, Quiet, SetupAnswer
  <2>5. \A i \in {1, 2, 3} : Hopeless(i) => Hopeless(i)' BY <2>1 DEF Hopeless
  <2>6. Misled => Misled' BY <2>1, <2>5 DEF Misled
  <2>7. AtMail' /\ AtRcpt' /\ AtData'
    BY <1>0, <2>1, <2>5, <2>6 DEF AtMail, AtRcpt, AtData, Asked, Quiet, Mailing
  <2> QED BY <2>2, <2>3, <2>4, <2>7 DEF MailInv
<1> QED BY <1>1, <1>2, <1>3, <1>4, <1>5, <1>6, <1>7, AfterGreet, AfterServe, AfterGoAway DEF MailNext

(* sendMail() returns true only for a mail that the server has taken over  *)
(* for every recipient, however many there are and however many replies    *)
(* are late (smtpsender.cpp, globals.cpp).                                 *)
THEOREM MailIsTrue == MailSpec => []AcceptedIsTrue
<1>1. MailInv => AcceptedIsTrue BY DEF MailInv, AtEnd, AcceptedIsTrue
<1> QED BY <1>1, MailStart, MailStep, PTL DEF MailSpec

(* The text of a mail and the dot behind it are under way only to a server *)
(* that waits for them, or that has hung up; lines of it are taken for     *)
(* commands only behind a lone dot in the text, at which that server has   *)
(* ended the mail (smtpclient.cpp: sendMail(), which does not double a     *)
(* leading dot).  This holds for every text, however many dots it has.     *)
THEOREM TextOnlyAsData == MailSpec => []ContentOnlyAsData
<1>1. MailInv => ContentOnlyAsData
  <2> SUFFICES ASSUME MailInv, smtp # <<>>, Head(smtp) \in {"content", "dot"}
               PROVE  \/ session \in {"data", "gone"}
                      \/ Dotted /\ session = "authed" /\ rcpts = Recipients
    BY DEF ContentOnlyAsData, TextLines
  <2>1. MailTypeOK /\ TextLast BY DEF MailInv
  <2>2. Len(smtp) > 0 BY <2>1, EmptySeq DEF MailTypeOK
  <2>3. 1 \in 1..Len(smtp) BY <2>1, <2>2, Lengths
  <2> QED BY <2>1, <2>3, Heads DEF TextLast
<1> QED BY <1>1, MailStart, MailStep, PTL DEF MailSpec
=============================================================================
