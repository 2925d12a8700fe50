------------------------- MODULE WebSocketsListener -------------------------
(***************************************************************************)
(* Broadcasts to WebSocket clients.  The slots of WebSocketsListener run   *)
(* in the main thread and change the list of clients; any worker may call  *)
(* WebServer::broadcastWSocketsTextMessage(), which holds websokets_mutex  *)
(* while it walks through the lists of both listeners.  The slots take no  *)
(* lock.  QList is modelled down to what that exposes: the walk holds two  *)
(* positions in the list's block, a removal moves what follows one slot    *)
(* down and leaves the old last slot behind, an append may move the block. *)
(* Touching a moved block or a deleted socket is a fault, after which      *)
(* nothing is known.                                                       *)
(***************************************************************************)
EXTENDS Naturals, Sequences, FiniteSets, SequencesExt

CONSTANTS
  Sockets,     \* clients ever connected
  Count,       \* listeners: the plain one and, in a release build, the secure one
  ListenerOf,  \* the port a client connects to
  Workers,     \* threads that broadcast
  Messages,    \* texts, each broadcast once
  Topics,      \* values of the property a broadcast may be filtered by
  NoTopic,     \* the property is not set
  NoFilter,    \* no filter
  AnyTopic,    \* a filter without a value: the property must be set
  Filters,     \* filters used
  MaxMarks     \* bound: changes of that property

Listeners == 1..Count

ASSUME ListenersAssumption ==
  /\ Count \in Nat \ {0}
  /\ ListenerOf \in [Sockets -> Listeners]
  /\ Filters \subseteq Topics \cup {NoFilter, AnyTopic}
  /\ MaxMarks \in Nat

VARIABLES
  slots,   \* the block of each list
  size,    \* how many of its slots are in the list
  socket,  \* "new", "open", "left" (to be deleted) or "deleted"
  topic,   \* the property of each client
  inbox,   \* what was sent to each client
  holder,  \* the worker that holds websokets_mutex, or none: <<>>
  walk,    \* the broadcast each worker is at
  said,    \* messages taken
  marks,   \* changes of properties (bound)
  server,  \* "open" or "closed"
  fault

sockets == <<slots, size, socket, topic, inbox, holder, walk, said, marks, server, fault>>

NoWalk == [pc |-> "idle"]

ListenerInit ==
  /\ slots = [l \in Listeners |-> <<>>]
  /\ size = [l \in Listeners |-> 0]
  /\ socket = [s \in Sockets |-> "new"]
  /\ topic = [s \in Sockets |-> NoTopic]
  /\ inbox = [s \in Sockets |-> <<>>]
  /\ holder = <<>>
  /\ walk = [w \in Workers |-> NoWalk]
  /\ said = {} /\ marks = 0
  /\ server = "open" /\ fault = FALSE

Clients(l) == SubSeq(slots[l], 1, size[l])

Walking(w) == walk[w].pc = "walking"

----------------------------------------------------------------------------
(* The main thread.  "calm" remembers that nothing has changed since a     *)
(* broadcast began, "moved" that the block it walks through is gone.       *)

Stir(ws) == [w \in Workers |-> IF Walking(w) THEN ws[w] ELSE walk[w]]

Disturbed == Stir([w \in Workers |-> [walk[w] EXCEPT !.calm = FALSE]])

(* A new client is appended. Another list than the one being walked, or a  *)
(* block with room, leaves the walk alone.                                 *)
OnNewWebSocketConnection(s) ==
  LET l == ListenerOf[s]
  IN /\ server = "open" /\ ~fault /\ socket[s] = "new"
     /\ socket' = [socket EXCEPT ![s] = "open"]
     /\ size' = [size EXCEPT ![l] = @ + 1]
     /\ slots' = [slots EXCEPT ![l] = Clients(l) \o <<s>> \o SubSeq(@, size[l] + 2, Len(@))]
     /\ \E grows \in BOOLEAN :
          walk' = Stir([w \in Workers |->
            [walk[w] EXCEPT !.calm = FALSE, !.moved = @ \/ (grows /\ walk[w].list = l)]])
     /\ UNCHANGED <<topic, inbox, holder, said, marks, server, fault>>

(* What removeAll() leaves of a list. *)
KeptAll(l, s) == Clients(l)

Kept(l, s) ==
  LET list == Clients(l)
      upto[n \in 0..Len(list)] ==
        IF n = 0 THEN <<>> ELSE IF list[n] = s THEN upto[n - 1] ELSE Append(upto[n - 1], list[n])
  IN  upto[Len(list)]

(* removeAll() closes the gap; deleteLater() leaves the socket alive until *)
(* the event loop comes to it.                                             *)
WebSocketDisconnected(s) ==
  LET l == ListenerOf[s]
      kept == Kept(l, s)
  IN /\ server = "open" /\ ~fault /\ socket[s] = "open"
     /\ socket' = [socket EXCEPT ![s] = "left"]
     /\ size' = [size EXCEPT ![l] = Len(kept)]
     /\ slots' = [slots EXCEPT ![l] = kept \o SubSeq(@, Len(kept) + 1, Len(@))]
     /\ walk' = Disturbed
     /\ UNCHANGED <<topic, inbox, holder, said, marks, server, fault>>

DeferredDelete(s) ==
  /\ ~fault /\ socket[s] = "left"
  /\ socket' = [socket EXCEPT ![s] = "deleted"]
  /\ UNCHANGED <<slots, size, topic, inbox, holder, walk, said, marks, server, fault>>

(* A message from a client: the application's handlers may mark it.        *)
ProcessWebSocketTextMessage(s) ==
  /\ server = "open" /\ ~fault /\ socket[s] = "open" /\ marks < MaxMarks
  /\ \E t \in Topics : topic[s] # t /\ topic' = [topic EXCEPT ![s] = t]
  /\ marks' = marks + 1
  /\ walk' = Disturbed
  /\ UNCHANGED <<slots, size, socket, inbox, holder, said, server, fault>>

(* The destructor, after the pool is done: every listed client is deleted. *)
Close ==
  /\ server = "open" /\ ~fault /\ \A w \in Workers : walk[w].pc \in {"idle", "returned"}
  /\ server' = "closed"
  /\ socket' = [s \in Sockets |-> IF \E l \in Listeners : s \in ToSet(Clients(l))
                                  THEN "deleted" ELSE socket[s]]
  /\ UNCHANGED <<slots, size, topic, inbox, holder, walk, said, marks, fault>>

----------------------------------------------------------------------------
(* A worker: broadcastWSocketsTextMessage(). *)

Passes(s, filter) ==
  \/ filter = NoFilter
  \/ filter = AnyTopic /\ topic[s] # NoTopic
  \/ topic[s] = filter

Audience(filter) ==
  {s \in Sockets : socket[s] = "open" /\ Passes(s, filter)}

FreeAlways == TRUE

Free == holder = <<>>

(* The call and its first lock: before it, nothing is touched. *)
Lock(w, m, filter) ==
  /\ server = "open" /\ ~fault /\ walk[w].pc \in {"idle", "returned"} /\ m \notin said
  /\ Free
  /\ holder' = <<w>>
  /\ said' = said \cup {m}
  /\ walk' = [walk EXCEPT ![w] =
       [pc |-> "walking", message |-> m, filter |-> filter, list |-> 1,
        at |-> 0, end |-> size[1], moved |-> FALSE, sended_once |-> FALSE,
        calm |-> TRUE, audience |-> Audience(filter)]]
  /\ UNCHANGED <<slots, size, socket, topic, inbox, marks, server, fault>>

(* One turn of the loop in broadcastTextMessage(). *)
SendTextMessage(w) ==
  LET b == walk[w]
      s == slots[b.list][b.at + 1]
  IN /\ ~fault /\ Walking(w) /\ b.at < b.end /\ ~b.moved /\ socket[s] # "deleted"
     /\ walk' = [walk EXCEPT ![w].at = @ + 1,
                             ![w].sended_once = @ \/ Passes(s, b.filter)]
     /\ inbox' = IF Passes(s, b.filter) /\ socket[s] = "open"
                 THEN [inbox EXCEPT ![s] = Append(@, b.message)] ELSE inbox
     /\ UNCHANGED <<slots, size, socket, topic, holder, said, marks, server, fault>>

Fault(w) ==
  LET b == walk[w]
  IN /\ ~fault /\ Walking(w) /\ b.at < b.end
     /\ b.moved \/ socket[slots[b.list][b.at + 1]] = "deleted"
     /\ fault' = TRUE
     /\ UNCHANGED <<slots, size, socket, topic, inbox, holder, walk, said, marks, server>>

NextList(w) ==
  LET b == walk[w]
  IN /\ ~fault /\ Walking(w) /\ b.at = b.end /\ b.list + 1 \in Listeners
     /\ walk' = [walk EXCEPT ![w].list = @ + 1, ![w].at = 0, ![w].end = size[b.list + 1],
                             ![w].moved = FALSE]
     /\ UNCHANGED <<slots, size, socket, topic, inbox, holder, said, marks, server, fault>>

(* What it returns is kept for the property below, if nothing came between. *)
Return(w) ==
  LET b == walk[w]
  IN /\ ~fault /\ Walking(w) /\ b.at = b.end /\ b.list + 1 \notin Listeners
     /\ holder' = <<>>
     /\ walk' = [walk EXCEPT ![w] =
          IF b.calm THEN [pc |-> "returned", message |-> b.message,
                          sended_once |-> b.sended_once, audience |-> b.audience]
          ELSE NoWalk]
     /\ UNCHANGED <<slots, size, socket, topic, inbox, said, marks, server, fault>>

----------------------------------------------------------------------------
ListenerNext ==
  \/ \E s \in Sockets :
       \/ OnNewWebSocketConnection(s)
       \/ WebSocketDisconnected(s)
       \/ DeferredDelete(s)
       \/ ProcessWebSocketTextMessage(s)
  \/ Close
  \/ \E w \in Workers :
       \/ \E m \in Messages, filter \in Filters : Lock(w, m, filter)
       \/ SendTextMessage(w)
       \/ Fault(w)
       \/ NextList(w)
       \/ Return(w)

ListenerSpec == ListenerInit /\ [][ListenerNext]_sockets

----------------------------------------------------------------------------
Position(m, s) == CHOOSE i \in 1..Len(inbox[s]) : inbox[s][i] = m

Got(m, s) == m \in ToSet(inbox[s])

(* websokets_mutex spans both lists: two clients that both get two messages *)
(* get them in the same order, whoever sends them and whatever the main    *)
(* thread does to the lists meanwhile.                                     *)
SameOrder ==
  \A s, t \in Sockets : \A m, n \in said :
    Got(m, s) /\ Got(n, s) /\ Got(m, t) /\ Got(n, t) /\ Position(m, s) < Position(n, s)
      => Position(m, t) < Position(n, t)

(* A broadcast during which nobody comes, goes or is marked reaches each    *)
(* client that matches once and nobody else, reports whether there was     *)
(* one, and touches no deleted socket, whatever the list went through      *)
(* before.                                                                 *)
UndisturbedReachesAll ==
  \A w \in Workers :
    LET b == walk[w]
    IN /\ Walking(w) /\ fault => ~b.calm
       /\ b.pc = "returned" =>
            /\ \A s \in Sockets :
                 Cardinality({i \in 1..Len(inbox[s]) : inbox[s][i] = b.message})
                   = IF s \in b.audience THEN 1 ELSE 0
            /\ b.sended_once <=> b.audience # {}
=============================================================================
