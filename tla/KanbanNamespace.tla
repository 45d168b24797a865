--------------------------- MODULE KanbanNamespace ---------------------------
(***************************************************************************)
(* The kanban namespace (apps/server/src/kanban/kanbanNamespace.ts): one   *)
(* poller per watched board, shared by its subscribers.                    *)
(*                                                                         *)
(* A read of a board is an HTTP call to the hermes dashboard, whose answer *)
(* comes back later or never, so that answers of several calls cross.  The *)
(* dashboard reads its board when the call is made: a call that is served  *)
(* late is one that is made late.  A board without its plugin has no       *)
(* cursor.                                                                 *)
(*                                                                         *)
(* A poller is named after the subscription that created it.  The await of *)
(* socket.join is no cut: with the in-memory adapter that the server uses  *)
(* nothing runs between the call and the rest of the handler.              *)
(***************************************************************************)
EXTENDS Integers, FiniteSets

CONSTANTS Socket,      \* sockets, each used for one connection
          Board,       \* slugs
          MaxCursor,   \* bound: upstream events of a board
          MaxFetches,  \* bound: reads of subscribers under way at a time
          None         \* no socket, no poller

ASSUME KanbanAssumption ==
  /\ MaxCursor \in Nat \ {0}
  /\ MaxFetches \in Nat \ {0}
  /\ None \notin Socket \cup (Socket \X Board)

VARIABLES cursor,      \* cursor[b]: the last event of the dashboard's board
          plugged,     \* plugged[b]: the dashboard has the board at all
          conn,        \* conn[s]: "new", "open" or "gone"
          subscribed,  \* subscribed[s]: the boards s watches, and its rooms
          pollers,     \* pollers[b]: the poller of the map, or None
          poller,      \* the poller objects, those that were dropped included
          fetches      \* reads under way for a subscriber

namespaceVars == <<cursor, plugged, conn, subscribed, pollers, poller, fetches>>

-----------------------------------------------------------------------------
NoCursor == -1  \* a snapshot { available: false }, and nothing emitted yet
Idle == -2      \* no read is under way

Reading == {NoCursor} \cup 1 .. MaxCursor

\* Faulty variant of Upstream: a board without its plugin passes for an empty one.
UpstreamOrZero(b) == IF plugged[b] THEN cursor[b] ELSE 0

\* What a read of the board finds.
Upstream(b) == IF plugged[b] THEN cursor[b] ELSE NoCursor

PollerId == Socket \X Board

Poller == [last : Reading, refs : Nat, inFlight : BOOLEAN,
           poll : Reading \cup {Idle}]

NewPoller == [last |-> NoCursor, refs |-> 0, inFlight |-> FALSE, poll |-> Idle]

Fetch == [kind : {"first", "refresh"}, socket : Socket, board : Board,
          read : Reading]

Room(b) == {s \in Socket : conn[s] = "open" /\ b \in subscribed[s]}

-----------------------------------------------------------------------------
\* The dashboard: a board changes, or its plugin comes or goes.
Advance(b) ==
  /\ cursor[b] < MaxCursor
  /\ cursor' = [cursor EXCEPT ![b] = @ + 1]
  /\ UNCHANGED <<plugged, conn, subscribed, pollers, poller, fetches>>

\* Bound: once the events of the board are used up the plugin stays as it is.
Plug(b) ==
  /\ cursor[b] < MaxCursor
  /\ plugged' = [plugged EXCEPT ![b] = ~@]
  /\ UNCHANGED <<cursor, conn, subscribed, pollers, poller, fetches>>

Connect(s) ==
  /\ conn[s] = "new"
  /\ conn' = [conn EXCEPT ![s] = "open"]
  /\ UNCHANGED <<cursor, plugged, subscribed, pollers, poller, fetches>>

\* acquire
Acquired(s, b) ==
  IF pollers[b] = None
  THEN /\ pollers' = [pollers EXCEPT ![b] = <<s, b>>]
       /\ poller' = [poller EXCEPT ![<<s, b>>] = [NewPoller EXCEPT !.refs = 1]]
  ELSE /\ poller' = [poller EXCEPT ![pollers[b]].refs = @ + 1]
       /\ UNCHANGED pollers

\* kanban.subscribe: a board that is watched already is only read again.
Subscribe(s, b) ==
  /\ conn[s] = "open"
  /\ Cardinality(fetches) < MaxFetches
  /\ \/ /\ b \in subscribed[s]
        /\ fetches' = fetches \cup
             {[kind |-> "refresh", socket |-> s, board |-> b, read |-> Upstream(b)]}
        /\ UNCHANGED <<subscribed, pollers, poller>>
     \/ /\ b \notin subscribed[s]
        /\ subscribed' = [subscribed EXCEPT ![s] = @ \cup {b}]
        /\ Acquired(s, b)
        /\ fetches' = fetches \cup
             {[kind |-> "first", socket |-> s, board |-> b, read |-> Upstream(b)]}
  /\ UNCHANGED <<cursor, plugged, conn>>

\* The answer goes to the socket, and a first one seeds the poller of the board.
AnswerSubscriber(f) ==
  /\ f \in fetches
  /\ fetches' = fetches \ {f}
  /\ poller' = IF f.kind = "first" /\ f.read # NoCursor /\ pollers[f.board] # None
               THEN [poller EXCEPT ![pollers[f.board]].last = f.read]
               ELSE poller
  /\ UNCHANGED <<cursor, plugged, conn, subscribed, pollers>>

\* kanban.error, which changes nothing
SubscriberFails(f) ==
  /\ f \in fetches
  /\ fetches' = fetches \ {f}
  /\ UNCHANGED <<cursor, plugged, conn, subscribed, pollers, poller>>

-----------------------------------------------------------------------------
\* A tick of the interval, which lives as long as its poller is in the map; a
\* poll that is under way is not overlapped.
Tick(b) ==
  /\ pollers[b] # None
  /\ ~poller[pollers[b]].inFlight
  /\ poller' = [poller EXCEPT ![pollers[b]].inFlight = TRUE,
                              ![pollers[b]].poll = Upstream(b)]
  /\ UNCHANGED <<cursor, plugged, conn, subscribed, pollers, fetches>>

\* poll is over with c emitted: inFlight is reset.  A poller that was dropped is
\* gone with its last poll.
Polled(p, c) ==
  IF pollers[p[2]] = p
  THEN [poller[p] EXCEPT !.inFlight = FALSE, !.poll = Idle, !.last = c]
  ELSE NewPoller

\* The cursor has moved since the poller has emitted or was seeded.
Pushes(p) == poller[p].poll # poller[p].last

\* The answer of a poll, whose poller may have been dropped meanwhile: its room
\* is still the room of the board.
AnswerPoll(p) ==
  /\ poller[p].poll # Idle
  /\ poller' = [poller EXCEPT ![p] = Polled(p, poller[p].poll)]
  /\ UNCHANGED <<cursor, plugged, conn, subscribed, pollers, fetches>>

\* Faulty variant of PollFails: inFlight stays set.
PollFailsForGood(p) ==
  /\ poller[p].poll # Idle
  /\ poller' = [poller EXCEPT ![p].poll = Idle]
  /\ UNCHANGED <<cursor, plugged, conn, subscribed, pollers, fetches>>

\* An upstream error: the poller goes on.
PollFails(p) ==
  /\ poller[p].poll # Idle
  /\ poller' = [poller EXCEPT ![p] = Polled(p, poller[p].last)]
  /\ UNCHANGED <<cursor, plugged, conn, subscribed, pollers, fetches>>

\* Faulty variant of Released: the last reference is kept.
ReleasedLate(p) == p.refs <= 0

\* release: what is left of a poller when one subscriber goes
Released(p) == p.refs <= 1

\* disconnect: one reference for each board of the socket
Disconnect(s) ==
  /\ conn[s] = "open"
  /\ conn' = [conn EXCEPT ![s] = "gone"]
  /\ subscribed' = [subscribed EXCEPT ![s] = {}]
  /\ pollers' = [b \in Board |->
                   IF /\ b \in subscribed[s] /\ pollers[b] # None
                      /\ Released(poller[pollers[b]])
                   THEN None ELSE pollers[b]]
  /\ poller' = [p \in PollerId |->
                  IF p[2] \notin subscribed[s] \/ pollers[p[2]] # p THEN poller[p]
                  ELSE IF Released(poller[p]) /\ ~poller[p].inFlight THEN NewPoller
                  ELSE [poller[p] EXCEPT !.refs = @ - 1]]
  /\ UNCHANGED <<cursor, plugged, fetches>>

-----------------------------------------------------------------------------
NamespaceInit ==
  /\ cursor = [b \in Board |-> 1]
  /\ plugged \in [Board -> BOOLEAN]
  /\ conn = [s \in Socket |-> "new"]
  /\ subscribed = [s \in Socket |-> {}]
  /\ pollers = [b \in Board |-> None]
  /\ poller = [p \in PollerId |-> NewPoller]
  /\ fetches = {}

NamespaceTypeOK ==
  /\ cursor \in [Board -> 1 .. MaxCursor]
  /\ plugged \in [Board -> BOOLEAN]
  /\ conn \in [Socket -> {"new", "open", "gone"}]
  /\ subscribed \in [Socket -> SUBSET Board]
  /\ pollers \in [Board -> PollerId \cup {None}]
  /\ poller \in [PollerId -> Poller]
  /\ fetches \subseteq Fetch

(* Pollers are counted right (kanbanNamespace.ts 152-175, 221-224): through   *)
(* any order of subscribes and disconnects a board has a poller, and an       *)
(* interval, exactly while somebody watches it, with one reference each.      *)
RefsMatchSubscribers ==
  \A b \in Board :
    IF pollers[b] = None THEN Room(b) = {}
    ELSE poller[pollers[b]].refs = Cardinality(Room(b)) /\ Room(b) # {}
=============================================================================
