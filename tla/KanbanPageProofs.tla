-------------------------- MODULE KanbanPageProofs --------------------------
(***************************************************************************)
(* The kanban pages for any number of sockets, boards and moves: types,    *)
(* the reference counts of the pollers, and the cards of settled moves.    *)
(*                                                                         *)
(* A count is right because a socket is in a room exactly as long as it    *)
(* holds its reference: it subscribes to a board once, and what it has     *)
(* subscribed to is given back when it goes, once.                         *)
(***************************************************************************)
EXTENDS KanbanPage, FiniteSetTheorems, TLAPS

RoomsAreFinite == \A b \in Board : IsFiniteSet(Room(b))

\* What a socket watches is given back when it goes, and not before it is open.
OnlyOpenWatch == \A s \in Socket : conn[s] # "open" => subscribed[s] = {}

PollersAreOfTheirBoard == \A b \in Board : pollers[b] # None => pollers[b][2] = b

CountInv ==
  /\ KanbanTypeOK
  /\ RoomsAreFinite /\ OnlyOpenWatch /\ PollersAreOfTheirBoard
  /\ RefsMatchSubscribers

-----------------------------------------------------------------------------
LEMMA Readings ==
  /\ NoCursor \in Reading /\ Idle \notin Reading
  /\ Reading \subseteq Int
  /\ \A n \in 1 .. MaxCursor : n \in Reading
  /\ NoCursor \in Int
BY DEF NoCursor, Idle, Reading

LEMMA NewPollerIsPoller == NewPoller \in Poller
BY Readings DEF NewPoller, Poller

LEMMA UpstreamIsReading ==
  ASSUME NamespaceTypeOK, NEW b \in Board
  PROVE  Upstream(b) \in Reading
BY Readings DEF Upstream, NamespaceTypeOK

LEMMA PolledIsPoller ==
  ASSUME NamespaceTypeOK, NEW p \in PollerId, NEW c \in Reading
  PROVE  Polled(p, c) \in Poller
<1>1. poller[p] \in Poller
  BY DEF NamespaceTypeOK
<1> QED
  BY <1>1, NewPollerIsPoller DEF Polled, Poller

\* A step that leaves the rooms, the map and the counts alone.
LEMMA CountStays ==
  ASSUME CountInv, KanbanTypeOK', UNCHANGED <<subscribed, pollers>>,
         \A s \in Socket : conn[s] = "open" => conn'[s] = "open",
         \A b \in Board : pollers[b] # None => poller'[pollers[b]].refs = poller[pollers[b]].refs
  PROVE  CountInv'
<1> USE DEF CountInv
<1>1. ASSUME NEW s \in Socket
      PROVE  /\ conn[s] = "open" => conn'[s] = "open"
             /\ conn[s] # "open" => subscribed[s] = {}
  BY DEF OnlyOpenWatch
<1>2. \A b \in Board : Room(b)' = Room(b)
  BY <1>1 DEF Room
<1>3. RoomsAreFinite'
  BY <1>2 DEF RoomsAreFinite
<1>4. OnlyOpenWatch' /\ PollersAreOfTheirBoard'
  BY <1>1 DEF OnlyOpenWatch, PollersAreOfTheirBoard
<1>5. RefsMatchSubscribers'
  BY <1>2 DEF RefsMatchSubscribers
<1> QED
  BY <1>3, <1>4, <1>5

-----------------------------------------------------------------------------
LEMMA InitCount == Init => CountInv
<1> SUFFICES ASSUME Init PROVE CountInv
  OBVIOUS
<1> USE DEF Init, NamespaceInit
<1>1. NamespaceTypeOK
  BY NewPollerIsPoller, KanbanAssumption DEF NamespaceTypeOK
<1>2. KanbanTypeOK
  BY <1>1 DEF KanbanTypeOK, View, Real
<1>3. \A b \in Board : Room(b) = {}
  BY DEF Room
<1>4. RoomsAreFinite /\ OnlyOpenWatch /\ PollersAreOfTheirBoard /\ RefsMatchSubscribers
  BY <1>3, FS_EmptySet
  DEF RoomsAreFinite, OnlyOpenWatch, PollersAreOfTheirBoard, RefsMatchSubscribers
<1> QED
  BY <1>2, <1>4 DEF CountInv

\* The steps of the page change nothing of the namespace but the board itself.
LEMMA PageStepKeeps ==
  ASSUME CountInv, PageSteps
  PROVE  CountInv'
<1> USE DEF CountInv
<1>1. UNCHANGED <<conn, subscribed, pollers, poller, fetches, plugged, socket>>
  BY DEF PageSteps, Refetch, QueryAnswers, QueryFails, StartMove, Accept, Succeed, Fail,
         Settled, Advance, namespaceVars
<1>2. cursor' \in [Board -> 1 .. MaxCursor]
  <2>1. UNCHANGED cursor \/ Advance(Watched)
    BY DEF PageSteps, Refetch, QueryAnswers, QueryFails, StartMove, Accept, Succeed, Fail,
       Settled, namespaceVars
  <2>2. cursor \in [Board -> 1 .. MaxCursor]
    BY DEF KanbanTypeOK, NamespaceTypeOK
  <2>3. CASE Advance(Watched)
    BY <2>2, <2>3, PageAssumption, KanbanAssumption DEF Advance
  <2> QED
    BY <2>1, <2>2, <2>3
<1>3. NamespaceTypeOK'
  BY <1>1, <1>2 DEF NamespaceTypeOK, KanbanTypeOK
<1>4. Upstream(Watched) \in Reading
  BY PageAssumption, UpstreamIsReading DEF KanbanTypeOK
<1>5. Real(Unseen) \in View /\ \A c \in Reading : Real(c) \in View
  BY DEF View, Real
<1>6. query' \in Reading \cup {Idle} /\ failed' \in BOOLEAN
  BY <1>4 DEF PageSteps, Refetch, QueryAnswers, QueryFails, StartMove, Accept, Succeed, Fail,
     Settled, Invalidated, KanbanTypeOK
<1>7. view' \in View /\ move' \in [Move -> [phase : {"none", "sent", "accepted", "done"},
                                           previous : View]]
  <2>1. CASE Refetch \/ QueryAnswers \/ QueryFails
    BY <1>5, <2>1 DEF Refetch, QueryAnswers, QueryFails, KanbanTypeOK
  <2>2. ASSUME NEW m \in Move, StartMove(m)
        PROVE  view' \in View /\ move' \in [Move -> [phase : {"none", "sent", "accepted", "done"},
                                                    previous : View]]
    <3>1. [view EXCEPT !.moves = @ \cup {m}] \in View
      BY DEF KanbanTypeOK, View
    <3> QED
      BY <2>2, <3>1 DEF StartMove, KanbanTypeOK
  <2>3. ASSUME NEW m \in Move, Accept(m) \/ Succeed(m) \/ Fail(m)
        PROVE  view' \in View /\ move' \in [Move -> [phase : {"none", "sent", "accepted", "done"},
                                                    previous : View]]
    BY <1>5, <2>3 DEF Accept, Succeed, Fail, Settled, KanbanTypeOK
  <2> QED
    BY <2>1, <2>2, <2>3 DEF PageSteps
<1>8. KanbanTypeOK'
  BY <1>1, <1>3, <1>6, <1>7 DEF KanbanTypeOK
<1> QED
  BY <1>1, <1>8, CountStays

\* Steps of the dashboard and the timers, and answers that come back.
LEMMA NamespaceTypeStays ==
  ASSUME CountInv,
         \/ \E b \in Board : Advance(b) \/ Plug(b) \/ Tick(b)
         \/ \E s \in Socket : Connect(s)
         \/ \E f \in fetches : SubscriberFails(f) \/ AnswerSubscriber(f)
         \/ \E p \in PollerId : PollFails(p) \/ AnswerPoll(p)
  PROVE  /\ NamespaceTypeOK'
         /\ UNCHANGED <<subscribed, pollers>>
         /\ \A s \in Socket : conn[s] = "open" => conn'[s] = "open"
         /\ \A b \in Board : pollers[b] # None => poller'[pollers[b]].refs = poller[pollers[b]].refs
<1> USE DEF CountInv, KanbanTypeOK
<1> DEFINE Goal == /\ NamespaceTypeOK'
                   /\ UNCHANGED <<subscribed, pollers>>
                   /\ \A s \in Socket : conn[s] = "open" => conn'[s] = "open"
                   /\ \A b \in Board :
                        pollers[b] # None => poller'[pollers[b]].refs = poller[pollers[b]].refs
<1>1. \A p \in PollerId : poller[p] \in Poller
  BY DEF NamespaceTypeOK
<1>2. \A b \in Board : pollers[b] # None => pollers[b] \in PollerId
  BY DEF NamespaceTypeOK
<1>3. ASSUME NEW b \in Board, Advance(b) PROVE Goal
  BY <1>3, KanbanAssumption DEF Advance, NamespaceTypeOK
<1>4. ASSUME NEW b \in Board, Plug(b) PROVE Goal
  BY <1>4 DEF Plug, NamespaceTypeOK
<1>5. ASSUME NEW b \in Board, Tick(b) PROVE Goal
  <2> DEFINE p == pollers[b]
             h == [poller[p] EXCEPT !.inFlight = TRUE]
             n == [h EXCEPT !.poll = Upstream(b)]
  <2>1. p \in PollerId /\ UNCHANGED <<cursor, plugged, conn, subscribed, pollers, fetches>>
    BY <1>2, <1>5 DEF Tick
  <2>2. n \in Poller /\ n.refs = poller[p].refs
    <3>1. h \in Poller /\ h.refs = poller[p].refs
      BY <1>1, <2>1 DEF Poller
    <3> HIDE DEF h
    <3> QED
      BY <3>1, UpstreamIsReading DEF Poller
  <2>3. poller' = [[poller EXCEPT ![p] = h] EXCEPT ![p] = n]
    BY <1>5, <2>1 DEF Tick, NamespaceTypeOK
  <2>4. h \in Poller
    BY <1>1, <2>1 DEF Poller
  <2> HIDE DEF n, p, h
  <2>5. /\ poller' \in [PollerId -> Poller] /\ poller'[p] = n
        /\ \A o \in PollerId \ {p} : poller'[o] = poller[o]
    BY <2>1, <2>2, <2>3, <2>4 DEF NamespaceTypeOK
  <2> QED
    BY <1>2, <2>1, <2>2, <2>5 DEF NamespaceTypeOK
<1>6. ASSUME NEW s \in Socket, Connect(s) PROVE Goal
  BY <1>6 DEF Connect, NamespaceTypeOK
<1>7. ASSUME NEW f \in fetches, SubscriberFails(f) PROVE Goal
  BY <1>7 DEF SubscriberFails, NamespaceTypeOK
<1>8. ASSUME NEW f \in fetches, AnswerSubscriber(f) PROVE Goal
  <2> DEFINE p == pollers[f.board]
             n == [poller[p] EXCEPT !.last = f.read]
  <2>1. UNCHANGED <<cursor, plugged, conn, subscribed, pollers>> /\ fetches' \subseteq fetches
    BY <1>8 DEF AnswerSubscriber
  <2>2. f.board \in Board /\ f.read \in Reading
    BY DEF NamespaceTypeOK, Fetch
  <2>3. \/ UNCHANGED poller
        \/ p \in PollerId /\ poller' = [poller EXCEPT ![p] = n]
    BY <1>2, <1>8, <2>2 DEF AnswerSubscriber
  <2>4. p \in PollerId => n \in Poller /\ n.refs = poller[p].refs
    BY <1>1, <2>2 DEF Poller
  <2> HIDE DEF n, p
  <2> QED
    BY <2>1, <2>3, <2>4 DEF NamespaceTypeOK
<1>9. ASSUME NEW p \in PollerId, PollFails(p) \/ AnswerPoll(p) PROVE Goal
  <2>1. PICK c \in Reading : poller' = [poller EXCEPT ![p] = Polled(p, c)]
    BY <1>1, <1>9 DEF PollFails, AnswerPoll, Poller
  <2>2. Polled(p, c) \in Poller
    BY <2>1, PolledIsPoller
  <2>3. \A b \in Board : pollers[b] = p => Polled(p, c).refs = poller[p].refs
    BY <1>1, <2>1, KanbanAssumption DEF Polled, PollersAreOfTheirBoard, Poller, PollerId
  <2>4. UNCHANGED <<cursor, plugged, conn, subscribed, pollers, fetches>>
    BY <1>9 DEF PollFails, AnswerPoll
  <2> QED
    BY <1>2, <2>1, <2>2, <2>3, <2>4 DEF NamespaceTypeOK
<1> QED
  BY <1>3, <1>4, <1>5, <1>6, <1>7, <1>8, <1>9

\* One more watches the board, and one more reference is held.
LEMMA SubscribeCounts ==
  ASSUME CountInv, NEW s \in Socket, NEW b \in Board, Subscribe(s, b), UNCHANGED pageVars
  PROVE  CountInv'
<1> USE DEF CountInv, KanbanTypeOK
<1>1. UNCHANGED <<cursor, plugged, conn>> /\ conn[s] = "open"
  BY DEF Subscribe
<1>2. /\ fetches' \subseteq Fetch
      /\ \/ b \in subscribed[s] /\ UNCHANGED <<subscribed, pollers, poller>>
         \/ /\ b \notin subscribed[s]
            /\ subscribed' = [subscribed EXCEPT ![s] = @ \cup {b}]
            /\ Acquired(s, b)
  <2>1. Upstream(b) \in Reading
    BY UpstreamIsReading
  <2> QED
    BY <2>1 DEF Subscribe, Fetch, NamespaceTypeOK
<1>3. CASE b \in subscribed[s] /\ UNCHANGED <<subscribed, pollers, poller>>
  <2>1. KanbanTypeOK'
    BY <1>1, <1>2, <1>3 DEF NamespaceTypeOK, pageVars
  <2> QED
    BY <1>1, <1>3, <2>1, CountStays
<1>4. CASE /\ b \notin subscribed[s]
           /\ subscribed' = [subscribed EXCEPT ![s] = @ \cup {b}]
           /\ Acquired(s, b)
  <2> DEFINE q == pollers'[b]
  <2>1. /\ pollers' \in [Board -> PollerId \cup {None}]
        /\ \A c \in Board \ {b} : pollers'[c] = pollers[c]
        /\ q \in PollerId /\ q # None /\ q[2] = b
        /\ poller' \in [PollerId -> Poller]
        /\ \A o \in PollerId \ {q} : poller'[o] = poller[o]
        /\ poller'[q].refs = IF pollers[b] = None THEN 1 ELSE poller[q].refs + 1
    <3>1. CASE pollers[b] = None
      <4> DEFINE n == [NewPoller EXCEPT !.refs = 1]
      <4>1. n \in Poller /\ n.refs = 1
        BY NewPollerIsPoller DEF NewPoller, Poller
      <4>2. <<s, b>> \in PollerId /\ <<s, b>> # None /\ <<s, b>>[2] = b
        BY KanbanAssumption DEF PollerId
      <4>3. pollers' = [pollers EXCEPT ![b] = <<s, b>>] /\ poller' = [poller EXCEPT ![<<s, b>>] = n]
        BY <1>4, <3>1 DEF Acquired
      <4> HIDE DEF n
      <4> QED
        BY <3>1, <4>1, <4>2, <4>3 DEF NamespaceTypeOK
    <3>2. CASE pollers[b] # None
      <4> DEFINE p == pollers[b]
                 n == [poller[p] EXCEPT !.refs = poller[p].refs + 1]
      <4>1. p \in PollerId /\ p # None /\ p[2] = b
        BY <3>2 DEF NamespaceTypeOK, PollersAreOfTheirBoard
      <4>2. n \in Poller /\ n.refs = poller[p].refs + 1
        <5>1. poller[p] \in Poller
          BY <4>1 DEF NamespaceTypeOK
        <5> QED
          BY <5>1 DEF Poller
      <4>3. pollers' = pollers /\ poller' = [poller EXCEPT ![p] = n]
        BY <1>4, <3>2 DEF Acquired
      <4>4. q = p
        BY <4>3
      <4> HIDE DEF n, p, q
      <4>5. /\ poller' \in [PollerId -> Poller] /\ poller'[p] = n
            /\ \A o \in PollerId \ {p} : poller'[o] = poller[o]
        BY <4>1, <4>2, <4>3 DEF NamespaceTypeOK
      <4> QED
        BY <3>2, <4>1, <4>2, <4>3, <4>4, <4>5 DEF NamespaceTypeOK
    <3> QED
      BY <3>1, <3>2
  <2> HIDE DEF q
  <2>2. Room(b)' = Room(b) \cup {s} /\ s \notin Room(b)
    BY <1>1, <1>4 DEF Room, NamespaceTypeOK
  <2>3. \A c \in Board \ {b} : Room(c)' = Room(c)
    BY <1>1, <1>4 DEF Room, NamespaceTypeOK
  <2>4. /\ IsFiniteSet(Room(b)') /\ Cardinality(Room(b)') = Cardinality(Room(b)) + 1
    BY <2>2, FS_AddElement DEF RoomsAreFinite
  <2>5. KanbanTypeOK'
    BY <1>1, <1>2, <1>4, <2>1 DEF NamespaceTypeOK, pageVars
  <2>6. RoomsAreFinite'
    BY <2>3, <2>4 DEF RoomsAreFinite
  <2>7. OnlyOpenWatch'
    BY <1>1, <1>4 DEF OnlyOpenWatch, NamespaceTypeOK
  <2>8. PollersAreOfTheirBoard'
    BY <2>1 DEF PollersAreOfTheirBoard, q
  <2>9. RefsMatchSubscribers'
    <3>1. poller'[q].refs = Cardinality(Room(b)')
      <4>1. CASE pollers[b] = None
        <5>1. Room(b) = {}
          BY <4>1 DEF RefsMatchSubscribers
        <5>2. Cardinality(Room(b)) = 0
          BY <5>1, FS_EmptySet
        <5> QED
          BY <2>1, <2>4, <4>1, <5>2
      <4>2. CASE pollers[b] # None
        <5>1. q = pollers[b]
          BY <1>4, <4>2 DEF Acquired, q
        <5> QED
          BY <2>1, <2>4, <4>2, <5>1 DEF RefsMatchSubscribers
      <4> QED
        BY <4>1, <4>2
    <3>2. ASSUME NEW c \in Board \ {b}
          PROVE  IF pollers'[c] = None THEN Room(c)' = {}
                 ELSE poller'[pollers'[c]].refs = Cardinality(Room(c)') /\ Room(c)' # {}
      <4>1. pollers'[c] = pollers[c] /\ Room(c)' = Room(c)
        BY <2>1, <2>3
      <4>2. pollers[c] # None => poller'[pollers[c]] = poller[pollers[c]]
        BY <2>1 DEF PollersAreOfTheirBoard, NamespaceTypeOK
      <4> QED
        BY <4>1, <4>2 DEF RefsMatchSubscribers
    <3>3. q = pollers'[b] /\ q # None /\ Room(b)' # {}
      BY <2>1, <2>2 DEF q
    <3> QED
      BY <3>1, <3>2, <3>3 DEF RefsMatchSubscribers
  <2> QED
    BY <2>5, <2>6, <2>7, <2>8, <2>9
<1> QED
  BY <1>2, <1>3, <1>4

\* Whoever goes gives back one reference for each board, the last one the poller.
LEMMA DisconnectCounts ==
  ASSUME CountInv, NEW s \in Socket, Disconnect(s),
         UNCHANGED <<view, query, failed, move>>, socket' \in {socket, None}
  PROVE  CountInv'
<1> USE DEF CountInv, KanbanTypeOK
<1>1. /\ conn[s] = "open" /\ conn' = [conn EXCEPT ![s] = "gone"]
      /\ subscribed' = [subscribed EXCEPT ![s] = {}]
      /\ UNCHANGED <<cursor, plugged, fetches>>
  BY DEF Disconnect
<1>2. ASSUME NEW b \in Board, b \notin subscribed[s]
      PROVE  /\ Room(b)' = Room(b) /\ pollers'[b] = pollers[b]
             /\ pollers[b] # None => poller'[pollers[b]] = poller[pollers[b]]
  <2>1. Room(b)' = Room(b)
    BY <1>1, <1>2 DEF Room, NamespaceTypeOK
  <2>2. pollers'[b] = pollers[b]
    BY <1>2 DEF Disconnect
  <2>3. pollers[b] # None => pollers[b] \in PollerId /\ pollers[b][2] = b
    BY DEF NamespaceTypeOK, PollersAreOfTheirBoard
  <2>4. pollers[b] # None => poller'[pollers[b]] = poller[pollers[b]]
    BY <1>2, <2>3 DEF Disconnect
  <2> QED
    BY <2>1, <2>2, <2>4
<1>3. ASSUME NEW b \in Board, b \in subscribed[s]
      PROVE  /\ Room(b)' = Room(b) \ {s} /\ s \in Room(b)
             /\ IsFiniteSet(Room(b)') /\ Cardinality(Room(b)') = Cardinality(Room(b)) - 1
             /\ Cardinality(Room(b)) \in Nat \ {0} /\ Cardinality(Room(b)') \in Nat
             /\ pollers[b] \in PollerId /\ pollers[b] # None /\ pollers[b][2] = b
             /\ poller[pollers[b]].refs = Cardinality(Room(b))
  <2>1. Room(b)' = Room(b) \ {s} /\ s \in Room(b)
    BY <1>1, <1>3 DEF Room, NamespaceTypeOK
  <2>2. /\ IsFiniteSet(Room(b)) /\ IsFiniteSet(Room(b)')
        /\ Cardinality(Room(b)') = Cardinality(Room(b)) - 1
    BY <2>1, FS_RemoveElement DEF RoomsAreFinite
  <2>3. Cardinality(Room(b)) \in Nat /\ Cardinality(Room(b)') \in Nat
    BY <2>2, FS_CardinalityType
  <2>4. pollers[b] # None
    BY <2>1 DEF RefsMatchSubscribers
  <2> QED
    BY <2>1, <2>2, <2>3, <2>4
    DEF RefsMatchSubscribers, NamespaceTypeOK, PollersAreOfTheirBoard
<1>4. ASSUME NEW p \in PollerId
      PROVE  poller'[p] \in Poller
  <2>1. poller[p] \in Poller
    BY DEF NamespaceTypeOK
  <2>2. CASE p[2] \notin subscribed[s] \/ pollers[p[2]] # p
    BY <2>1, <2>2 DEF Disconnect
  <2>3. CASE p[2] \in subscribed[s] /\ pollers[p[2]] = p
    <3>1. p[2] \in Board
      BY DEF PollerId
    <3>2. poller[p].refs \in Nat \ {0}
      BY <1>3, <2>3, <3>1
    <3>3. poller'[p] \in {NewPoller, [poller[p] EXCEPT !.refs = poller[p].refs - 1]}
      BY <2>3 DEF Disconnect
    <3>4. [poller[p] EXCEPT !.refs = poller[p].refs - 1] \in Poller
      BY <2>1, <3>2 DEF Poller
    <3> QED
      BY <3>3, <3>4, NewPollerIsPoller
  <2> QED
    BY <2>2, <2>3
<1>5. KanbanTypeOK'
  <2>1. poller' \in [PollerId -> Poller]
    BY <1>4 DEF Disconnect
  <2>2. pollers' \in [Board -> PollerId \cup {None}]
    BY DEF Disconnect, NamespaceTypeOK
  <2>3. conn' \in [Socket -> {"new", "open", "gone"}] /\ subscribed' \in [Socket -> SUBSET Board]
    BY <1>1 DEF NamespaceTypeOK
  <2> QED
    BY <1>1, <2>1, <2>2, <2>3 DEF NamespaceTypeOK
<1>6. RoomsAreFinite'
  BY <1>2, <1>3 DEF RoomsAreFinite
<1>7. OnlyOpenWatch'
  BY <1>1 DEF OnlyOpenWatch, NamespaceTypeOK
<1>8. PollersAreOfTheirBoard'
  BY DEF PollersAreOfTheirBoard, Disconnect
<1>9. ASSUME NEW b \in Board
      PROVE  IF pollers'[b] = None THEN Room(b)' = {}
             ELSE poller'[pollers'[b]].refs = Cardinality(Room(b)') /\ Room(b)' # {}
  <2>1. CASE b \notin subscribed[s]
    BY <1>2, <2>1 DEF RefsMatchSubscribers
  <2>2. CASE b \in subscribed[s] /\ Released(poller[pollers[b]])
    <3>1. Cardinality(Room(b)') = 0
      BY <1>3, <2>2 DEF Released
    <3>2. Room(b)' = {}
      BY <1>3, <2>2, <3>1, FS_EmptySet
    <3>3. pollers'[b] = None
      BY <1>3, <2>2 DEF Disconnect
    <3> QED
      BY <3>2, <3>3
  <2>3. CASE b \in subscribed[s] /\ ~Released(poller[pollers[b]])
    <3> DEFINE p == pollers[b]
    <3>1. pollers'[b] = p /\ p # None /\ p \in PollerId /\ p[2] = b
      BY <1>3, <2>3 DEF Disconnect
    <3>2. poller'[p] = [poller[p] EXCEPT !.refs = poller[p].refs - 1]
      BY <2>3, <3>1 DEF Disconnect
    <3>3. poller[p] \in Poller
      BY <3>1 DEF NamespaceTypeOK
    <3>4. poller[p].refs = Cardinality(Room(b))
      BY <1>3, <2>3
    <3> HIDE DEF p
    <3>5. poller'[p].refs = Cardinality(Room(b)')
      BY <1>3, <2>3, <3>2, <3>3, <3>4 DEF Poller
    <3>6. Cardinality(Room(b)') # 0
      BY <1>3, <2>3, <3>4 DEF Released, p
    <3>7. Room(b)' # {}
      BY <3>6, FS_EmptySet
    <3> QED
      BY <3>1, <3>5, <3>7
  <2> QED
    BY <2>1, <2>2, <2>3
<1>10. RefsMatchSubscribers'
  BY <1>9 DEF RefsMatchSubscribers
<1> QED
  BY <1>5, <1>6, <1>7, <1>8, <1>10

-----------------------------------------------------------------------------
LEMMA NextCount == CountInv /\ [Next]_vars => CountInv'
<1> SUFFICES ASSUME CountInv, [Next]_vars PROVE CountInv'
  OBVIOUS
<1> USE DEF CountInv
<1>1. ASSUME NamespaceTypeOK', UNCHANGED <<query, failed, move>>,
             socket' \in Socket \cup {None}, view' \in View
      PROVE  KanbanTypeOK'
  BY <1>1 DEF KanbanTypeOK
<1>2. \A c \in Reading : Snapshot(c) \in View
  BY DEF Snapshot, Real, View, KanbanTypeOK
<1>3. CASE PageSteps
  BY <1>3, PageStepKeeps
<1>4. ASSUME NEW s \in Socket, NEW b \in Board, Subscribe(s, b), UNCHANGED pageVars
      PROVE  CountInv'
  BY <1>4, SubscribeCounts
<1>5. CASE /\ UNCHANGED pageVars
           /\ \/ \E b \in Board : Advance(b) \/ Plug(b) \/ Tick(b)
              \/ \E s \in Socket : Connect(s)
              \/ \E f \in fetches : SubscriberFails(f)
              \/ \E p \in PollerId : PollFails(p)
  <2>1. /\ NamespaceTypeOK'
        /\ UNCHANGED <<subscribed, pollers>>
        /\ \A s \in Socket : conn[s] = "open" => conn'[s] = "open"
        /\ \A b \in Board : pollers[b] # None => poller'[pollers[b]].refs = poller[pollers[b]].refs
    BY <1>5, NamespaceTypeStays
  <2>2. KanbanTypeOK'
    BY <1>5, <2>1 DEF KanbanTypeOK, pageVars
  <2> QED
    BY <2>1, <2>2, CountStays
<1>6. ASSUME NEW s \in Socket, PageConnects(s) PROVE CountInv'
  <2>1. /\ NamespaceTypeOK'
        /\ UNCHANGED <<subscribed, pollers>>
        /\ \A t \in Socket : conn[t] = "open" => conn'[t] = "open"
        /\ \A b \in Board : pollers[b] # None => poller'[pollers[b]].refs = poller[pollers[b]].refs
    BY <1>6, NamespaceTypeStays DEF PageConnects
  <2>2. KanbanTypeOK'
    BY <1>6, <2>1 DEF KanbanTypeOK, PageConnects
  <2> QED
    BY <2>1, <2>2, CountStays
<1>7. ASSUME NEW p \in PollerId, PageHearsPoll(p) PROVE CountInv'
  <2>1. /\ NamespaceTypeOK'
        /\ UNCHANGED <<subscribed, pollers>>
        /\ \A t \in Socket : conn[t] = "open" => conn'[t] = "open"
        /\ \A b \in Board : pollers[b] # None => poller'[pollers[b]].refs = poller[pollers[b]].refs
    BY <1>7, NamespaceTypeStays DEF PageHearsPoll
  <2>2. poller[p].poll \in Reading
    BY <1>7 DEF PageHearsPoll, AnswerPoll, KanbanTypeOK, NamespaceTypeOK, Poller
  <2>3. KanbanTypeOK'
    BY <1>2, <1>7, <2>1, <2>2 DEF KanbanTypeOK, PageHearsPoll
  <2> QED
    BY <2>1, <2>3, CountStays
<1>8. ASSUME NEW f \in fetches, PageHearsAnswer(f) PROVE CountInv'
  <2>1. /\ NamespaceTypeOK'
        /\ UNCHANGED <<subscribed, pollers>>
        /\ \A t \in Socket : conn[t] = "open" => conn'[t] = "open"
        /\ \A b \in Board : pollers[b] # None => poller'[pollers[b]].refs = poller[pollers[b]].refs
    BY <1>8, NamespaceTypeStays DEF PageHearsAnswer
  <2>2. f.read \in Reading
    BY DEF KanbanTypeOK, NamespaceTypeOK, Fetch
  <2>3. KanbanTypeOK'
    BY <1>2, <1>8, <2>1, <2>2 DEF KanbanTypeOK, PageHearsAnswer
  <2> QED
    BY <2>1, <2>3, CountStays
<1>9. ASSUME NEW s \in Socket, SocketGoes(s) PROVE CountInv'
  BY <1>9, DisconnectCounts DEF SocketGoes
<1>10. CASE UNCHANGED vars
  <2>1. UNCHANGED <<cursor, plugged, conn, subscribed, pollers, poller, fetches,
                    socket, view, query, failed, move>>
    BY <1>10 DEF vars, namespaceVars, pageVars
  <2>2. KanbanTypeOK'
    BY <2>1 DEF KanbanTypeOK, NamespaceTypeOK
  <2> QED
    BY <2>1, <2>2, CountStays
<1> QED
  BY <1>3, <1>4, <1>5, <1>6, <1>7, <1>8, <1>9, <1>10 DEF Next, ServerSteps

\* Every variable of the namespace and of the page keeps its type, reads and polls
\* that answer late included (kanbanNamespace.ts 76-224, hooks.ts 58-151).
THEOREM KanbanTypeCorrect == Spec => []KanbanTypeOK
<1>1. CountInv => KanbanTypeOK
  BY DEF CountInv
<1> QED
  BY <1>1, InitCount, NextCount, PTL DEF Spec

\* A board has a poller exactly while somebody watches it, with one reference for
\* each (kanbanNamespace.ts 152-175, 221-224).
THEOREM PollersAreCounted == Spec => []RefsMatchSubscribers
<1>1. CountInv => RefsMatchSubscribers
  BY DEF CountInv
<1> QED
  BY <1>1, InitCount, NextCount, PTL DEF Spec

-----------------------------------------------------------------------------
(***************************************************************************)
(* The cards of the page.                                                  *)
(***************************************************************************)

\* A snapshot shows the moves that are in flight, or none.
LEMMA SnapshotIsReal ==
  ASSUME InFlight = {}, NEW c
  PROVE  Snapshot(c).moves = {}
BY DEF Snapshot, Real

\* A step that neither settles a move nor ends the read of the query.
LEMMA WriterKeepsReal ==
  ASSUME SettledBoardIsReal, UNCHANGED <<query, failed, move>>,
         view' = view \/ \E c : view' = Snapshot(c)
  PROVE  SettledBoardIsReal'
<1>1. InFlight' = InFlight
  BY DEF InFlight
<1> QED
  BY <1>1, SnapshotIsReal DEF SettledBoardIsReal

LEMMA PageStepKeepsReal ==
  ASSUME KanbanTypeOK, SettledBoardIsReal, PageSteps
  PROVE  SettledBoardIsReal'
<1>1. Upstream(Watched) # Idle
  BY PageAssumption, Readings, UpstreamIsReading DEF KanbanTypeOK
<1>2. CASE Refetch
  BY <1>1, <1>2 DEF Refetch, SettledBoardIsReal
<1>3. CASE QueryAnswers
  BY <1>3 DEF QueryAnswers, Real, SettledBoardIsReal
<1>4. CASE QueryFails
  BY <1>4 DEF QueryFails, SettledBoardIsReal
<1>5. ASSUME NEW m \in Move, StartMove(m) PROVE SettledBoardIsReal'
  <2>1. m \in InFlight'
    BY <1>5 DEF StartMove, InFlight, KanbanTypeOK
  <2> QED
    BY <2>1 DEF SettledBoardIsReal
<1>6. ASSUME NEW m \in Move, Accept(m) PROVE SettledBoardIsReal'
  <2>1. m \in InFlight'
    BY <1>6 DEF Accept, InFlight, KanbanTypeOK
  <2> QED
    BY <2>1 DEF SettledBoardIsReal
<1>7. ASSUME NEW m \in Move, Succeed(m) \/ Fail(m) PROVE SettledBoardIsReal'
  <2>1. query' = Upstream(Watched)
    BY <1>7 DEF Succeed, Fail, Settled, Invalidated
  <2> QED
    BY <1>1, <2>1 DEF SettledBoardIsReal
<1> QED
  BY <1>2, <1>3, <1>4, <1>5, <1>6, <1>7 DEF PageSteps

LEMMA NextKeepsReal ==
  KanbanTypeOK /\ SettledBoardIsReal /\ [Next]_vars => SettledBoardIsReal'
<1> SUFFICES ASSUME KanbanTypeOK, SettledBoardIsReal, [Next]_vars
             PROVE  SettledBoardIsReal'
  OBVIOUS
<1>1. CASE PageSteps
  BY <1>1, PageStepKeepsReal
<1>2. CASE ServerSteps
  BY <1>2, WriterKeepsReal DEF ServerSteps, pageVars
<1>3. ASSUME NEW s \in Socket, PageConnects(s) \/ SocketGoes(s) PROVE SettledBoardIsReal'
  BY <1>3, WriterKeepsReal DEF PageConnects, SocketGoes
<1>4. ASSUME NEW p \in PollerId, PageHearsPoll(p) PROVE SettledBoardIsReal'
  BY <1>4, WriterKeepsReal DEF PageHearsPoll
<1>5. ASSUME NEW f \in fetches, PageHearsAnswer(f) PROVE SettledBoardIsReal'
  BY <1>5, WriterKeepsReal DEF PageHearsAnswer
<1>6. CASE UNCHANGED vars
  BY <1>6, WriterKeepsReal DEF vars, pageVars
<1> QED
  BY <1>1, <1>2, <1>3, <1>4, <1>5, <1>6 DEF Next

\* No refused card stays: once the last move is settled and read back, the page
\* shows a board the dashboard has had (hooks.ts 117-151).
THEOREM NoRefusedCardStays == Spec => []SettledBoardIsReal
<1>1. Init => SettledBoardIsReal
  BY DEF Init, Real, SettledBoardIsReal
<1> QED
  BY <1>1, NextKeepsReal, KanbanTypeCorrect, PTL DEF Spec
=============================================================================
