----------------------------- MODULE KanbanPage -----------------------------
(***************************************************************************)
(* A kanban page (apps/web/src/features/kanban/hooks.ts, useKanbanLive.ts, *)
(* kanbanSocket.ts) on top of the namespace.                               *)
(*                                                                         *)
(* Three writers share the one cache entry of the board: the snapshots of  *)
(* the socket, the query (with its slow poll, and refetched after each     *)
(* move), and the moves, which show a card in its new column before the    *)
(* dashboard has agreed and take it back when it refuses.                  *)
(*                                                                         *)
(* What a page shows is a reading of the board and the moves put on top.   *)
(* The other sockets of the instance are pages of other people.            *)
(***************************************************************************)
EXTENDS KanbanNamespace

CONSTANTS Watched,  \* the board of the page
          Move      \* moves the user makes, each once

ASSUME PageAssumption == Watched \in Board

VARIABLES socket,  \* the connection of the page, or None
          view,    \* the cache entry: a reading and the moves on top of it
          query,   \* the read of the query that is under way, or Idle
          failed,  \* the last read of the query has failed
          move     \* move[m]: its phase, and what the page showed before it

pageVars == <<socket, view, query, failed, move>>

vars == <<namespaceVars, pageVars>>

-----------------------------------------------------------------------------
Unseen == -3  \* the page has shown no board yet

View == [base : Reading \cup {Unseen}, moves : SUBSET Move]

Real(c) == [base |-> c, moves |-> {}]

InFlight == {m \in Move : move[m].phase \in {"sent", "accepted"}}

\* onSnapshot: the board is not written while a move is in flight.
Snapshot(c) == IF InFlight = {} THEN Real(c) ELSE view

\* connect, and a reconnect, with the next socket
PageConnects(s) ==
  /\ socket = None
  /\ Connect(s)
  /\ socket' = s
  /\ UNCHANGED <<view, query, failed, move>>

PageHearsPoll(p) ==
  /\ AnswerPoll(p)
  /\ view' = IF Pushes(p) /\ p[2] = Watched /\ socket \in Room(Watched)
             THEN Snapshot(poller[p].poll) ELSE view
  /\ UNCHANGED <<socket, query, failed, move>>

PageHearsAnswer(f) ==
  /\ AnswerSubscriber(f)
  /\ view' = IF f.socket = socket /\ f.board = Watched THEN Snapshot(f.read) ELSE view
  /\ UNCHANGED <<socket, query, failed, move>>

SocketGoes(s) ==
  /\ Disconnect(s)
  /\ socket' = IF s = socket THEN None ELSE socket
  /\ UNCHANGED <<view, query, failed, move>>

-----------------------------------------------------------------------------
\* Faulty variant of Refetch: a failed read stops the interval.
RefetchUnlessFailed ==
  /\ query = Idle /\ ~failed
  /\ query' = Upstream(Watched)
  /\ UNCHANGED <<socket, view, failed, move>> /\ UNCHANGED namespaceVars

\* The query reads on its own every refetchInterval.
Refetch ==
  /\ query = Idle
  /\ query' = Upstream(Watched)
  /\ UNCHANGED <<socket, view, failed, move>> /\ UNCHANGED namespaceVars

QueryAnswers ==
  /\ query # Idle
  /\ view' = Real(query)
  /\ query' = Idle
  /\ failed' = FALSE
  /\ UNCHANGED <<socket, move>> /\ UNCHANGED namespaceVars

QueryFails ==
  /\ query # Idle
  /\ query' = Idle
  /\ failed' = TRUE
  /\ UNCHANGED <<socket, view, move>> /\ UNCHANGED namespaceVars

\* onMutate: reads under way are cancelled, the card is shown where it goes.
StartMove(m) ==
  /\ move[m].phase = "none"
  /\ view.base \in 1 .. MaxCursor
  /\ query' = Idle
  /\ move' = [move EXCEPT ![m] = [phase |-> "sent", previous |-> view]]
  /\ view' = [view EXCEPT !.moves = @ \cup {m}]
  /\ UNCHANGED <<socket, failed>> /\ UNCHANGED namespaceVars

\* The dashboard takes the move, which is an event of the board.
Accept(m) ==
  /\ move[m].phase = "sent"
  /\ Advance(Watched)
  /\ move' = [move EXCEPT ![m].phase = "accepted"]
  /\ UNCHANGED <<socket, view, query, failed>>

\* Faulty variant of Invalidated: nothing is read again.
NotInvalidated == UNCHANGED query

\* invalidateQueries: a read under way is cancelled and a new one is made.
Invalidated == query' = Upstream(Watched)

Settled(m) ==
  /\ move' = [move EXCEPT ![m] = [phase |-> "done", previous |-> Real(Unseen)]]
  /\ Invalidated
  /\ UNCHANGED <<socket, failed>> /\ UNCHANGED namespaceVars

\* onSuccess and onSettled
Succeed(m) ==
  /\ move[m].phase = "accepted"
  /\ Settled(m)
  /\ UNCHANGED view

\* onError and onSettled: the dashboard has refused, or its answer was lost.
Fail(m) ==
  /\ m \in InFlight
  /\ view' = move[m].previous
  /\ Settled(m)

-----------------------------------------------------------------------------
Init ==
  /\ NamespaceInit
  /\ socket = None
  /\ view = Real(Unseen)
  /\ query = Idle
  /\ failed = FALSE
  /\ move = [m \in Move |-> [phase |-> "none", previous |-> Real(Unseen)]]

ServerSteps ==
  /\ \/ \E b \in Board : Advance(b) \/ Plug(b) \/ Tick(b)
     \/ \E s \in Socket : Connect(s) \/ \E b \in Board : Subscribe(s, b)
     \/ \E f \in fetches : SubscriberFails(f)
     \/ \E p \in PollerId : PollFails(p)
  /\ UNCHANGED pageVars

PageSteps ==
  \/ Refetch \/ QueryAnswers \/ QueryFails
  \/ \E m \in Move :
       StartMove(m) \/ Accept(m) \/ Succeed(m) \/ Fail(m)

Next ==
  \/ ServerSteps
  \/ PageSteps
  \/ \E s \in Socket : PageConnects(s) \/ SocketGoes(s)
  \/ \E p \in PollerId : PageHearsPoll(p)
  \/ \E f \in fetches : PageHearsAnswer(f)

Spec == Init /\ [][Next]_vars

\* Intervals fire, and a read that is made over and over succeeds in the end.
\* The connection of the page is owed nothing: it may be lost for good.
FairSpec ==
  /\ Spec
  /\ WF_vars(Refetch) /\ SF_vars(QueryAnswers)
  /\ \A b \in Board : WF_vars(Tick(b) /\ UNCHANGED pageVars)
  /\ \A p \in PollerId : SF_vars(PageHearsPoll(p))

-----------------------------------------------------------------------------
KanbanTypeOK ==
  /\ NamespaceTypeOK
  /\ socket \in Socket \cup {None}
  /\ view \in View
  /\ query \in Reading \cup {Idle}
  /\ failed \in BOOLEAN
  /\ move \in [Move -> [phase : {"none", "sent", "accepted", "done"},
                        previous : View]]

(* No refused card stays (hooks.ts 117-151): however moves, their rollbacks,  *)
(* refetches and pushes are interleaved, once the last move is settled and    *)
(* read back the page shows a board that the dashboard has had.               *)
SettledBoardIsReal ==
  InFlight = {} /\ query = Idle /\ ~failed => view.moves = {}

(* The page catches up (hooks.ts 55-68, kanbanNamespace.ts 127-150): when the *)
(* board has come to rest, the page ends up showing it, whatever stale reads, *)
(* pushes that were missed and lost connections came before.                  *)
BoardConverges ==
  <>[][FALSE]_<<cursor, plugged>> /\ <>[](InFlight = {})
    => <>[](view = Real(Upstream(Watched)))

(* The poller catches up (kanbanNamespace.ts 128-150, 214-215): a poller that *)
(* stays, and was seeded with an answer older than what it has pushed, or had *)
(* polls that failed, still ends up at the cursor of the board.               *)
PollerCatchesUp ==
  <>[][FALSE]_<<cursor, plugged, pollers>>
    => <>[](pollers[Watched] # None
              => poller[pollers[Watched]].last = Upstream(Watched))
=============================================================================
