------------------------------ MODULE ChatRun -------------------------------
(***************************************************************************)
(* The /chat-run namespace of apps/server/src/chat/chatRun.ts: the socket  *)
(* handlers that drive the RunManager and forward a run's log to browsers. *)
(*                                                                         *)
(* A handler runs to its first await without interruption.  The commands   *)
(* run, abort and approval.respond await an HTTP call of the gateway, so   *)
(* each is two steps: the part before the await leaves a record in calls,  *)
(* the part after it takes the record away.  Anything may happen between.  *)
(*                                                                         *)
(* Frames go to one browser tab, which opens the sockets one after the     *)
(* other; down holds what was emitted to its open socket and not read yet. *)
(* What is emitted to a socket whose client is gone is lost.  Heartbeats   *)
(* are not put on the wire: they carry no state of a run.                  *)
(*                                                                         *)
(* A run is identified by the id the gateway will hand out for it, from    *)
(* the moment the tab asks for it; nothing reads that id before the        *)
(* gateway has answered.                                                   *)
(***************************************************************************)
EXTENDS RunManager, SequencesExt

CONSTANTS Socket,   \* connections, one per (re)connect
          MaxTails  \* MAX_TAILS_PER_SOCKET

ASSUME ChatRunAssumption == MaxTails \in Nat \ {0}

VARIABLES link,   \* state of each connection, as the server and the wire see it
          tails,  \* per socket, its subscriptions in insertion order
          calls,  \* handlers that wait for the gateway's answer
          down    \* frames on their way to the tab

wireVars == <<link, tails, calls, down>>

-----------------------------------------------------------------------------
(***************************************************************************)
(* Frames.  A frame with cursor 0 is transient: it is in no log.  gate     *)
(* names the approval an approval.request asks for, by its cursor.         *)
(***************************************************************************)
\* command.error names the command that failed, and nothing else.
Rejection == [run    |-> "run rejected",    resume  |-> "resume rejected",
              abort  |-> "abort rejected",  respond |-> "respond rejected"]

Rejections == {Rejection[c] : c \in DOMAIN Rejection}

WireFrame ==
  [event  : LogEvents \cup Rejections \cup
              {"run.stopping", "approval.pending", "approval.cleared"},
   run    : RunId \cup {"none"},
   cursor : Nat,
   gate   : Nat]

Transient(e, r) == <<[event |-> e, run |-> r, cursor |-> 0, gate |-> 0]>>

Forwarded(r, events) ==
  [i \in DOMAIN events |->
     [event |-> events[i].event, run |-> r, cursor |-> events[i].cursor,
      gate |-> IF events[i].event = "approval.request" THEN events[i].cursor ELSE 0]]

\* Array.prototype.filter: the elements at the positions I, in their order.  It
\* is defined by the rank of a position, not with SelectSeq, which the proof
\* system takes for a primitive and knows nothing about.
Rank(i, I) == Cardinality({j \in I : j <= i})

Subsequence(s, I) ==
  [k \in 1 .. Cardinality(I) |-> s[CHOOSE i \in I : Rank(i, I) = k]]

After(events, cursor) ==
  Subsequence(events, {i \in DOMAIN events : events[i].cursor > cursor})

IsOpen(s) == link[s] = "open"

Emit(s, frames) == down' = IF IsOpen(s) THEN down \o frames ELSE down

Gates(events) ==
  Subsequence(events, {i \in DOMAIN events :
                         events[i].event \in {"approval.request", "approval.responded"}})

\* The cursor of the request that still gates the log, or 0.
PendingGate(events) ==
  LET gates == Gates(events)
  IN  IF gates # << >> /\ Last(gates).event = "approval.request"
      THEN Last(gates).cursor ELSE 0

\* Faulty variant of PendingApprovalBefore: a gate that was seen is not shown again.
NothingPending(r, events, k) == << >>

\* Only a request that the replay after cursor k skips is of interest.
PendingApprovalBefore(r, events, k) ==
  IF PendingGate(events) \in 1 .. k
  THEN <<[event |-> "approval.request", run |-> r, cursor |-> 0,
          gate |-> PendingGate(events)]>>
  ELSE << >>

-----------------------------------------------------------------------------
(***************************************************************************)
(* Tails.  A tail forwards what is newer than its gate; live says whether  *)
(* the store still calls it: a log that is dropped forgets its subscribers.*)
(***************************************************************************)
TailState == [run : RunId, gate : Nat, live : BOOLEAN]

\* The subscription of socket s to r that the store still calls; there is one at most.
LiveTails(s, r) == {i \in DOMAIN tails[s] : tails[s][i].run = r /\ tails[s][i].live}

Follows(s, r) == LiveTails(s, r) # {}

\* A subscription of a log that the step drops is never called again.
Retained(ts) ==
  [i \in DOMAIN ts |-> [ts[i] EXCEPT !.live = @ /\ ts[i].run \in DOMAIN runs']]

WithoutTail(ts, r) == Subsequence(ts, {i \in DOMAIN ts : ts[i].run # r})

\* What the step appends to the log of r.
News(r) ==
  IF r \in DOMAIN runs'
  THEN After(runs'[r].events, IF Has(r) THEN runs[r].cursor ELSE 0)
  ELSE << >>

\* namespace.emit of approval.pending, for each gate that is asked for, and of
\* approval.cleared, once: every open socket.
Asked(r) == \E i \in DOMAIN News(r) : News(r)[i].event = "approval.request"

Announcements(r) ==
  CASE Asked(r)                           -> Transient("approval.pending", r)
    [] r \in approvalOpen \ approvalOpen' -> Transient("approval.cleared", r)
    [] OTHER                              -> << >>

\* What the live tail of r on socket s forwards of the news.
Heard(s, r) ==
  IF Follows(s, r)
  THEN LET mine == CHOOSE i \in LiveTails(s, r) : TRUE
       IN  Forwarded(r, After(News(r), tails[s][mine].gate))
  ELSE << >>

\* Faulty variant of TailsAfter: the callback stays after the terminal event.
TailsAfterKept(s, r) == Retained(tails[s])

\* A terminal event takes the live tail that forwarded it away.
TailsAfter(s, r) ==
  Retained(
    IF \E i \in DOMAIN News(r) : News(r)[i].event \in TerminalEvents
    THEN Subsequence(tails[s], DOMAIN tails[s] \ LiveTails(s, r))
    ELSE tails[s])

\* Every subscriber of r hears what the step appends, and every open socket what
\* it announces.  early is emitted to socket t before anything else.
Notify(r, t, early) ==
  /\ tails' = [s \in Socket |-> TailsAfter(s, r)]
  /\ down' = IF \E s \in Socket : IsOpen(s)
             THEN LET s == CHOOSE x \in Socket : IsOpen(x)
                  IN  down \o (IF s = t THEN early ELSE << >>)
                           \o Announcements(r) \o Heard(s, r)
             ELSE down

\* subscribe(runId, afterCursor), on the log as the handler has left it: replay,
\* show a skipped open gate again, tail; over the cap the oldest tail goes.
Attach(s, r, after) ==
  LET log    == runs'[r]
      replay == After(log.events, after)
      gate   == IF replay = << >> THEN after ELSE Last(replay).cursor
      others == WithoutTail(tails[s], r)
      added  == IF log.done THEN others
                ELSE Append(others, [run |-> r, gate |-> gate, live |-> TRUE])
      kept   == SubSeq(added, IF Len(added) > MaxTails THEN 2 ELSE 1, Len(added))
  IN  /\ tails' = [x \in Socket |-> Retained(IF x = s THEN kept ELSE tails[x])]
      /\ Emit(s, Forwarded(r, replay) \o
                 IF log.done THEN << >> ELSE PendingApprovalBefore(r, log.events, after))

-----------------------------------------------------------------------------
(***************************************************************************)
(* Commands of the tab.  A call that waits is a record; gate is the        *)
(* approval a response answers.                                            *)
(***************************************************************************)
Call == [do : {"run", "abort", "respond"}, socket : Socket, run : RunId, gate : Nat]

RunCommand(s, r) ==
  /\ calls' = calls \cup {[do |-> "run", socket |-> s, run |-> r, gate |-> 0]}
  /\ UNCHANGED managerVars
  /\ UNCHANGED <<link, tails, down>>

\* startRun and getRunSession have answered: run.started, the pump, the tail.
RunAccepted(c) ==
  /\ c.do = "run"
  /\ Start(c.run)
  /\ Attach(c.socket, c.run, 0)
  /\ calls' = calls \ {c}
  /\ UNCHANGED link

\* Faulty variant of Rejected: the failure is not named as one.
RejectedUnnamed(c) ==
  /\ Emit(c.socket, Transient(c.do, "none"))
  /\ calls' = calls \ {c}
  /\ UNCHANGED managerVars
  /\ UNCHANGED <<link, tails>>

\* Any of the three calls fails: the socket is told which command it was, no more.
Rejected(c) ==
  /\ Emit(c.socket, Transient(Rejection[c.do], "none"))
  /\ calls' = calls \ {c}
  /\ UNCHANGED managerVars
  /\ UNCHANGED <<link, tails>>

ResumeCommand(s, r, after) ==
  \/ /\ ~Has(r) /\ ~IsActive(r)
     /\ Emit(s, Transient(Rejection.resume, "none"))
     /\ UNCHANGED managerVars
     /\ UNCHANGED <<link, tails, calls>>
  \/ /\ \/ Has(r) /\ UNCHANGED managerVars
        \/ Rebegin(r)
     /\ Attach(s, r, after)
     /\ UNCHANGED <<link, calls>>

AbortCommand(s, r) ==
  /\ \/ /\ Abort(r)
        /\ calls' = calls \cup {[do |-> "abort", socket |-> s, run |-> r, gate |-> 0]}
     \/ ~IsActive(r) /\ UNCHANGED managerVars /\ UNCHANGED calls
  /\ Notify(r, s, Transient("run.stopping", r))
  /\ UNCHANGED link

RespondCommand(s, r, g) ==
  /\ calls' = IF IsActive(r)
              THEN calls \cup {[do |-> "respond", socket |-> s, run |-> r, gate |-> g]}
              ELSE calls
  /\ UNCHANGED managerVars
  /\ UNCHANGED <<link, tails, down>>

\* stopRun has answered.
AbortAccepted(c) ==
  /\ c.do = "abort"
  /\ calls' = calls \ {c}
  /\ UNCHANGED managerVars
  /\ UNCHANGED <<link, tails, down>>

\* respondApproval has answered; whatever gate is open now is announced closed.
RespondAccepted(c) ==
  /\ c.do = "respond"
  /\ \/ ClearApproval(c.run)
     \/ c.run \notin approvalOpen /\ UNCHANGED managerVars
  /\ Notify(c.run, c.socket, << >>)
  /\ calls' = calls \ {c}
  /\ UNCHANGED link

-----------------------------------------------------------------------------
(***************************************************************************)
(* Connections, and what the manager and the store do by themselves.       *)
(***************************************************************************)
Connected(s) ==
  /\ link[s] = "unused"
  /\ \A x \in Socket : ~IsOpen(x)
  /\ link' = [link EXCEPT ![s] = "open"]
  /\ UNCHANGED managerVars
  /\ UNCHANGED <<tails, calls, down>>

\* The tab loses its connection, or is reloaded; frames in flight are lost.
LinkLost(s) ==
  /\ IsOpen(s)
  /\ link' = [link EXCEPT ![s] = "gone"]
  /\ down' = << >>
  /\ UNCHANGED managerVars
  /\ UNCHANGED <<tails, calls>>

\* Faulty variant of Disconnect: the runs the socket follows lose their pumps.
DisconnectForgets(s) ==
  /\ link[s] = "gone"
  /\ link' = [link EXCEPT ![s] = "closed"]
  /\ tails' = [tails EXCEPT ![s] = << >>]
  /\ pumps' = [r \in {x \in DOMAIN pumps : ~Follows(s, x)} |-> pumps[r]]
  /\ UNCHANGED <<runs, lost, stream, approvalOpen, calls, down>>

\* The disconnect handler: only the subscriptions go.
Disconnect(s) ==
  /\ link[s] = "gone"
  /\ link' = [link EXCEPT ![s] = "closed"]
  /\ tails' = [tails EXCEPT ![s] = << >>]
  /\ UNCHANGED managerVars
  /\ UNCHANGED <<calls, down>>

Pumped(p) ==
  /\ PumpStep(p)
  /\ Notify(stream[p].run, "none", << >>)
  /\ UNCHANGED <<link, calls>>

Reaped(r) ==
  /\ Reap(r)
  /\ Notify(r, "none", << >>)
  /\ UNCHANGED <<link, calls>>

TimePasses ==
  /\ StoreTimer \/ Tick
  /\ tails' = [s \in Socket |-> Retained(tails[s])]
  /\ UNCHANGED <<link, calls, down>>

\* The server process dies, with every connection and every waiting handler.
ServerCrash ==
  /\ Crash
  /\ link' = [s \in Socket |-> IF link[s] = "unused" THEN "unused" ELSE "closed"]
  /\ tails' = [s \in Socket |-> << >>]
  /\ calls' = {}
  /\ down' = << >>

WireInit ==
  /\ link = [s \in Socket |-> "unused"]
  /\ tails = [s \in Socket |-> << >>]
  /\ calls = {}
  /\ down = << >>

WireTypeOK ==
  /\ link \in [Socket -> {"unused", "open", "gone", "closed"}]
  /\ tails \in [Socket -> Seq(TailState)]
  /\ calls \subseteq Call
  /\ down \in Seq(WireFrame)
=============================================================================
