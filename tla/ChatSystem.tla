----------------------------- MODULE ChatSystem -----------------------------
(***************************************************************************)
(* The chat: one browser tab (ChatSocket) connected to the server          *)
(* (ChatRun over RunManager over RunStore).                                *)
(*                                                                         *)
(* Commands travel in up.  While the tab has no connection they wait there *)
(* (socket.io buffers them) and are sent, in order, before the resume that *)
(* the connect handler emits; a connection that breaks loses the ones in   *)
(* flight, as it loses the frames in down.  The tab reconnects with a new  *)
(* socket until the sockets of the instance are used up; the last          *)
(* connection is never lost.                                               *)
(***************************************************************************)
EXTENDS ChatRun, ChatSocket

CONSTANT MaxUp  \* bound: commands on their way at a time

ASSUME ChatSystemAssumption == MaxUp \in Nat \ {0}

\* activeRunId is null, and no run has that for its id.
ASSUME RunIdAssumption == None \notin RunId

\* run.started is synthesized by the BFF (chat-events.ts 17, 52): no stream of the
\* gateway carries one.
ASSUME GatewayAssumption == "run.started" \notin RawFrames

VARIABLES tab,      \* the state of the page
          up,       \* commands on their way to the server
          asked,    \* history: the runs the tab has asked for
          left,     \* history: the runs it asked for in a chat it has left
          answered  \* history: the approvals the gateway took an answer for

tabVars == <<tab, up, asked, left, answered>>

vars == <<managerVars, wireVars, tabVars>>

-----------------------------------------------------------------------------
Online == \E s \in Socket : IsOpen(s)

MayReconnect == \E s \in Socket : link[s] = "unused"

Command == [do     : {"run", "resume", "abort", "respond"},
            run    : RunId,
            cursor : Nat]  \* the anchor of a resume, the gate of a response

Emits(do, r, k) ==
  /\ Len(up) < MaxUp
  /\ up' = Append(up, [do |-> do, run |-> r, cursor |-> k])

\* The composer sends at once when no run is in flight; otherwise it queues.
Send(r) ==
  /\ tab.status = "idle"
  /\ r \notin asked
  /\ Emits("run", r, 0)
  /\ tab' = Issued(tab)
  /\ asked' = asked \cup {r}
  /\ UNCHANGED <<left, answered>>
  /\ UNCHANGED managerVars /\ UNCHANGED wireVars

\* Bound: a Stop that is on its way is not repeated.
StopIsUnderWay ==
  \/ \E i \in DOMAIN up : up[i].do = "abort"
  \/ \E i \in DOMAIN down : down[i].event = "run.stopping"

Stop ==
  /\ tab.status # "idle"
  /\ tab.run # None
  /\ ~StopIsUnderWay
  /\ Emits("abort", tab.run, 0)
  /\ UNCHANGED <<tab, asked, left, answered>>
  /\ UNCHANGED managerVars /\ UNCHANGED wireVars

Respond ==
  /\ tab.card # NoCard
  /\ Emits("respond", tab.card.run, tab.card.gate)
  /\ tab' = Responded(tab)
  /\ UNCHANGED <<asked, left, answered>>
  /\ UNCHANGED managerVars /\ UNCHANGED wireVars

NewChat ==
  /\ tab' = Detached(tab)
  /\ left' = asked
  /\ UNCHANGED <<up, asked, answered>>
  /\ UNCHANGED managerVars /\ UNCHANGED wireVars

-----------------------------------------------------------------------------
\* The connection breaks; the tab stays as it is.
Lose ==
  /\ MayReconnect
  /\ \E s \in Socket : LinkLost(s)
  /\ up' = << >>
  /\ UNCHANGED <<tab, asked, left, answered>>

Reload ==
  /\ MayReconnect
  /\ \/ \E s \in Socket : LinkLost(s)
     \/ ~Online /\ UNCHANGED managerVars /\ UNCHANGED wireVars
  /\ up' = << >>
  /\ tab' = Reloaded(tab)
  /\ UNCHANGED <<asked, left, answered>>

\* Faulty variant of Resumption: a new connection resumes nothing.
NoResumption(t, commands) == commands

\* What the connect handler adds to the commands that were waiting.
Resumption(t, commands) ==
  IF t.run # None /\ ~t.done
  THEN Append(commands, [do |-> "resume", run |-> t.run, cursor |-> t.cursor])
  ELSE commands

Connect ==
  /\ MayReconnect
  /\ Connected(CHOOSE s \in Socket : link[s] = "unused")
  /\ up' = Resumption(tab, up)
  /\ UNCHANGED <<tab, asked, left, answered>>

\* The server takes the next command.
Deliver ==
  /\ up # << >>
  /\ up' = Tail(up)
  /\ LET c == Head(up)
     IN  \E s \in Socket, r \in RunId :
           /\ IsOpen(s)
           /\ r = c.run
           /\ \/ c.do = "run" /\ RunCommand(s, r)
              \/ c.do = "resume" /\ ResumeCommand(s, r, c.cursor)
              \/ c.do = "abort" /\ AbortCommand(s, r)
              \/ c.do = "respond" /\ RespondCommand(s, r, c.cursor)
  /\ UNCHANGED <<tab, asked, left, answered>>

\* The tab takes the next frame.
Receive ==
  /\ down # << >>
  /\ down' = Tail(down)
  /\ tab' = Received(tab, Head(down))
  /\ UNCHANGED <<up, asked, left, answered, link, tails, calls>>
  /\ UNCHANGED managerVars

-----------------------------------------------------------------------------
\* The gateway takes or refuses what a waiting handler has asked of it.
GatewayAnswers ==
  /\ \E c \in calls :
       \/ RespondAccepted(c) /\ answered' = answered \cup {<<c.run, c.gate>>}
       \/ RunAccepted(c) /\ UNCHANGED answered
       \/ AbortAccepted(c) /\ UNCHANGED answered
       \/ Rejected(c) /\ UNCHANGED answered
  /\ UNCHANGED <<tab, up, asked, left>>

Background ==
  /\ \/ \E s \in Socket : Disconnect(s)
     \/ \E p \in PumpId : Pumped(p)
     \/ \E r \in RunId : Reaped(r)
     \/ TimePasses
  /\ UNCHANGED tabVars

ServerDies ==
  /\ MayReconnect
  /\ ServerCrash
  /\ up' = IF Online THEN << >> ELSE up
  /\ UNCHANGED <<tab, asked, left, answered>>

SystemInit ==
  /\ ManagerInit
  /\ WireInit
  /\ tab = NewTab
  /\ up = << >>
  /\ asked = {}
  /\ left = {}
  /\ answered = {}

SystemNext ==
  \/ \E r \in RunId : Send(r)
  \/ Stop \/ Respond \/ NewChat
  \/ Lose \/ Reload \/ Connect
  \/ Deliver \/ Receive
  \/ GatewayAnswers
  \/ Background
  \/ ServerDies

SystemSpec == SystemInit /\ [][SystemNext]_vars

\* The wire delivers, the tab reconnects, the timers fire and an aborted stream
\* unwinds.  Nothing is owed by the user or by a live gateway stream, and no
\* HTTP call of the gateway needs to be answered.
SystemFairness ==
  /\ WF_vars(Connect)
  /\ WF_vars(Deliver)
  /\ WF_vars(Receive)
  /\ WF_vars(Background /\ Tick)
  /\ WF_vars(Background /\ \E r \in RunId : Reap(r))
  /\ \A p \in PumpId :
       WF_vars(Background /\ stream[p].aborted /\ (StreamEnd(p) \/ StreamError(p)))

FairSystemSpec == SystemSpec /\ SystemFairness

-----------------------------------------------------------------------------
TabState ==
  [run : RunId \cup {None}, done : BOOLEAN, cursor : Nat, expecting : BOOLEAN,
   saved : RunId \cup {None}, shown : RunId \cup {None},
   status : {"idle", "running", "stopping"}, working : BOOLEAN,
   card : [run : RunId \cup {None}, gate : Nat],
   cleared : [run : RunId \cup {None}, gate : Nat],
   inbox : SUBSET RunId, applied : Seq(RunId \X Nat)]

SystemTypeOK ==
  /\ TypeOK
  /\ WireTypeOK
  /\ tab \in TabState
  /\ up \in Seq(Command)
  /\ asked \subseteq RunId
  /\ left \subseteq asked
  /\ answered \subseteq RunId \X Nat

\* Nothing is on its way in either direction.
Quiet == Online /\ up = << >> /\ down = << >>

\* The log of the tab's run is the one that was begun with it, uncut.
Whole(r) == Has(r) /\ r \notin lost /\ runs[r].cursor <= MaxEvents

(* The server is asked for nothing but what the manager offers: whatever the  *)
(* handlers, the connections and the tab do, the manager and the store move   *)
(* as their own specification says.                                           *)
ManagerSpec == Spec

(* A subscription ends with its run (chatRun.ts 167-186, runStore.ts 159-178):*)
(* no callback, on whichever socket, is left on a log that has its terminal   *)
(* event, so frames that come late are kept from every transcript.            *)
TailsAreOfOpenRuns ==
  \A s \in Socket :
    \A i \in DOMAIN tails[s] : tails[s][i].live => ~IsDone(tails[s][i].run)

(* Exactly once (chatRun.ts 148-193, chatSocket.ts 266-271, 463-469): through *)
(* replays, live tails, reconnects and page loads, the transcript is made of  *)
(* every logged event of the run up to the anchor, once and in order, and of  *)
(* no event of another run.                                                   *)
EveryEventOnce ==
  tab.run # None /\ tab.run \notin lost /\ (Has(tab.run) => Whole(tab.run))
    => tab.applied = [i \in 1 .. tab.cursor |-> <<tab.run, i>>]

(* Nothing is lost (chatRun.ts 6-8, chatSocket.ts 371-378): when the wire has *)
(* gone quiet, a tab that follows a run has everything the log of it holds.   *)
CaughtUp ==
  Quiet /\ tab.run # None /\ ~tab.done /\ Whole(tab.run)
    => tab.cursor = runs[tab.run].cursor

\* The gate that pauses the tab's run, if any, is on the screen or being answered.
GateIsShown ==
  LET r == tab.run
      g == PendingGate(runs[r].events)
  IN  \/ g = 0
      \/ tab.card = [run |-> r, gate |-> g]
      \/ <<r, g>> \in answered
      \/ \E c \in calls : c.do = "respond" /\ c.run = r /\ c.gate = g

GatesAlternate(events) ==
  LET gates == Gates(events)
  IN  \A i \in DOMAIN gates : (i % 2 = 1) = (gates[i].event = "approval.request")

\* The tab follows a run whose gates are opened one at a time.
FollowsGatedRun ==
  /\ tab.run # None
  /\ ~tab.done
  /\ Whole(tab.run)
  /\ GatesAlternate(runs[tab.run].events)

\* The card that tab t shows, or if there is none the one that was answered last.
LastCard(t) == IF t.card # NoCard THEN t.card ELSE t.cleared

(* A paused run shows its card (chatRun.ts 51-59, 167-178; useChatRun.ts      *)
(* 167-182): when the wire is quiet, the gate of the run that the tab shows   *)
(* in flight is on the screen until an answer is taken, whatever connections, *)
(* page loads or rejected answers came between.  It is out of reach while the *)
(* tab keeps a card of a run it has left (useChatRun.ts 173).                 *)
PausedRunShowsItsCard ==
  Quiet /\ FollowsGatedRun /\ tab.status # "idle" /\ LastCard(tab).run \in {None, tab.run}
    => GateIsShown

(* Stop and the reaper reach the screen (runManager.ts 310-331): a tab that   *)
(* shows a run in flight goes back to idle, through lost connections, page    *)
(* loads and a server that has forgotten the run.                             *)
TabSettles == tab.status # "idle" ~> tab.status = "idle"

(* useChatRun.ts 168-172: a rejected answer must not take the run to idle,    *)
(* "which would clear the gate again".                                        *)
GateSurvivesRejection == Quiet /\ FollowsGatedRun => GateIsShown

(* chatSocket.ts 337: after a detach, handleFrame "drops every frame from     *)
(* that run as foreign".                                                      *)
LeftRunStaysOut == tab.run \notin left

(* useApprovalInbox.ts 29: a run's entry is removed "once its gate resolved   *)
(* or its run ended".                                                         *)
InboxHoldsOpenGates == Quiet => tab.inbox \subseteq approvalOpen
=============================================================================
