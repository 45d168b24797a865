# Agent Deck in TLA+

Agent Deck is a web front end for the hermes agent: a browser page (React), a
server ("BFF", Fastify and Socket.IO), and behind it the hermes gateway, which
runs the agent and streams a run's events once. The value of the program lies in
what it adds to that stream: a run belongs to the server, not to a browser tab,
and a tab that was reloaded, or lost its connection, picks the run up where it
left it. Beside the chat the server keeps terminals that outlive their browser
tab, saved terminal workspaces, and live kanban boards. This directory models
these parts, checks them with TLC, and proves the server's half of them with
TLAPS.

## 1. Inventory

### The chat

| Part | State it keeps | Operations | Hard behaviour | What makes it correct |
|---|---|---|---|---|
| Run store, `apps/server/src/chat/runStore.ts` | one log per run: events with cursors, `done`, last activity, subscribers | append, broadcast, subscribe, snapshot; retention timer, idle sweep, eviction at `maxRuns` | eviction of a log that is in use; events dropped at the cap; timers | cursors without holes, bounded maps |
| Run manager, `chat/runManager.ts` | a map of live pumps; runs announced as waiting for approval; the pump iterations themselves | start, pump loop, abort, idle reaper, clearApproval | an entry is dropped before its iteration has unwound; the reaper, Stop and the end of a stream meet | no slot leaks, no run stays open, every live pump can be reached |
| Chat-run namespace, `chat/chatRun.ts` | per socket: its subscriptions with a replay gate | run, resume, abort, approval.respond, disconnect | handlers that await the gateway while sockets come and go | replay then tail with no hole and no overlap; a disconnect touches subscriptions only |
| Gateway client, `hermes/gatewayClient.ts` | none | startRun, getRunSession, streamRun, respondApproval, stopRun | refuses, is late, falls silent, sends frames after the last | - |
| Browser client, `apps/web/src/lib/chatSocket.ts`, `state/useChatRun.ts`, `state/chatStore.ts`, `state/useApprovalInbox.ts` | active run, resume anchor, `expectingOwnRun`, the run saved in sessionStorage, status, approval card and its snapshot, inbox | send, stop, answer, new chat, reload; a handler for each frame | reconnect, reload, late frames of a run that was left, optimistic updates refused later | each event of the run once and in order, nothing of another run; a paused run shows its card; the page gets back to idle |

They interact through calls (handlers call the manager and the store), callbacks
(store subscribers, approval broadcasts to all sockets) and messages (commands up,
frames down). All of the server runs on one event loop: a handler is atomic up
to its next `await`.

### Beside the chat

| Part | State | Hard behaviour | What makes it correct |
|---|---|---|---|
| Terminal namespace (`terminal/terminalNamespace.ts`) | sessions by key; per session a sink, a park timer; per socket whether it has started, and what it is bound to; the tmux server | the cap is checked before awaits, two starts of one id, takeover of the sink, park timer against reattach, exits that wait for a tmux check, a socket that goes while its shell is spawned | no shell out of reach, none parked for good, one stop each, a cap that holds up to the starts under way |
| Workspace store and routes (`terminal/workspaceStore.ts`, `workspaceRoutes.ts`) | cached map, shared first load, write chain, one file | reads and writes of one workspace around an await, writes that fail, a crash between any two steps | a durable document: what is answered is in the file, or its write has failed visibly |
| Kanban namespace (`kanban/kanbanNamespace.ts`) | pollers by board, with a reference count and a last cursor | subscribers come and go while reads are under way, answers cross, fail or never come | a poller exactly while somebody watches; it ends up at the cursor of the board |
| Kanban page (`features/kanban/hooks.ts`, `useKanbanLive.ts`, `kanbanSocket.ts`) | one cache entry with three writers | optimistic moves against refetches and pushes; rollback | refused cards go, the page converges on the board |
| Composer queue and chat route (`features/chat-input/messageQueue.ts`, `App.tsx`, `ChatRoute.tsx`, `ChatView.tsx`, `Composer.tsx`) | queue, armed flag, URL, session asked for, session shown, run followed | transcripts that load late, sends that wait for the model switch, moves between conversations while a queue waits | one flush per run, in its own conversation; what is shown is what was picked last; the queue drains |
| Organization store (`organization/organizationStore.ts`) | one JSON file | load, change, save without a lock | not modelled, see section 6 |
| Rate limiter (`rateLimit.ts`) | time stamps per key | none: one synchronous call | not modelled |
| Everything else in `PROJECT.json` (sessions, files, settings, models, profiles, skills, voice, usage, MCP, ...) | none between calls | stateless I/O | not modelled |

## 2. Modules

| Module | Models | Extends |
|---|---|---|
| `ChatEvents` | `packages/protocol/src/chat-events.ts`: the events a log may hold | |
| `RunStore` | `runStore.ts`; its methods are action fragments, its timers are steps | ChatEvents |
| `RunManager` | `runManager.ts`; one action per operation and per turn of the pump loop | RunStore |
| `ChatRun` | the handlers of `chatRun.ts`, subscriptions, connections and the frames on the wire | RunManager |
| `ChatSocket` | the tab, as functions from its state and a frame to its state | ChatEvents |
| `ChatSystem` | tab, wire and server together | ChatRun, ChatSocket |
| `TerminalSessions` | `terminalNamespace.ts`, with the tmux server and the ptys as its environment | |
| `DurableDocument` | the abstract specification: a document in memory and a file that follows it | |
| `WorkspaceStore` | `workspaceStore.ts` and the handlers of `workspaceRoutes.ts` | instance of DurableDocument |
| `KanbanNamespace` | `kanbanNamespace.ts` and the dashboard it polls | |
| `KanbanPage` | the page's cache entry, on top of the namespace | KanbanNamespace |
| `Conversations` | the chat route, the hook that issues runs, and the queue of the composer | |
| `RunManagerProofs`, `ChatSystemProofs`, `ChatDeliveryProofs`, `ChatCatchUpProofs`, `TerminalSessionsProofs`, `WorkspaceStoreProofs`, `KanbanPageProofs`, `ConversationsProofs` | theorems | |
| `MCRunManager`, `MCChatSystem` | sets of frames and symmetry for TLC | |

### How state and actions correspond to the code

- `runs` is the store's map (a function on the retained ids); `lost` is a history
  variable with the runs whose log was dropped while it held events.
- `pumps` is the manager's map, `stream` the iterations of `pump()`: an aborted
  iteration goes on after its entry has gone, as in the code. `approvalOpen` is
  the set behind `approval.pending` and `approval.cleared`.
- A heartbeat comment and a frame outside the vocabulary are frames the pump maps
  to a broadcast or to nothing; an unknown name with a terminal suffix becomes
  `run.failed` (`mapGatewayEvent`).
- `tails` are the subscriptions of a socket, with the cursor each of them has
  replayed to; `live` says whether the store still calls it, since an evicted log
  forgets its subscribers while the socket keeps its entry.
- `calls` holds the handlers that wait for the gateway. The two awaits of the run
  handler are one: nothing the model keeps changes between them, and
  `getRunSession` never fails.
- `tab` has one field per variable of the socket client and the chat store that
  decides something; of the transcript it keeps the sequence of applied events.
- `up` and `down` are the wire. Commands emitted while offline wait in the send
  buffer and go out before the resume of the connect handler; whatever is in
  flight when a connection breaks is lost.
- A terminal shell is named after the socket that spawned it, and a key is what
  the map is indexed by: a stable id, a socket (anonymous), or a tmux name with
  its client. `phase` is the flag `started`, `wants` the request whose handler is
  between `Begin` and its spawn. `Spawned` and `SpawnedTooLate` are the two ends
  of the awaits; `TmuxEnds`, `ClientDetaches` and `ExitChecked` are the exit
  handler around its tmux check. `stops` counts what the client is told.
- The requests of `WorkspaceStore` are cut where a handler waits: for the shared
  load, for the check of pane directories, for its link of the write chain. A field
  holds the request that wrote it, which is all that a lost change needs. A PATCH
  without panes is cut, too: of the requests that wait for one load another may
  run before its handler goes on.
- `DurableDocument` is written without the cache, the chain and the phases:
  its file moves forward along the versions of the memory, an answer waits for
  the file, a crash keeps the file. The store shares its history variables.
- In `KanbanNamespace` a read takes its value when it is made and is answered in
  any order; a poller that was dropped still answers its last poll to the room.
  `view` of the page is a reading with the moves put on top of it.
- In `Conversations` the React effects that follow an event are part of the
  event's action (`Effects`): the queue effect and the URL effect run before the
  next event does.
- Each step that appends to a log also delivers to the subscribers
  (`Notify`), since `append` calls them before it returns.

### Assumptions of the model

- A run id is fresh: the gateway never hands out the same id twice.
- The reaper's interval (10 s by default) is shorter than a tick, and the retention timer
  (1 h) outlasts what is left of a stream after its run is over (`Retired`).
- One tab. Another device is seen only through the broadcasts it would cause; the
  inbox is therefore checked for the tab's own past runs.
- Sockets of the terminal and kanban models are used for one connection each; a
  reconnect is the next socket.
- Terminal starts carry a stable id, or a tmux session to attach to, or neither;
  the web client never sends both. Every stable id has its own tmux name.
- The dashboard's cursor of a board only grows.
- A workspace id of a POST is fresh.
- The terminal connection status ("disconnected", where reconnecting has been
  given up) is not reached: the last connection of an instance is not lost.
- The workspace file is read whole or not at all. The code drops single entries that
  do not parse, which the store itself never writes.
- A tmux session that ends while a client attaches to it counts as ended before or
  after the attach (`Spawns`); the moment within is left out.

## 3. What TLC checks

| Run | Bounds | Shows |
|---|---|---|
| `RunManagerSafety` | 3 runs, 3 iterations, 2 slots, 2 logs of 2 events, 1 frame of each of 7 kinds per stream | eight invariants of store and manager: types, gap-free logs, entries and iterations in step, open runs drained, open gates withdrawn later, both caps |
| `ChatOneRun` | 1 run of 2 frames, 2 connections, 1 command in flight | exactly once, caught up when quiet, a paused run shows its card |
| `ChatTwoRuns` | 2 runs, 2 connections | exactly once for a tab that switches runs; the chat implements `RunManager` |
| `ChatLiveness` | 1 run of 1 frame, 2 connections | the tab gets back to idle, no slot is held forever, no announcement is up forever |
| `TerminalSessions` | 3 connections, 1 stable id, 1 foreign tmux session, 1 place | no shell out of reach, attached or on the clock, the cap up to the starts under way, one stop each, parked shells end |
| `WorkspaceStore` | 3 requests, 1 saved workspace | the store implements `DurableDocument`; nothing is left unwritten; deletes hold but for a patch under way; each request is answered |
| `KanbanBoards` | 2 connections, 1 board with 2 events, 1 move, 1 subscriber's read at a time | references are counted right, refused cards go, poller and page converge |
| `Conversations` | 3 messages, 1 saved session, 2 moves of the user | late transcripts never replace the choice, the URL names the chat, one flush per run, in its own chat, and the queue drains, but for what Stop leaves open |
| `ChatLeftRun`, `ChatInbox`, `ChatRejection`, `ConversationQueue` | the smallest instance with the behaviour | four places where the code does not do what a comment of it says (section 5) |

Why the bounds are enough to be of use: three runs over two slots and two logs are
the least with an eviction among runs of different age and a refused start that
is followed by a slot set free. Two frames are the least with a gate that opens
and closes, or a frame after the terminal one. Two connections give a reconnect,
a page load, or a server restart at every point; what a third adds is another
round of the same. Three terminal connections are two that contend and one that
comes back. Three requests are a patch, what comes between its read and its
write, and a write that is queued behind; they target the saved workspace and
each other's. Three messages are one in flight, one queued behind it and one
typed elsewhere; two moves leave a chat and come back. `MaxFrames`, `MaxUp`,
`MaxCursor`, `MaxFetches`, `MaxMoves`, `Socket`, `RunId`, `PumpId`, `Request` and
`Message` are the bounds; `StopIsUnderWay` keeps a user from pressing Stop again
while the first one travels; `idle` counters stop at the first value past their
window. In the chat runs `MaxEvents` is larger than any log, so that the caps do
not hide a lost event; the caps are checked in `RunManagerSafety`. `ChatTwoRuns`
has no gateway frames: a run starts and then ends by the end of its stream, a
failure, Stop or the reaper, which is what the interleaving of two runs needs.
The runs without deadlock check are those whose connections, requests or
messages are used up.

**Fairness.** For the chat: the timers fire (`Tick`, `Reap`), and an aborted
iteration ends, because the abort tears its fetch down; the tab reconnects, and
the wire delivers in both directions (Socket.IO reconnects by itself and a
connection that stays up delivers). Nothing is owed by a live gateway stream: it
may stay silent forever, and the reaper is what ends it. For the terminal only
the park timer is owed; a spawn, a tmux check and a user may take forever. For
the workspaces the file system answers each load, check and write, with success
or with an error. For the boards the intervals fire, and a read that is made
over and over succeeds in the end (strong fairness: each try may fail); the
connection may be lost for good. For the conversations a model switch ends, a
run that was issued starts or is refused, a run ends, a transcript loads; all of
these have timeouts or the reaper behind them. No user action is assumed fair.

**Conditions in the properties.** `Quiet` means that nothing is under way on
the wire. `Whole(r)` excludes a log that the store's own limits dropped or cut.
`FollowsGatedRun` asks that gates open one at a time, which is how the agent
asks. `PausedRunShowsItsCard` is stated for a tab that shows its run in flight;
where a rejection takes the tab to idle it fails, see `GateSurvivesRejection`.
It also excludes a tab that keeps the card of a run it has left, or the snapshot of
one (section 5): with one run TLC finds the property without that condition to hold,
with two it finds a trace that breaks it.
`Contested` names a stable id that two sockets started before either was
registered: the entry that is overwritten is out of reach (section 5).
`BoardConverges` and `PollerCatchesUp` are about a board that has come to rest.
`UrlNamesTheChat` excludes Clear chat, which keeps the old URL, and a late
`run.started` (`ChatLeftRun`). `QueueDrains` excludes a composer that stays
disabled or a last run that failed, and `reshown`: showing the session on screen
again, or the first one, while a flushed message is on its way (section 5). It also
leaves open whether a run that was stopped while messages waited holds the queue back
(`cancelled`), on which comment and code disagree (section 5): the queue drains once
another run has started.

## 4. What is proved

All theorems hold for every value of the constants, and rest on the named
assumptions of the modules only and on the library theorems on sequences and
finite sets. The assumptions: caps are positive naturals and windows naturals;
the terminal has finitely many connections (`TerminalAssumption`) and the user
submits finitely many messages (`ConversationAssumption`), without which a count
of either means nothing; the value for "none" is no member of the sets
it stands beside, nor itself a document (`StoreAssumption`, `NoneIsNoDocument`,
`KanbanAssumption`); the board of a page is a board (`PageAssumption`); no stream of the gateway carries a
`run.started`, which the server makes up itself (`GatewayAssumption`), and no run has the
id that stands for no run (`RunIdAssumption`).

Run manager and chat:

- `InductiveHolds`: the inductive invariant `Inductive` of `RunManager`. The
  invariants of the runs are not inductive alone. That an entry points at a live
  iteration needs that no two iterations serve one run (`OnePumpPerRun`):
  otherwise the `finally` of one would delete the entry of the other. That an
  open run is drained needs that whoever aborts a pump makes its run terminal in
  the same step (`AbortedRunIsOver`), or that its log was dropped, and for that
  that a finished run has events (`DoneRunHasEvents`).
- `TypeCorrect`, `ReplayIsGapFree`, `NoRunLeftOpen` (`OpenRunIsDrained`),
  `NoPumpEscapes` (`EveryPumpIsWatched`), `NothingOutlivesItsPump`
  (`EntryPointsAtLivePump`) and `NoBadgeOutlivesItsPump` (`OpenGateHasPump`)
  follow from it. The lemma under the second is about `Logged`: appending and
  capping keep the cursors consecutive.
- `RetentionStaysBounded`: one eviction makes room for one insertion, and no
  other step inserts. `LivePumpsStayBounded`: the map of pumps stays within the
  cap, and the unaborted iterations inject into it, because each is registered
  under its run.
- `ChatImplementsManager`: each step of the chat maps to a step of the manager or
  to a stutter; `ChatLeavesNoRunOpen` carries `NoRunLeftOpen` over.

Types and subscriptions of the chat (`ChatSystemProofs`): `SystemTypeOK` alone is
not inductive. A frame is taken for the run it names, so `TypeInv` adds that every
frame but a rejection names a run, and that a card on the screen, or put away,
does too; with the manager's `Inductive` this is `ChatInductive`, and
`ChatTypeCorrect` follows. `NoTailOutlivesItsRun` (`TailsAreOfOpenRuns`) needs that
the log of a live subscription is still retained (`TailsOfOpenLogs`), and that a
step appends to one log at most, with the terminal event last: the callbacks that
hear it take themselves away.

Exactly once (`ChatDeliveryProofs`): `TranscriptIsTheLog` (`EveryEventOnce`) rests on
`Delivery`, which follows the events of a run x from its log to the tab. The frames
of x in flight carry consecutive cursors a+1 .. b; the tab has everything up to a;
and while the tab's connection is subscribed to x, b is the end of the log
(`Delivered`). What breaks a connection empties the wire and the subscription
together, so a resume on its way names the anchor of the tab, and nothing of x has
come through its connection yet (`SoundResumes`). A tab adopts a run only at its
first event, since `run.started` is the first of a log and of no other place
(`KnownLogs`, `SoundFrames`).

Catching up (`ChatCatchUpProofs`): `Delivery` says what the frames in flight are
worth to a tab whose connection is subscribed. `CaughtUp` also needs that it is:
`Serving` says that the connection of a tab with an open run is subscribed to that
run, or the terminal event of the run is in flight, or a resume is on its way
(`FollowsWell`). It is inductive together with three more facts: a
log that is done and uncut holds a terminal event, so that a tab that resumes a
finished run is sent one (`EndedLogs`); a frame in flight carries the event the
log has at its cursor, so that a terminal event behind the anchor is one the tab
has heard (`TrueFrames`); and a `run.started` in flight is from a connection that
is subscribed, so that whoever adopts the run is served (`FirstIsServed`). TLC
agreed on `Serving` on the instances of `ChatOneRun` and `ChatTwoRuns` before it
was proved. A subscription also goes when a socket is over its cap and drops the
oldest (`chatRun.ts` 187), which may be that of the run the tab follows.
`NothingIsLostWithinTheCap` is therefore about behaviours in which each socket has
room for one subscription more at all times (`RoomForTails`), and `NothingIsLost`
about all behaviours when there are no more runs than the cap (128 in the code):
the subscriptions of a socket are to distinct runs (`DistinctTails`), since
subscribing anew drops the old one first, and those to other runs than one given
are fewer than the runs.

Cards (`ChatCatchUpProofs`, second part): `Carding`, on top of `Serving`, relates
the card of a tab to the log of its run. A gate is open after k events when it was
asked for and nothing was asked or answered since (`Pending`). Cards of the run on
the screen are of the gate that is open where the tab has come to, and if one is,
the tab has its card or the snapshot of it (`InStep`); that the last card wins needs
that gates open one at a time (`OneAtATime`), which `FollowsGatedRun` asks for. A
card is never ahead of what is still to come: it is of an event before each frame
in flight and not beyond the anchor of any resume on its way (`SeenCard`). The frame
that shows a gate again on `resume` carries no cursor, so nothing in the tab orders
it; the gate is still open when the frame is read because the replay lies before it
and no answer in between (`Reshown`). What is left is a tab without a card at an open
gate (`CardIsDue`): an answer is under way, or was taken, or its rejection is in
flight, or the gate will be shown, or something that closes it or ends the run is on
its way. An answer that is taken after the run has ended writes nothing to its log;
the tab then moves on with the terminal event. The condition on `LastCard` is needed:
`newChat` keeps the snapshot of an answered card (`useChatRun.ts` 173), and that card
hides the next run's. From `Carding`: `PausedRunShowsItsCardWithinTheCap`, with
`RoomForTails`, and `NoCardIsLost`, with no more runs than the cap.

Terminal namespace (`TerminalSessionsProofs`): `ShellInv` is inductive.
`EveryShellIsReachable` alone is not: that an exit or a close removes the right
entry needs that entries point at running shells (`EntriesAreLive`), that an
anonymous or tmux key belongs to the socket that made it (`KeysAreOwned`), and
that only a stable id can be started by another socket. `AttachedOrTimed` needs
that a socket that watches a shell has finished its start (`SinksHaveStarted`),
since a start that is under way is not bound yet, and that only running shells
have timers. `CapOverrunBounded` follows from a count: places taken and starts
under way together stay below the cap plus the largest number of starts that
ever overlapped (`PlacesAreCounted`). From it: `TerminalTypeCorrect`,
`NoOrphanShells`, `AttachedOrOnTheClock`, `OneStop`, `CapOverrun`.

Workspace store (`WorkspaceStoreProofs`): `StoreInv` says that the memory is the
last version (`MapIsLast`), the file is the version `kept` (`FileIsKept`), who
waits in the chain is queued once, at most one write is under way and it carries
the version of the moment it began, unanswered changes are covered by a write
that is still to come, and what a patch has read was a version once
(`SeenWasThere`). From it: `StoreTypeCorrect`; `NothingLeftUnwritten`;
`StoreIsDurable`, the refinement, in which a load is `Open`, a change of the map
`Change`, a rename `Save`, a reply `Answer`, a crash `Crash`, and the rest
stutters; and the action property `DeletedStaysDeleted`.

Kanban (`KanbanPageProofs`): the reference count equals the size of the room
because a room is finite and grows one socket at a time (`RoomsAreFinite`), only
open sockets watch (`OnlyOpenWatch`), and the poller in the map of a board is a
poller of that board (`PollersAreOfTheirBoard`), so that a disconnect counts down
the right ones, once for each board. From it: `KanbanTypeCorrect`,
`PollersAreCounted`, for the namespace with a page on it. `NoRefusedCardStays`
(`SettledBoardIsReal`) needs no more than the types: a move that settles, taken or
refused, leaves a read under way, only the answer of that read clears `failed`
and makes the view real, and a snapshot pushed while no move is in flight has no
move on top.

Conversations (`ConversationsProofs`): `ConvInv` has a part for the route and one
for the queue. `OneFlushPerRun` is not inductive: that a flush is paid for needs
that an armed tab with a queue, or one with a run in flight, has more runs behind
it than flushes (`Paid`), and that a run is counted once, since only a run that
has started is adopted (`QueueOf`). That a flush stays in its chat needs that the
messages in the queue were typed in the chat on screen, or in one without an id
(`TypedIn`). Each action is shown to hand a queue and messages that are `Ready`
to the effects, and the effects to keep the invariant from any such pair
(`EffectKeepsTheQueue`). `UrlNamesTheChat` needs that what was asked for is on
screen or under way (`ShownOrLoading`) and is what the URL names, but for the bare
route (`UrlIsConsumed`); `OnlyTheChoiceIsShown` that the guard of the loads is the
choice of the user (`ChoiceIsConsumed`). From it: `ConversationTypeCorrect`,
`OneFlush`, `UrlIsTheChat`, `FlushStays`, `OnlyChoice`.

Only model-checked: all liveness (`TabSettles`, `PumpedRunSettles`, `GateCloses`,
`ParkedShellEnds`, `EveryRequestAnswered`, `BoardConverges`, `PollerCatchesUp`,
`QueueDrains`), which is outside the prover's reach. Every safety property of the
runs that pass is a theorem, `CaughtUp` and `PausedRunShowsItsCard` for behaviours
within the cap on subscriptions.

## 5. Disagreements between code and comments

Four have a run whose counterexample is a trace of the real handlers.

1. *A chat that was left comes back* (`LeftRunStaysOut`): with `expectingOwnRun`
   set, the late `run.started` of the run that was left is adopted.
2. *Inbox entries that stay* (`InboxHoldsOpenGates`): `approval.cleared` is sent
   once, to open sockets only, and nothing is reconciled on reconnect.
3. *The second refused answer* (`GateSurvivesRejection`): the snapshot that
   brings the card back serves only once.
4. *A queued message moves to another conversation* (`QueuedMessageStays`): the
   queue lets go of it, `ensureModelActive` is awaited, and the run is issued for
   the conversation on screen by then.

Others were met while the models were written. The models contain them, and the
properties are stated around them:

- A log can go on after its terminal event: the catch block of the pump
  (`runManager.ts:401`) does not look at `isDone`, and the loop does not stop at
  a terminal frame.
- A `run.stopping` that arrives after the terminal frame of its run saves the
  finished run for the next page load (`chatSocket.ts:482`).
- New chat keeps the snapshot of the card that was answered last. When the gateway
  refuses that answer late, the card of the run that was left appears in the new
  chat, in place of the card of the run shown there (`useChatRun.ts:173`).
- A connection lost during `startRun` leaves the tab without the run id, and the
  reconnect resumes nothing (`chatRun.ts:251`, `chatSocket.ts:375`).
- Two sockets that start one stable id before either is registered both spawn;
  the second entry overwrites the first, whose shell nobody can reach, neither
  the cap nor the park timer. `CapOverrunBounded` is the exact bound for the cap,
  which concurrent starts pass together.
- `terminal.close` during a start that is under way is ignored: the socket is not
  bound yet, and the shell appears afterwards.
- In the kanban handler the check after `await socket.join` (lines 201-206) never
  applies: with the in-memory adapter nothing runs in between. Were it to,
  the disconnect handler would have released a reference that was never taken.
- The first read for a new subscriber seeds the cursor of the shared poller
  (lines 214-215). If the board has moved since the last poll, only the new
  subscriber is shown that, and the others wait for the next event, or for
  their own slow refetch, which is why `BoardConverges` holds.
- A PATCH that waits for its path check writes back the workspace it has read: a
  delete in between is undone, and the change of another PATCH is lost.
  `OnlyStalePatchRevives` says that nothing else revives a workspace.
- A workspace file that cannot be read counts as empty, and the next change
  overwrites it.
- After Stop the queue flushes its next message. `messageQueue.ts:85-92` says that
  `canFlush` must be false when "the last run ended in error/cancellation" (also
  102-104, 164-167, and the test at `messageQueue.test.ts:189`), but `ChatView.tsx:199`
  computes it from `error`, which `run.cancelled` does not set (`chatStore.ts:622`).
  The model flushes as the code does (`Cancelled`), and `QueueDrains` says nothing of
  the time after such a run.
- A queue that was begun in a chat without an id yet is not abandoned on moving to
  another one.
- `runManager.ts:407-409` says that the entry the finally block deletes "is always our
  own", and 340-342 that abort drops the entry so that a restart of the same run is not
  swallowed. With such a restart the aborted iteration would delete the entry of
  the new one. Run ids are fresh, so nothing restarts a run (`Start`).
- Showing the session on screen again, or a first session, resets the status
  without a change of conversation: if a flushed message is on its way then and is
  refused, the queue stays disarmed until the next run.
- Clear chat empties the conversation and keeps the URL; a refresh brings the old
  one back.

## 6. Not modelled

Of the chat: payload validation, attachments, conversation history, session
ids, wording, logging; the connection handshake (origin and token); several tabs
at once; heartbeats on the wire; editing, retrying and seeding of turns; SSE
parsing (`parseSse`), whose output the pump consumes frame by frame. Of the
terminal: output and its replay buffer, seeded commands, window sizes, shutdown,
and a start that names both a stable id and a tmux session. Of the boards: tasks,
comments, statistics. Of the conversations: branches, page loads, read-only
transcripts.

*Organization store.* Each mutation loads the file, changes it and saves it. Two
that overlap lose the change of the one that saves first, and a project deleted
while a session is assigned to it leaves an assignment that names it. Nothing in
the code is there to prevent this, so a model could only repeat the remark.

*Rate limiter.* One synchronous call over a list of time stamps, which the unit
tests take to its edges.

*The rest of the repository* is most of its lines: the rendering of the web
pages, and routes that translate one HTTP call into another, or into a
file or a command, and keep nothing between calls. There is no order of steps in
it that could go wrong, and a model would restate it. The modules cover the parts
of the program that keep state across awaits, sockets and restarts; measured in
lines that is a small share of the repository.

The hazards in `PROJECT.json` that no property covers say why.

## 7. Plan

1. Several tabs on one run, with the announcements of both.
2. The output path of the terminal: replay buffer, takeover, and what a client
   that reattaches has missed.

## 8. Running it

    tlc -config RunManagerSafety.cfg MCRunManager
    tlc -config ChatOneRun.cfg MCChatSystem
    tlc -config KanbanBoards.cfg KanbanPage
    tlc -config WorkspaceStore.cfg WorkspaceStore
    tlapm RunManagerProofs.tla

The longest run (`WorkspaceStore`) takes about three minutes on two cores, each
of the others two or less; the proofs of `ChatCatchUpProofs` take about seven minutes
from nothing, those of each other module less.
