----------------------------- MODULE ChatSocket -----------------------------
(***************************************************************************)
(* One browser tab: the socket client of apps/web/src/lib/chatSocket.ts    *)
(* with the state it drives, the chat store (state/chatStore.ts), the      *)
(* approval inbox (state/useApprovalInbox.ts) and the callbacks that join  *)
(* them (state/useChatRun.ts).                                             *)
(*                                                                         *)
(* Every handler is a function from the tab's state to the tab's state.    *)
(* Of the transcript the model keeps which logged events were applied to   *)
(* it since the last prompt or page load.  The store's de-duplication by   *)
(* cursor repeats the socket's, on the same cursors, and is left out.      *)
(***************************************************************************)
EXTENDS ChatEvents, Integers, Sequences

None == "none"

NoCard == [run |-> None, gate |-> 0]

\* A tab that has just been opened.
NewTab ==
  [run       |-> None,    \* activeRunId
   done      |-> FALSE,   \* activeRunDone
   cursor    |-> 0,       \* the resume anchor
   expecting |-> FALSE,   \* expectingOwnRun
   saved     |-> None,    \* the run persisted in sessionStorage
   shown     |-> None,    \* runId of the chat store
   status    |-> "idle",  \* runStatus
   working   |-> FALSE,   \* a streaming assistant turn is open
   card      |-> NoCard,  \* pendingApproval
   cleared   |-> NoCard,  \* lastClearedApprovalRef
   inbox     |-> {},      \* the runs in the approval inbox
   applied   |-> << >>]   \* the logged events of which the transcript is made

-----------------------------------------------------------------------------
(***************************************************************************)
(* What the user does.                                                     *)
(***************************************************************************)

\* run(): the prompt is sent; which run it becomes is not known yet.
Issued(t) ==
  [t EXCEPT !.run = None, !.done = FALSE, !.cursor = 0, !.expecting = TRUE,
            !.saved = None, !.working = TRUE, !.applied = << >>]

\* newChat(): detach() and reset().
Detached(t) ==
  [t EXCEPT !.run = None, !.done = FALSE, !.cursor = 0, !.expecting = FALSE,
            !.saved = None, !.shown = None, !.status = "idle", !.working = FALSE,
            !.card = NoCard, !.applied = << >>]

\* respondApproval(): the card is put away before the gateway has answered.
Responded(t) == [t EXCEPT !.cleared = t.card, !.card = NoCard]

\* Faulty variant of Reloaded: the new page resumes where the dead one was.
ReloadedFromLastCursor(t) ==
  [NewTab EXCEPT !.run = t.saved, !.saved = t.saved,
                 !.cursor = IF t.saved = None THEN 0 ELSE t.cursor]

\* A page load: only sessionStorage survives, and a run found there is adopted.
Reloaded(t) == [NewTab EXCEPT !.run = t.saved, !.saved = t.saved]

-----------------------------------------------------------------------------
(***************************************************************************)
(* Frames.                                                                 *)
(***************************************************************************)

\* applyEvent, for a frame the socket has let through.
Shown(t, f) ==
  IF f.event = "run.started"
  THEN [t EXCEPT !.shown = f.run, !.status = "running", !.card = NoCard]
  ELSE IF t.shown \notin {None, f.run} THEN t
  ELSE CASE f.event = "message.delta"      -> [t EXCEPT !.working = TRUE]
         [] f.event = "approval.request"   -> [t EXCEPT !.card = [run |-> f.run, gate |-> f.gate]]
         [] f.event = "approval.responded" -> [t EXCEPT !.card = NoCard]
         [] f.event = "run.stopping"       ->
              [t EXCEPT !.status = IF @ = "idle" THEN @ ELSE "stopping"]
         [] f.event \in TerminalEvents     ->
              [t EXCEPT !.status = "idle", !.working = FALSE, !.card = NoCard]

\* The anchor moves, the run is persisted or forgotten, the store sees the frame.
Applied(t, f) ==
  LET over == f.event \in TerminalEvents
      kept == [t EXCEPT !.cursor  = IF f.cursor = 0 THEN @ ELSE f.cursor,
                        !.applied = IF f.cursor = 0 THEN @ ELSE Append(@, <<f.run, f.cursor>>),
                        !.done    = @ \/ over,
                        !.saved   = IF over THEN None ELSE t.run,
                        !.cleared = IF f.event = "approval.responded" THEN NoCard ELSE @]
  IN  Shown(kept, f)

\* A cursor that was already passed marks a frame as seen.
Fresh(t, f) == f.cursor = 0 \/ f.cursor > t.cursor

\* Faulty variant of RunFrame: a frame of any run is taken for the tab's own.
RunFrameOfAnyRun(t, f) ==
  IF f.event = "run.started"
  THEN IF ~t.expecting /\ f.run # t.run THEN t
       ELSE LET own == [t EXCEPT !.run = f.run, !.done = FALSE, !.expecting = FALSE]
            IN  IF Fresh(own, f) THEN Applied(own, f) ELSE own
  ELSE IF Fresh(t, f) THEN Applied(t, f) ELSE t

\* handleFrame: only the frames of the tab's own run are let through.
RunFrame(t, f) ==
  IF f.event = "run.started"
  THEN IF ~t.expecting /\ f.run # t.run THEN t
       ELSE LET own == [t EXCEPT !.run = f.run, !.done = FALSE, !.expecting = FALSE]
            IN  IF Fresh(own, f) THEN Applied(own, f) ELSE own
  ELSE IF f.run = t.run /\ Fresh(t, f) THEN Applied(t, f) ELSE t

\* onCommandError: a rejected response brings its card back; any other rejection
\* takes the tab to idle.
Failed(t, e) ==
  IF e = "respond rejected" /\ t.cleared # NoCard
  THEN [t EXCEPT !.card = t.cleared, !.cleared = NoCard]
  ELSE [t EXCEPT !.status = "idle", !.working = FALSE, !.card = NoCard]

\* One frame arrives.
Received(t, f) ==
  CASE f.event = "approval.pending" ->
         IF f.run = t.run THEN t ELSE [t EXCEPT !.inbox = @ \cup {f.run}]
    [] f.event = "approval.cleared" -> [t EXCEPT !.inbox = @ \ {f.run}]
    [] f.event \in {"run rejected", "resume rejected", "abort rejected", "respond rejected"} ->
         Failed(t, f.event)
    [] OTHER -> RunFrame(t, f)
=============================================================================
