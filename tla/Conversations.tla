--------------------------- MODULE Conversations ---------------------------
(***************************************************************************)
(* Which conversation is on screen, and where a message goes: the chat     *)
(* route (App.tsx), the hook that issues runs (useChatRun.ts), the send of *)
(* ChatRoute.tsx, and the queue of the composer (messageQueue.ts).         *)
(*                                                                         *)
(* A tab shows one conversation at a time.  Picking another one changes    *)
(* the URL at once and the conversation when its transcript has loaded.  A *)
(* message that is sent while a run is in flight waits in the queue, which *)
(* gives up its head when the run is over.  A send first waits until the   *)
(* chosen model is active, which may take a request and a dialog.          *)
(*                                                                         *)
(* The effects of React that an event brings about run before the next     *)
(* event and belong to its action: see Effects.  A session that a run has  *)
(* begun is named after the message.  What streams in is left out (see     *)
(* ChatSystem), and so are branches, edited turns and page loads.          *)
(***************************************************************************)
EXTENDS Naturals, FiniteSets, SequencesExt

CONSTANTS Saved,    \* sessions of the history
          Message,  \* texts that the user submits, each once
          MaxMoves, \* bound: how often the user goes to another conversation
          None      \* no session, no run

ASSUME ConversationAssumption ==
  /\ MaxMoves \in Nat
  /\ IsFiniteSet(Message)
  /\ None \notin Saved \cup Message
  /\ Saved \cap Message = {}

VARIABLES url,        \* chatRouteId: the session that the URL names, or None
          consumed,   \* consumedRef: the session whose transcript was asked for
          loads,      \* loads[s]: requests for the transcript of s under way
          active,     \* activeSessionId
          empty,      \* the transcript has no turns
          status,     \* runStatus, where "running" stands for "stopping", too
          error,      \* the last run has failed, or was refused
          disabled,   \* the composer is disabled: no connection, or blocked
          following,  \* the run whose frames the socket lets through, or None
          expecting,  \* expectingOwnRun
          msg,        \* the messages
          queue,      \* the queue of the composer
          armed,      \* armedRef
          conv,       \* convRef: the conversation the queue belongs to
          moves,      \* bound: moves of the user so far
          choice,     \* history: the session that was picked or begun last, or None
          astray,     \* history: since a session was shown, the chat was cleared in
                      \* place, or a run has put another session in its place
          reshown,    \* history: a session was shown that does not part with the
                      \* queue, while that waited for a flushed message to run
          cancelled   \* history: the run that the tab showed last was cancelled while
                      \* messages waited for it

routeVars == <<url, consumed, loads, choice>>
chatVars == <<active, empty, status, error, disabled, following, expecting>>
queueVars == <<msg, queue, armed, conv>>
boundVars == <<moves, astray, reshown, cancelled>>

vars == <<routeVars, chatVars, queueVars, boundVars>>

-----------------------------------------------------------------------------
Session == Saved \cup Message

\* typed: the session in which the text was submitted, until its run has started;
\* session: the one for which its run was issued; adopted: the tab has shown it.
NewMessage == [phase |-> "new", queued |-> FALSE, typed |-> None,
               session |-> None, adopted |-> FALSE]

MessageState ==
  [phase : {"new", "queued", "dropped", "held", "sent", "live", "over"},
   queued : BOOLEAN, typed : Session \cup {None}, session : Session \cup {None},
   adopted : BOOLEAN]

In(m, p) == msg[m].phase = p

\* Nobody asks any more where the text was typed.
Past(x, p) == [x EXCEPT !.phase = p, !.typed = None]

CanFlush == ~disabled /\ ~error

-----------------------------------------------------------------------------
(* The effects: q and ms are the queue and the messages after the event.      *)

Dropped(q, ms) ==
  [m \in Message |-> IF ms[m].phase = "queued" THEN Past(ms[m], "dropped")
                     ELSE ms[m]]

\* Faulty variant of LeavesChat: the queue stays when the user moves on.
NeverLeavesChat == FALSE

\* The queue is left behind: an established conversation is no longer the active
\* one, or the composer was mounted anew (the empty chat has one of its own).
LeavesChat == (conv # None /\ conv # active') \/ empty' # empty

\* Faulty variant of Flushed: the queue stays armed.
FlushedArmed(q, ms) ==
  /\ queue' = Tail(q)
  /\ msg' = [ms EXCEPT ![Head(q)].phase = "held"]
  /\ armed' = TRUE

\* The head is sent, and no other one before a run was in flight.
Flushed(q, ms) ==
  /\ queue' = Tail(q)
  /\ msg' = [ms EXCEPT ![Head(q)].phase = "held"]
  /\ armed' = FALSE

\* Faulty variant of QueueEffect: a run does not arm the queue again.
QueueEffectArmsOnce(q, ms) ==
  /\ conv' = active'
  /\ IF LeavesChat
     THEN queue' = << >> /\ msg' = Dropped(q, ms) /\ armed' = TRUE
     ELSE IF status' # "running" /\ CanFlush' /\ armed /\ q # << >>
     THEN Flushed(q, ms)
     ELSE queue' = q /\ msg' = ms /\ armed' = armed

QueueEffect(q, ms) ==
  /\ conv' = active'
  /\ IF LeavesChat
     THEN queue' = << >> /\ msg' = Dropped(q, ms) /\ armed' = TRUE
     ELSE IF status' = "running"
     THEN queue' = q /\ msg' = ms /\ armed' = TRUE
     ELSE IF CanFlush' /\ armed /\ q # << >>
     THEN Flushed(q, ms)
     ELSE queue' = q /\ msg' = ms /\ armed' = armed

\* The URL takes over the active session when it names none itself.
UrlEffect(u, c, h) ==
  IF u = None /\ active' # None
  THEN url' = active' /\ consumed' = active' /\ choice' = active'
  ELSE url' = u /\ consumed' = c /\ choice' = h

Effects(q, ms) == QueueEffect(q, ms) /\ UrlEffect(url, consumed, choice)

-----------------------------------------------------------------------------
\* Enter: queued while a run is in flight, and sent at once otherwise.
Submit(m) ==
  /\ In(m, "new") /\ ~disabled
  /\ UNCHANGED chatVars
  /\ LET t == [NewMessage EXCEPT !.typed = active]
     IN  IF status = "running"
         THEN Effects(Append(queue, m),
                [msg EXCEPT ![m] = [t EXCEPT !.phase = "queued", !.queued = TRUE]])
         ELSE Effects(queue, [msg EXCEPT ![m] = [t EXCEPT !.phase = "held"]])
  /\ UNCHANGED <<loads, boundVars>>

\* Faulty variant of Cancel: the head is taken out, whichever was meant.
CancelHead(m) ==
  /\ In(m, "queued")
  /\ UNCHANGED chatVars
  /\ Effects(Tail(queue), [msg EXCEPT ![m] = Past(@, "dropped")])
  /\ UNCHANGED <<loads, boundVars>>

\* The cross of a queued message.
Cancel(m) ==
  /\ UNCHANGED chatVars
  /\ \E i \in DOMAIN queue :
       /\ queue[i] = m
       /\ Effects(RemoveAt(queue, i), [msg EXCEPT ![m] = Past(@, "dropped")])
  /\ UNCHANGED <<loads, boundVars>>

\* The model is active: the run is issued in the conversation of this moment.
Issue(m) ==
  /\ In(m, "held")
  /\ empty' = FALSE
  /\ following' = None
  /\ expecting' = TRUE
  /\ UNCHANGED <<active, status, error, disabled>>
  /\ Effects(queue, [msg EXCEPT ![m].phase = "sent", ![m].session = active])
  /\ UNCHANGED <<loads, boundVars>>

\* command.error: it names no run.
Refused(m) ==
  /\ In(m, "sent")
  /\ error' = TRUE
  /\ status' = "idle"
  /\ UNCHANGED <<active, empty, disabled, following, expecting>>
  /\ Effects(queue, [msg EXCEPT ![m] = Past(@, "over")])
  /\ UNCHANGED <<loads, boundVars>>

\* run.started: a run that was issued without a session may have begun one, of
\* which the frame need not know yet.
Started(m) ==
  /\ In(m, "sent")
  /\ IF expecting
     THEN /\ following' = m
          /\ expecting' = FALSE
          /\ status' = "running"
          /\ error' = FALSE
          /\ active' \in IF msg[m].session # None THEN {msg[m].session} ELSE {active, m}
          /\ astray' = (astray \/ (active # None /\ active' # active))
          /\ cancelled' = FALSE
          /\ UNCHANGED <<empty, disabled>>
     ELSE UNCHANGED <<chatVars, astray, cancelled>>
  /\ Effects(queue, [msg EXCEPT ![m] = [Past(@, "live") EXCEPT !.adopted = expecting]])
  /\ UNCHANGED <<loads, moves, reshown>>

\* A run is over, also one that is not followed; e is the error it leaves behind,
\* and c whether it was cancelled with messages waiting.
EndsWith(m, e, c) ==
  /\ In(m, "live")
  /\ IF following = m
     THEN /\ status' = "idle"
          /\ error' = e
          /\ cancelled' = c
          /\ UNCHANGED <<active, empty, disabled, following, expecting>>
     ELSE UNCHANGED <<chatVars, cancelled>>
  /\ Effects(queue, [msg EXCEPT ![m] = Past(@, "over")])
  /\ UNCHANGED <<loads, moves, astray, reshown>>

\* run.completed, run.failed, run.cancelled: only a failure sets the error.
Completed(m) == EndsWith(m, error, FALSE)

Failed(m) == EndsWith(m, TRUE, FALSE)

Cancelled(m) == EndsWith(m, error, queue # << >>)

Ends(m) == Completed(m) \/ Failed(m) \/ Cancelled(m)

\* The connection goes down or comes back, the agent is blocked or not.
Toggle ==
  /\ disabled' = ~disabled
  /\ UNCHANGED <<active, empty, status, error, following, expecting>>
  /\ Effects(queue, msg)
  /\ UNCHANGED <<loads, boundVars>>

-----------------------------------------------------------------------------
\* newChat and continueSession: the run is no longer followed, and the store
\* begins anew.
Show(s, e) ==
  /\ active' = s
  /\ empty' = e
  /\ following' = None
  /\ expecting' = FALSE
  /\ status' = "idle"
  /\ error' = FALSE
  /\ reshown' = (reshown \/ (active \in {None, s} /\ ~armed))
  /\ cancelled' = FALSE
  /\ UNCHANGED disabled

Moved == moves < MaxMoves /\ moves' = moves + 1

\* Faulty variant of NewChat: the guard of the loads is not reset.
NewChatKeepsGuard ==
  /\ Moved
  /\ Show(None, TRUE)
  /\ QueueEffect(queue, msg)
  /\ UrlEffect(None, consumed, None)
  /\ astray' = FALSE
  /\ UNCHANGED loads

NewChat ==
  /\ Moved
  /\ Show(None, TRUE)
  /\ QueueEffect(queue, msg)
  /\ UrlEffect(None, None, None)
  /\ astray' = FALSE
  /\ UNCHANGED loads

\* Clear chat: the URL stays.
ClearChat ==
  /\ Moved
  /\ Show(None, TRUE)
  /\ Effects(queue, msg)
  /\ astray' = TRUE
  /\ UNCHANGED loads

\* A session is picked: its transcript is asked for unless it was already.
Pick(s) ==
  /\ Moved
  /\ s \in Saved \cup {m \in Message : msg[m].phase \in {"live", "over"} /\ msg[m].session = None}
  /\ s # url
  /\ url' = s
  /\ consumed' = s
  /\ loads' = IF consumed = s THEN loads ELSE [loads EXCEPT ![s] = @ + 1]
  /\ choice' = s
  /\ UNCHANGED <<chatVars, queueVars, astray, reshown, cancelled>>

\* The browser goes back to the bare chat route, without New chat: the session on
\* screen is chosen again; with none there, the last choice stands.
GoBack ==
  /\ url # None
  /\ UNCHANGED chatVars
  /\ QueueEffect(queue, msg)
  /\ UrlEffect(None, consumed, choice)
  /\ UNCHANGED <<loads, boundVars>>

\* Faulty variant of StillWanted: whatever has loaded is shown.
AlwaysWanted(s) == TRUE

StillWanted(s) == consumed = s

\* A transcript arrives, or cannot be loaded and counts as empty.
Loaded(s) ==
  /\ loads[s] > 0
  /\ loads' = [loads EXCEPT ![s] = @ - 1]
  /\ IF StillWanted(s)
     THEN /\ \E e \in BOOLEAN : Show(s, e)
          /\ astray' = FALSE
     ELSE UNCHANGED <<chatVars, astray, reshown, cancelled>>
  /\ Effects(queue, msg)
  /\ UNCHANGED moves

-----------------------------------------------------------------------------
Init ==
  /\ url = None /\ consumed = None
  /\ loads = [s \in Session |-> 0]
  /\ active = None /\ empty = TRUE
  /\ status = "idle" /\ error = FALSE /\ disabled = FALSE
  /\ following = None /\ expecting = FALSE
  /\ msg = [m \in Message |-> NewMessage]
  /\ queue = << >> /\ armed = TRUE /\ conv = None
  /\ moves = 0 /\ choice = None /\ astray = FALSE
  /\ reshown = FALSE /\ cancelled = FALSE

Next ==
  \/ \E m \in Message :
       Submit(m) \/ Cancel(m) \/ Issue(m) \/ Refused(m) \/ Started(m) \/ Ends(m)
  \/ \E s \in Session : Pick(s) \/ Loaded(s)
  \/ Toggle \/ NewChat \/ ClearChat \/ GoBack

Spec == Init /\ [][Next]_vars

\* Models become active, runs start or are refused, and end.
FairSpec ==
  /\ Spec
  /\ \A m \in Message :
       WF_vars(Issue(m)) /\ WF_vars(Refused(m) \/ Started(m)) /\ WF_vars(Ends(m))
  /\ \A s \in Session : WF_vars(Loaded(s))

-----------------------------------------------------------------------------
ConversationTypeOK ==
  /\ url \in Session \cup {None}
  /\ consumed \in Session \cup {None}
  /\ loads \in [Session -> 0 .. MaxMoves]
  /\ active \in Session \cup {None}
  /\ {empty, error, disabled, expecting, armed, astray, reshown, cancelled}
       \subseteq BOOLEAN
  /\ status \in {"idle", "running"}
  /\ following \in Message \cup {None}
  /\ msg \in [Message -> MessageState]
  /\ queue \in Seq(Message)
  /\ \A m \in Message :
       In(m, "queued") <=> \E i \in DOMAIN queue : queue[i] = m
  /\ conv \in Session \cup {None}
  /\ moves \in 0 .. MaxMoves
  /\ choice \in Session \cup {None}

(* What is loaded is what was asked for last (App.tsx 285-330, 192-200): a    *)
(* slow transcript never replaces a new chat, or a session that was picked    *)
(* after it.                                                                  *)
OnlyTheChoiceIsShown ==
  [][\A s \in Session :
       loads'[s] < loads[s] /\ chatVars' # chatVars => s = choice]_vars

(* The URL names the conversation (App.tsx 336-348): at rest a refresh brings *)
(* back what is on screen, except after Clear chat, and after a late           *)
(* run.started that names another session (see LeftRunStaysOut).               *)
UrlNamesTheChat ==
  (\A s \in Session : loads[s] = 0) /\ ~astray => active = url

(* The queue stays behind (messageQueue.ts 105-112, 149-158): a message that  *)
(* was queued in a conversation with an id leaves the queue in that one only. *)
FlushStaysInTheChat ==
  [][\A m \in Message :
       In(m, "queued") /\ msg'[m].phase = "held" /\ msg[m].typed # None
         => active' = msg[m].typed]_vars

Flushes == {m \in Message : msg[m].queued /\ ~In(m, "queued") /\ ~In(m, "dropped")}

AdoptedRuns == {m \in Message : msg[m].adopted}

(* One at a time (messageQueue.ts 124-128, 172-181): the queue never gives up *)
(* more messages than runs have been in flight, though the status stays idle  *)
(* between a flush and its run, and may be reset by the other ways to move.   *)
OneFlushPerRun == Cardinality(Flushes) <= Cardinality(AdoptedRuns)

(* The queue drains (messageQueue.ts 76-92, 172-186): unless the composer is  *)
(* disabled or the last run has failed, every queued message is sent in turn. *)
(* The exceptions: whether a cancelled run holds the queue back, which        *)
(* messageQueue.ts 85-92 and 164-167 say and ChatView.tsx 199 does not do, is *)
(* left open until another run starts; and when the session on screen, or the *)
(* first one, is shown while a flushed message is on its way, the tab is idle *)
(* without arming the queue again.                                            *)
QueueDrains ==
  <>[](CanFlush /\ ~reshown /\ ~cancelled) => <>[](queue = << >>)

(* messageQueue.ts 106-108: "the queue is abandoned, so a message queued in   *)
(* one conversation can never flush into another".                            *)
QueuedMessageStays ==
  \A m \in Message :
    msg[m].queued /\ In(m, "sent") =>
      msg[m].typed = None \/ msg[m].session = msg[m].typed
=============================================================================
