-------------------------- MODULE TerminalSessions --------------------------
(***************************************************************************)
(* The terminal namespace (apps/server/src/terminal/terminalNamespace.ts): *)
(* shells that outlive the sockets they were opened on.                    *)
(*                                                                         *)
(* A socket opens one shell.  The start handler awaits the preset check,   *)
(* tmux and the spawn between its look at the map of sessions and its      *)
(* entry in it; everything else runs in one turn of the event loop.  With  *)
(* tmux the pty is a client of a session that lives in the tmux server.    *)
(* Without it a shell with a stable id is parked when its socket goes, and *)
(* reaped unless a socket with that id takes it over in time.              *)
(*                                                                         *)
(* A shell is named after the socket that spawned it (one per socket).     *)
(* Not modelled: what shells print, the replay buffer, the seeded command, *)
(* window sizes, and the shutdown of the server.                           *)
(***************************************************************************)
EXTENDS Naturals, FiniteSets

CONSTANTS Socket,       \* sockets, each used for one connection
          SessionId,    \* stable ids that clients supply
          Foreign,      \* tmux sessions that the user has made
          MaxSessions,  \* options.maxSessions
          None          \* no socket, no id, no name

ASSUME TerminalAssumption ==
  /\ MaxSessions \in Nat \ {0}
  /\ IsFiniteSet(Socket)
  /\ None \notin Socket
  /\ None \notin SessionId \cup Foreign

VARIABLES tmuxOn,     \* tmux is installed and not disabled
          tmux,       \* names of the live tmux sessions
          dying,      \* names with a kill-session under way
          conn,       \* conn[s]: "new", "open" or "gone"
          phase,      \* phase[s], the started flag: "idle", "starting", "started"
          wants,      \* wants[s]: what the start handler of s was asked for
          bound,      \* bound[s], boundId: a key or NoKey
          sessions,   \* the map from keys to shells
          shell,      \* shell[s]: the shell that socket s has spawned
          contested,  \* history: keys under which a live entry was overwritten
          peak        \* history: the most start handlers that waited at a time, or 1

vars == <<tmuxOn, tmux, dying, conn, phase, wants, bound, sessions, shell,
          contested, peak>>

-----------------------------------------------------------------------------
\* deckSessionName maps an id to a name of its own, so the id stands for it.
TmuxName == SessionId \cup Foreign

Request == {r \in [id : SessionId \cup {None}, attach : TmuxName \cup {None}] :
              r.id = None \/ r.attach = None}

NoRequest == [id |-> None, attach |-> None]

Key == [kind : {"id", "anon", "tmux"}, of : TmuxName \cup {None},
        socket : Socket \cup {None}]

NoKey == [kind |-> "none", of |-> None, socket |-> None]

IdKey(i) == [kind |-> "id", of |-> i, socket |-> None]

\* Faulty variant of KeyFor: all anonymous shells share one key.
KeyForShared(s, r) ==
  IF r.attach # None THEN [kind |-> "tmux", of |-> r.attach, socket |-> s]
  ELSE IF r.id = None THEN [kind |-> "anon", of |-> None, socket |-> None]
  ELSE IF tmuxOn THEN [kind |-> "tmux", of |-> r.id, socket |-> s]
  ELSE IdKey(r.id)

\* The key of the session that the start handler of s registers.
KeyFor(s, r) ==
  IF r.attach # None THEN [kind |-> "tmux", of |-> r.attach, socket |-> s]
  ELSE IF r.id = None THEN [kind |-> "anon", of |-> None, socket |-> s]
  ELSE IF tmuxOn THEN [kind |-> "tmux", of |-> r.id, socket |-> s]
  ELSE IdKey(r.id)

Shell == [state : {"none", "running", "closed"}, key : Key \cup {NoKey},
          sink : Socket \cup {None}, timer : BOOLEAN, checking : BOOLEAN,
          deck : BOOLEAN, stops : Nat]

NoShell == [state |-> "none", key |-> NoKey, sink |-> None, timer |-> FALSE,
            checking |-> FALSE, deck |-> FALSE, stops |-> 0]

Running(p) == shell[p].state = "running"

Waiting == {s \in Socket : phase[s] = "starting"}

-----------------------------------------------------------------------------
\* A session is over: closed once, its timer cleared, one stop in the audit.
Closed(h) == [h EXCEPT !.state = "closed", !.timer = FALSE, !.stops = @ + 1]

Without(k) == [j \in DOMAIN sessions \ {k} |-> sessions[j]]

\* disposeSession: looks the session up by its key.
Dispose(k) ==
  IF k \in DOMAIN sessions
  THEN /\ sessions' = Without(k)
       /\ shell' = [shell EXCEPT ![sessions[k]] = Closed(@)]
  ELSE UNCHANGED <<sessions, shell>>

Connect(s) ==
  /\ conn[s] = "new"
  /\ conn' = [conn EXCEPT ![s] = "open"]
  /\ UNCHANGED <<tmuxOn, tmux, dying, phase, wants, bound, sessions, shell,
                 contested, peak>>

\* Faulty variant of Reattach: the reap timer goes on.
ReattachKeepsTimer(s, i) ==
  /\ conn[s] = "open" /\ phase[s] = "idle"
  /\ IdKey(i) \in DOMAIN sessions
  /\ shell' = [shell EXCEPT ![sessions[IdKey(i)]].sink = s]
  /\ phase' = [phase EXCEPT ![s] = "started"]
  /\ bound' = [bound EXCEPT ![s] = IdKey(i)]
  /\ UNCHANGED <<tmuxOn, tmux, dying, conn, wants, sessions, contested, peak>>

\* terminal.start with the id of a session of the map: the newest socket takes
\* the output, and the reap timer is cleared.
Reattach(s, i) ==
  /\ conn[s] = "open" /\ phase[s] = "idle"
  /\ IdKey(i) \in DOMAIN sessions
  /\ shell' = [shell EXCEPT ![sessions[IdKey(i)]].sink = s,
                            ![sessions[IdKey(i)]].timer = FALSE]
  /\ phase' = [phase EXCEPT ![s] = "started"]
  /\ bound' = [bound EXCEPT ![s] = IdKey(i)]
  /\ UNCHANGED <<tmuxOn, tmux, dying, conn, wants, sessions, contested, peak>>

\* Faulty variant of BelowCap: one session too many is let in.
BelowCapOffByOne == Cardinality(DOMAIN sessions) <= MaxSessions

BelowCap == Cardinality(DOMAIN sessions) < MaxSessions

\* terminal.start otherwise: over the cap nothing happens, below it the handler
\* goes on to its awaits.
Begin(s, r) ==
  /\ conn[s] = "open" /\ phase[s] = "idle"
  /\ r.id = None \/ IdKey(r.id) \notin DOMAIN sessions
  /\ BelowCap
  /\ phase' = [phase EXCEPT ![s] = "starting"]
  /\ wants' = [wants EXCEPT ![s] = r]
  /\ LET now == Cardinality(Waiting) + 1
     IN  peak' = IF now > peak THEN now ELSE peak
  /\ UNCHANGED <<tmuxOn, tmux, dying, conn, bound, sessions, shell, contested>>

\* The preset is not installed, tmux or the session to attach to is missing, or
\* the spawn fails: the socket may start again.
StartFails(s) ==
  /\ phase[s] = "starting"
  /\ phase' = [phase EXCEPT ![s] = "idle"]
  /\ wants' = [wants EXCEPT ![s] = NoRequest]
  /\ UNCHANGED <<tmuxOn, tmux, dying, conn, bound, sessions, shell, contested,
                 peak>>

\* The pty is there.  An attach needs tmux and the session it names.
Spawns(s) ==
  /\ phase[s] = "starting"
  /\ wants[s].attach # None => wants[s].attach \in tmux
  /\ phase' = [phase EXCEPT ![s] = "started"]
  /\ wants' = [wants EXCEPT ![s] = NoRequest]
  /\ UNCHANGED <<tmuxOn, dying, conn, peak>>

\* Faulty variant of Created: an attach creates, too.
CreatedAlways(r) == IF tmuxOn THEN {r.id} ELSE {}

\* new-session -A makes the session that an id names.
Created(r) == IF tmuxOn /\ r.id # None THEN {r.id} ELSE {}

Registered(s) ==
  LET r == wants[s]
      k == KeyFor(s, r)
  IN  /\ tmux' = tmux \cup Created(r)
      /\ bound' = [bound EXCEPT ![s] = k]
      /\ sessions' = [j \in DOMAIN sessions \cup {k} |->
                        IF j = k THEN s ELSE sessions[j]]
      /\ shell' = [shell EXCEPT ![s] =
                     [NoShell EXCEPT !.state = "running", !.key = k, !.sink = s,
                                     !.deck = (r.attach = None)]]
      /\ contested' = IF k \in DOMAIN sessions THEN contested \cup {k}
                      ELSE contested

Spawned(s) == conn[s] = "open" /\ Spawns(s) /\ Registered(s)

\* The socket has gone meanwhile: the pty is killed at once.  A tmux client that
\* was about to create its session may have got that far.
SpawnedTooLate(s) ==
  /\ conn[s] = "gone" /\ Spawns(s)
  /\ tmux' \in {tmux, tmux \cup Created(wants[s])}
  /\ UNCHANGED <<bound, sessions, shell, contested>>

-----------------------------------------------------------------------------
\* The shell behind a plain pty ends.  The entry is deleted by its key, whoever
\* is registered under it by now.
ShellExits(p) ==
  /\ Running(p) /\ shell[p].key.kind # "tmux"
  /\ shell' = [shell EXCEPT ![p] = Closed(@)]
  /\ sessions' = Without(shell[p].key)
  /\ UNCHANGED <<tmuxOn, tmux, dying, conn, phase, wants, bound, contested, peak>>

IsClientOf(p, n) ==
  Running(p) /\ shell[p].key.kind = "tmux" /\ shell[p].key.of = n

\* A tmux session ends, by a kill or because its shell did: each client of it
\* exits and asks tmux whether the session is still there.
TmuxEnds(n) ==
  /\ n \in tmux
  /\ tmux' = tmux \ {n}
  /\ dying' = dying \ {n}
  /\ shell' = [p \in Socket |-> IF IsClientOf(p, n)
                                THEN [shell[p] EXCEPT !.checking = TRUE]
                                ELSE shell[p]]
  /\ UNCHANGED <<tmuxOn, conn, phase, wants, bound, sessions, contested, peak>>

\* The kill-session finds no such session.
KillFails(n) ==
  /\ n \in dying \ tmux
  /\ dying' = dying \ {n}
  /\ UNCHANGED <<tmuxOn, tmux, conn, phase, wants, bound, sessions, shell,
                 contested, peak>>

\* The user detaches a client inside tmux.
ClientDetaches(p) ==
  /\ Running(p) /\ shell[p].key.kind = "tmux" /\ ~shell[p].checking
  /\ shell' = [shell EXCEPT ![p].checking = TRUE]
  /\ UNCHANGED <<tmuxOn, tmux, dying, conn, phase, wants, bound, sessions,
                 contested, peak>>

\* Faulty variant of ExitChecked: closed is not looked at again.
ExitCheckedBlindly(p) ==
  /\ shell[p].checking
  /\ shell' = [shell EXCEPT ![p] = [Closed(@) EXCEPT !.checking = FALSE]]
  /\ sessions' = Without(shell[p].key)
  /\ UNCHANGED <<tmuxOn, tmux, dying, conn, phase, wants, bound, contested, peak>>

\* tmux has answered.  A session that was closed meanwhile is left alone.
ExitChecked(p) ==
  /\ shell[p].checking
  /\ IF Running(p)
     THEN /\ shell' = [shell EXCEPT ![p] = [Closed(@) EXCEPT !.checking = FALSE]]
          /\ sessions' = Without(shell[p].key)
     ELSE /\ shell' = [shell EXCEPT ![p].checking = FALSE]
          /\ UNCHANGED sessions
  /\ UNCHANGED <<tmuxOn, tmux, dying, conn, phase, wants, bound, contested, peak>>

-----------------------------------------------------------------------------
\* s is the live sink of the session it is bound to.
IsSink(s) ==
  /\ bound[s] \in DOMAIN sessions
  /\ shell[sessions[bound[s]]].sink = s

\* terminal.close: ends the session, and the tmux session if the deck owns it.
Close(s) ==
  /\ conn[s] = "open" /\ IsSink(s)
  /\ LET h == shell[sessions[bound[s]]]
     IN  dying' = IF h.key.kind = "tmux" /\ h.deck THEN dying \cup {h.key.of}
                  ELSE dying
  /\ Dispose(bound[s])
  /\ UNCHANGED <<tmuxOn, tmux, conn, phase, wants, bound, contested, peak>>

\* Faulty variant of Disconnect: the parked shell has no reap timer.
DisconnectWithoutTimer(s) ==
  /\ conn[s] = "open"
  /\ conn' = [conn EXCEPT ![s] = "gone"]
  /\ IF ~IsSink(s) THEN UNCHANGED <<sessions, shell>>
     ELSE IF bound[s].kind # "id" THEN Dispose(bound[s])
     ELSE /\ shell' = [shell EXCEPT ![sessions[bound[s]]].sink = None]
          /\ UNCHANGED sessions
  /\ UNCHANGED <<tmuxOn, tmux, dying, phase, wants, bound, contested, peak>>

\* The connection is gone.  Only the live sink acts: it parks a shell that has a
\* stable id, and disposes of any other.
Disconnect(s) ==
  /\ conn[s] = "open"
  /\ conn' = [conn EXCEPT ![s] = "gone"]
  /\ IF ~IsSink(s) THEN UNCHANGED <<sessions, shell>>
     ELSE IF bound[s].kind # "id" THEN Dispose(bound[s])
     ELSE /\ shell' = [shell EXCEPT ![sessions[bound[s]]].sink = None,
                                    ![sessions[bound[s]]].timer = TRUE]
          /\ UNCHANGED sessions
  /\ UNCHANGED <<tmuxOn, tmux, dying, phase, wants, bound, contested, peak>>

\* The reap timer of p fires; it disposes by key.
ParkTimer(p) ==
  /\ shell[p].timer
  /\ LET k == shell[p].key
         cleared == [shell EXCEPT ![p].timer = FALSE]
     IN  IF k \in DOMAIN sessions
         THEN /\ sessions' = Without(k)
              /\ shell' = [cleared EXCEPT ![sessions[k]] = Closed(@)]
         ELSE /\ shell' = cleared
              /\ UNCHANGED sessions
  /\ UNCHANGED <<tmuxOn, tmux, dying, conn, phase, wants, bound, contested, peak>>

-----------------------------------------------------------------------------
Init ==
  /\ tmuxOn \in BOOLEAN
  /\ tmux \in IF tmuxOn THEN SUBSET TmuxName ELSE {{}}
  /\ dying = {}
  /\ conn = [s \in Socket |-> "new"]
  /\ phase = [s \in Socket |-> "idle"]
  /\ wants = [s \in Socket |-> NoRequest]
  /\ bound = [s \in Socket |-> NoKey]
  /\ sessions = [k \in {} |-> None]
  /\ shell = [s \in Socket |-> NoShell]
  /\ contested = {}
  /\ peak = 1

Next ==
  \/ \E s \in Socket :
       \/ Connect(s)
       \/ \E i \in SessionId : Reattach(s, i)
       \/ \E r \in Request : Begin(s, r)
       \/ StartFails(s) \/ Spawned(s) \/ SpawnedTooLate(s)
       \/ Close(s) \/ Disconnect(s)
       \/ ShellExits(s) \/ ClientDetaches(s) \/ ExitChecked(s) \/ ParkTimer(s)
  \/ \E n \in TmuxName : TmuxEnds(n) \/ KillFails(n)

Spec == Init /\ [][Next]_vars

\* Only timers are owed: a user need not come back, and no command need answer.
FairSpec == Spec /\ \A p \in Socket : WF_vars(ParkTimer(p))

-----------------------------------------------------------------------------
TerminalTypeOK ==
  /\ tmuxOn \in BOOLEAN
  /\ tmux \subseteq TmuxName
  /\ dying \subseteq TmuxName
  /\ conn \in [Socket -> {"new", "open", "gone"}]
  /\ phase \in [Socket -> {"idle", "starting", "started"}]
  /\ wants \in [Socket -> Request]
  /\ bound \in [Socket -> Key \cup {NoKey}]
  /\ DOMAIN sessions \subseteq Key
  /\ sessions \in [DOMAIN sessions -> Socket]
  /\ shell \in [Socket -> Shell]
  /\ contested \subseteq Key
  /\ peak \in Nat \ {0}

\* Two starts of this key have met: the second entry has overwritten the first.
Contested(p) == shell[p].key.kind = "id" /\ shell[p].key \in contested

(* No orphan shells (terminalNamespace.ts 49-53, 484-492, 556, 598, 615): a   *)
(* running pty is in the map under its own key, where input, close,           *)
(* disconnect, the reap timer and the cap find it.  Only an id that two       *)
(* sockets started before either was registered loses one.                    *)
EveryShellIsReachable ==
  \A p \in Socket :
    Running(p) =>
      \/ Contested(p)
      \/ shell[p].key \in DOMAIN sessions /\ sessions[shell[p].key] = p

(* Attached or on the clock (terminalNamespace.ts 379-396, 709-731): through  *)
(* takeovers, reconnects and parking, a shell has either an open socket that  *)
(* is bound to it, and no timer, or no socket and a reap timer that runs.     *)
AttachedOrTimed ==
  \A p \in Socket :
    Running(p) /\ ~Contested(p) =>
      LET h == shell[p]
      IN  \/ h.sink # None /\ conn[h.sink] = "open" /\ bound[h.sink] = h.key
             /\ ~h.timer
          \/ h.sink = None /\ h.timer

(* The cap (terminalNamespace.ts 398-406): it is looked at before the awaits  *)
(* and charged after them, so that it holds exactly while starts come one at  *)
(* a time, and is overrun by no more than the starts that waited together.    *)
CapOverrunBounded ==
  Cardinality(DOMAIN sessions) < MaxSessions + peak

(* One stop per start (terminalNamespace.ts 543-552, 581-600): however exits, *)
(* tmux checks, closes, disconnects and the timer meet, a session that was    *)
(* started is reported as stopped exactly once.                               *)
OneStopPerStart ==
  \A p \in Socket : shell[p].stops = IF shell[p].state = "closed" THEN 1 ELSE 0

Parked(p) == Running(p) /\ shell[p].sink = None

(* Parked shells do not pile up (terminalNamespace.ts 724-731): one that      *)
(* nobody resumes is reaped.                                                  *)
ParkedShellEnds == \A p \in Socket : Parked(p) ~> ~Parked(p) \/ Contested(p)
=============================================================================
