----------------------- MODULE TerminalSessionsProofs -----------------------
(***************************************************************************)
(* The terminal namespace for any number of sockets, ids and places: no    *)
(* shell is lost, a shell is attached or on the clock, it is stopped once, *)
(* and the cap is overrun by no more than the starts that waited together. *)
(*                                                                         *)
(* The map and the shells are kept in step by keys: an entry leads to a    *)
(* running shell of that key, and only the key of a stable id can belong   *)
(* to two shells, which is what contested records.                         *)
(***************************************************************************)
EXTENDS TerminalSessions, FiniteSetTheorems, TLAPS

\* An entry of the map leads to a running shell that is registered under it.
EntriesAreLive ==
  \A k \in DOMAIN sessions :
    shell[sessions[k]].state = "running" /\ shell[sessions[k]].key = k

\* A shell belongs to a start that is over; but for a stable id its key is its own.
KeysAreOwned ==
  \A p \in Socket :
    shell[p].state # "none" =>
      /\ phase[p] = "started"
      /\ shell[p].key \in Key
      /\ shell[p].key.kind # "id" => shell[p].key.socket = p
      /\ shell[p].key.kind = "tmux" => shell[p].key.of \in TmuxName

SinksHaveStarted ==
  \A p \in Socket : shell[p].sink # None => phase[shell[p].sink] = "started"

TimersAreOfRunning == \A p \in Socket : shell[p].timer => Running(p)

\* Whoever waits has been counted: together with them the cap is overrun by less
\* than the most that ever waited.
PlacesAreCounted ==
  /\ IsFiniteSet(DOMAIN sessions)
  /\ Cardinality(DOMAIN sessions) + Cardinality(Waiting) <= MaxSessions - 1 + peak

ShellInv ==
  /\ TerminalTypeOK
  /\ EntriesAreLive /\ KeysAreOwned /\ SinksHaveStarted /\ TimersAreOfRunning
  /\ EveryShellIsReachable /\ AttachedOrTimed /\ OneStopPerStart
  /\ PlacesAreCounted

-----------------------------------------------------------------------------
\* The count of places.
LEMMA CountIsNat ==
  ASSUME TerminalTypeOK, PlacesAreCounted
  PROVE  /\ Cardinality(DOMAIN sessions) \in Nat
         /\ IsFiniteSet(Waiting) /\ Cardinality(Waiting) \in Nat
         /\ MaxSessions \in Nat \ {0} /\ peak \in Nat \ {0}
<1>1. IsFiniteSet(Waiting)
  BY TerminalAssumption, FS_Subset DEF Waiting
<1> QED
  BY <1>1, TerminalAssumption, FS_CardinalityType DEF PlacesAreCounted, TerminalTypeOK

LEMMA CountStays ==
  ASSUME TerminalTypeOK, PlacesAreCounted, peak' = peak,
         DOMAIN sessions' \subseteq DOMAIN sessions,
         \A s \in Socket : phase'[s] = "starting" => phase[s] = "starting"
  PROVE  PlacesAreCounted'
<1>1. /\ IsFiniteSet(DOMAIN sessions')
      /\ Cardinality(DOMAIN sessions') <= Cardinality(DOMAIN sessions)
      /\ Cardinality(DOMAIN sessions') \in Nat
  BY FS_Subset, FS_CardinalityType DEF PlacesAreCounted
<1>2. /\ Cardinality(Waiting') <= Cardinality(Waiting)
      /\ Cardinality(Waiting') \in Nat
  <2>1. Waiting' \subseteq Waiting
    BY DEF Waiting
  <2> QED
    BY <2>1, CountIsNat, FS_Subset, FS_CardinalityType
<1> QED
  BY <1>1, <1>2, CountIsNat DEF PlacesAreCounted

LEMMA BeginCounts ==
  ASSUME ShellInv, NEW s \in Socket, NEW r \in Request, Begin(s, r)
  PROVE  PlacesAreCounted' /\ peak' \in Nat \ {0}
<1> USE DEF ShellInv
<1> DEFINE now == Cardinality(Waiting) + 1
<1>1. Waiting' = Waiting \cup {s} /\ s \notin Waiting
  BY DEF Begin, Waiting, TerminalTypeOK
<1>2. Cardinality(Waiting') = now
  BY <1>1, CountIsNat, FS_AddElement
<1>3. peak' = IF now > peak THEN now ELSE peak
  BY DEF Begin
<1>4. Cardinality(DOMAIN sessions) < MaxSessions /\ sessions' = sessions
  BY DEF Begin, BelowCap
<1> HIDE DEF now
<1>5. now \in Nat \ {0}
  BY CountIsNat DEF now
<1>6. peak' \in Nat \ {0} /\ now <= peak'
  BY <1>3, <1>5, CountIsNat
<1> QED
  BY <1>2, <1>4, <1>5, <1>6, CountIsNat DEF PlacesAreCounted

LEMMA SpawnCounts ==
  ASSUME ShellInv, NEW s \in Socket, NEW k \in Key, phase[s] = "starting",
         phase' = [phase EXCEPT ![s] = "started"], peak' = peak,
         DOMAIN sessions' = DOMAIN sessions \cup {k}
  PROVE  PlacesAreCounted'
<1> USE DEF ShellInv
<1>1. Waiting' = Waiting \ {s} /\ s \in Waiting
  BY DEF Waiting, TerminalTypeOK
<1>2. Cardinality(Waiting') = Cardinality(Waiting) - 1
  BY <1>1, CountIsNat, FS_RemoveElement
<1>3. /\ IsFiniteSet(DOMAIN sessions')
      /\ Cardinality(DOMAIN sessions') \in {Cardinality(DOMAIN sessions), Cardinality(DOMAIN sessions) + 1}
  BY FS_AddElement DEF PlacesAreCounted
<1> QED
  BY <1>2, <1>3, CountIsNat DEF PlacesAreCounted

-----------------------------------------------------------------------------
LEMMA InitShell == Init => ShellInv
<1> SUFFICES ASSUME Init PROVE ShellInv
  OBVIOUS
<1> USE DEF Init
<1>1. TerminalTypeOK
  <2>1. NoShell \in Shell
    BY DEF NoShell, Shell
  <2>2. NoRequest \in Request
    BY DEF NoRequest, Request
  <2> QED
    BY <2>1, <2>2 DEF TerminalTypeOK
<1>2. EntriesAreLive /\ KeysAreOwned /\ SinksHaveStarted /\ TimersAreOfRunning
  BY DEF EntriesAreLive, KeysAreOwned, SinksHaveStarted, TimersAreOfRunning, NoShell
<1>3. EveryShellIsReachable /\ AttachedOrTimed /\ OneStopPerStart
  BY DEF EveryShellIsReachable, AttachedOrTimed, OneStopPerStart, NoShell, Running
<1>4. PlacesAreCounted
  <2>1. DOMAIN sessions = {} /\ Waiting = {}
    BY DEF Waiting
  <2> QED
    BY <2>1, TerminalAssumption, FS_EmptySet DEF PlacesAreCounted
<1> QED
  BY <1>1, <1>2, <1>3, <1>4 DEF ShellInv

\* A step that leaves the map and the shells alone, apart from who checks tmux.
LEMMA ShellsStay ==
  ASSUME ShellInv, TerminalTypeOK', PlacesAreCounted',
         UNCHANGED <<bound, sessions, contested>>,
         \A s \in Socket : conn[s] = "open" /\ IsSink(s) => conn'[s] = "open",
         \A s \in Socket : phase[s] = "started" => phase'[s] = "started",
         \A p \in Socket :
           \/ shell'[p] = shell[p]
           \/ \E b \in BOOLEAN : shell'[p] = [shell[p] EXCEPT !.checking = b]
  PROVE  ShellInv'
<1> USE DEF ShellInv
<1>1. \A p \in Socket :
        /\ shell[p] \in Shell /\ shell'[p].state = shell[p].state
        /\ shell'[p].key = shell[p].key /\ shell'[p].sink = shell[p].sink
        /\ shell'[p].timer = shell[p].timer /\ shell'[p].stops = shell[p].stops
  BY DEF TerminalTypeOK, Shell
<1>2. EntriesAreLive'
  BY <1>1 DEF EntriesAreLive, TerminalTypeOK
<1>3. KeysAreOwned' /\ TimersAreOfRunning' /\ OneStopPerStart'
  BY <1>1 DEF KeysAreOwned, TimersAreOfRunning, OneStopPerStart, Running
<1>4. SinksHaveStarted'
  BY <1>1 DEF SinksHaveStarted, TerminalTypeOK, Shell
<1>5. EveryShellIsReachable'
  BY <1>1 DEF EveryShellIsReachable, Running, Contested
<1>6. AttachedOrTimed'
  <2>1. \A p \in Socket :
          Running(p) /\ ~Contested(p) /\ shell[p].sink # None => IsSink(shell[p].sink)
    BY DEF EveryShellIsReachable, AttachedOrTimed, IsSink
  <2> QED
    BY <1>1, <2>1 DEF AttachedOrTimed, Running, Contested, TerminalTypeOK, Shell
<1> QED
  BY <1>2, <1>3, <1>4, <1>5, <1>6

\* The shell q ends and the entry of its key goes.  Its socket may go with it; a
\* shell that has lost its entry to q may lose its timer.
LEMMA ShellEnds ==
  ASSUME ShellInv, TerminalTypeOK', NEW q \in Socket, NEW k, Running(q), k = shell[q].key,
         sessions' = Without(k),
         UNCHANGED <<phase, bound, contested, peak>>,
         \A s \in Socket : conn'[s] = conn[s] \/ bound[s] = k,
         shell'[q].state = "closed", shell'[q].key = k, ~shell'[q].timer,
         shell'[q].sink = shell[q].sink, shell'[q].stops = shell[q].stops + 1,
         \A p \in Socket \ {q} :
           \/ shell'[p] = shell[p]
           \/ shell'[p] = [shell[p] EXCEPT !.timer = FALSE] /\ Contested(p)
  PROVE  ShellInv'
<1> USE DEF ShellInv
<1>1. \A p \in Socket \ {q} :
        /\ shell[p] \in Shell /\ shell'[p].state = shell[p].state
        /\ shell'[p].key = shell[p].key /\ shell'[p].sink = shell[p].sink
        /\ shell'[p].timer => shell[p].timer
        /\ shell'[p].timer = shell[p].timer \/ Contested(p)
        /\ shell'[p].stops = shell[p].stops
  BY DEF TerminalTypeOK, Shell
<1>2. /\ DOMAIN sessions' = DOMAIN sessions \ {k}
      /\ \A j \in DOMAIN sessions \ {k} : sessions'[j] = sessions[j]
      /\ \A j \in DOMAIN sessions : sessions[j] \in Socket
  BY DEF Without, TerminalTypeOK
<1>3. EntriesAreLive'
  BY <1>1, <1>2 DEF EntriesAreLive
<1>4. KeysAreOwned' /\ SinksHaveStarted'
  BY <1>1 DEF KeysAreOwned, SinksHaveStarted, Running
<1>5. TimersAreOfRunning'
  BY <1>1 DEF TimersAreOfRunning, Running
<1>6. OneStopPerStart'
  BY <1>1 DEF OneStopPerStart, Running
<1>7. \A p \in Socket \ {q} : Running(p) /\ shell[p].key = k => Contested(p)
  BY DEF EveryShellIsReachable, Contested
<1>8. EveryShellIsReachable'
  BY <1>1, <1>2, <1>7 DEF EveryShellIsReachable, Running, Contested
<1>9. AttachedOrTimed'
  BY <1>1, <1>7 DEF AttachedOrTimed, Running, Contested, TerminalTypeOK, Shell
<1>10. PlacesAreCounted'
  BY <1>2, CountStays
<1> QED
  BY <1>3, <1>4, <1>5, <1>6, <1>8, <1>9, <1>10

-----------------------------------------------------------------------------
LEMMA KeyForIsKey ==
  ASSUME TerminalTypeOK, NEW s \in Socket, NEW r \in Request
  PROVE  /\ KeyFor(s, r) \in Key
         /\ KeyFor(s, r).kind # "id" => KeyFor(s, r).socket = s
         /\ KeyFor(s, r).kind = "tmux" => KeyFor(s, r).of \in TmuxName
BY DEF KeyFor, Key, IdKey, Request, TmuxName

LEMMA ShellEdits ==
  ASSUME NEW h \in Shell
  PROVE  /\ Closed(h) \in Shell
         /\ \A b \in BOOLEAN : [h EXCEPT !.checking = b] \in Shell
         /\ \A b \in BOOLEAN : [h EXCEPT !.timer = b] \in Shell
         /\ \A t \in Socket \cup {None} : [h EXCEPT !.sink = t] \in Shell
<1>1. h.stops + 1 \in Nat
  BY DEF Shell
<1>2. Closed(h) = [h EXCEPT !.state = "closed", !.timer = FALSE, !.stops = h.stops + 1]
  BY DEF Closed
<1> QED
  BY <1>1, <1>2 DEF Shell

LEMMA TimerEdit ==
  ASSUME NEW h \in Shell, NEW t, t = [h EXCEPT !.timer = FALSE]
  PROVE  /\ t \in Shell /\ ~t.timer
         /\ t.state = h.state /\ t.key = h.key /\ t.sink = h.sink /\ t.stops = h.stops
BY DEF Shell

LEMMA TypeStays ==
  ASSUME ShellInv, [Next]_vars
  PROVE  TerminalTypeOK'
<1> USE DEF ShellInv, TerminalTypeOK
<1>0. \A s \in Socket : shell[s] \in Shell
  OBVIOUS
<1>1. \A k \in DOMAIN sessions : /\ sessions[k] \in Socket
                                 /\ DOMAIN Without(k) = DOMAIN sessions \ {k}
                                 /\ Without(k) \in [DOMAIN Without(k) -> Socket]
  BY DEF Without
<1>2. \A k : DOMAIN Without(k) \subseteq Key /\ Without(k) \in [DOMAIN Without(k) -> Socket]
  BY DEF Without
<1>3. \A h \in Shell : Closed(h) \in Shell
  BY ShellEdits
<1>4. NoRequest \in Request
  BY DEF NoRequest, Request
<1>5. \A i \in SessionId : IdKey(i) \in Key
  BY DEF IdKey, Key, TmuxName
<1>6. ASSUME NEW k, Dispose(k)
      PROVE  /\ DOMAIN sessions' \subseteq Key
             /\ sessions' \in [DOMAIN sessions' -> Socket]
             /\ shell' \in [Socket -> Shell]
  BY <1>0, <1>1, <1>2, <1>3, <1>6 DEF Dispose
<1>7. ASSUME NEW s \in Socket, Connect(s) PROVE TerminalTypeOK'
  BY <1>7 DEF Connect
<1>8. ASSUME NEW s \in Socket, NEW i \in SessionId, Reattach(s, i) PROVE TerminalTypeOK'
  <2>1. shell' \in [Socket -> Shell]
    <3> DEFINE q == sessions[IdKey(i)]
    <3> DEFINE h == [shell[q] EXCEPT !.sink = s]
    <3>1. q \in Socket /\ h \in Shell /\ [h EXCEPT !.timer = FALSE] \in Shell
      BY <1>0, <1>1, <1>8, ShellEdits DEF Reattach
    <3>2. shell' = [[shell EXCEPT ![q] = h] EXCEPT ![q] = [h EXCEPT !.timer = FALSE]]
      BY <1>8, <3>1 DEF Reattach
    <3> QED
      BY <3>1, <3>2
  <2> QED
    BY <1>5, <1>8, <2>1 DEF Reattach
<1>9. ASSUME NEW s \in Socket, NEW r \in Request, Begin(s, r) PROVE TerminalTypeOK'
  BY <1>9, BeginCounts DEF Begin
<1>10. ASSUME NEW s \in Socket, StartFails(s) PROVE TerminalTypeOK'
  BY <1>4, <1>10 DEF StartFails
<1>11. \A r \in Request : Created(r) \subseteq TmuxName
  BY DEF Created, Request, TmuxName
<1>12. ASSUME NEW s \in Socket, Spawned(s) PROVE TerminalTypeOK'
  <2> DEFINE k == KeyFor(s, wants[s])
  <2>1. k \in Key
    BY KeyForIsKey
  <2>2. /\ tmux' = tmux \cup Created(wants[s])
        /\ bound' = [bound EXCEPT ![s] = k]
        /\ sessions' = [j \in DOMAIN sessions \cup {k} |->
                          IF j = k THEN s ELSE sessions[j]]
        /\ shell' = [shell EXCEPT ![s] =
                      [NoShell EXCEPT !.state = "running", !.key = k, !.sink = s,
                                      !.deck = (wants[s].attach = None)]]
        /\ contested' \in {contested, contested \cup {k}}
    BY <1>12 DEF Spawned, Registered
  <2> HIDE DEF k
  <2>3. shell' \in [Socket -> Shell]
    <3>1. [NoShell EXCEPT !.state = "running", !.key = k, !.sink = s,
                          !.deck = (wants[s].attach = None)] \in Shell
      BY <2>1 DEF NoShell, Shell
    <3> QED
      BY <2>2, <3>1
  <2>4. sessions' \in [DOMAIN sessions' -> Socket] /\ DOMAIN sessions' \subseteq Key
    BY <2>1, <2>2
  <2> QED
    BY <1>4, <1>11, <1>12, <2>1, <2>2, <2>3, <2>4 DEF Spawned, Spawns
<1>13. ASSUME NEW s \in Socket, SpawnedTooLate(s) PROVE TerminalTypeOK'
  BY <1>4, <1>11, <1>13 DEF SpawnedTooLate, Spawns
<1>14. ASSUME NEW s \in Socket, Close(s) PROVE TerminalTypeOK'
  <2>1. dying' \subseteq TmuxName
    <3> DEFINE q == sessions[bound[s]]
    <3>1. q \in Socket /\ shell[q].state = "running"
      BY <1>14 DEF Close, IsSink, EntriesAreLive
    <3>2. shell[q].key.kind = "tmux" => shell[q].key.of \in TmuxName
      BY <3>1 DEF KeysAreOwned
    <3> QED
      BY <1>14, <3>2 DEF Close
  <2> QED
    BY <1>6, <1>14, <2>1 DEF Close
<1>15. ASSUME NEW s \in Socket, Disconnect(s) PROVE TerminalTypeOK'
  <2>1. /\ DOMAIN sessions' \subseteq Key
        /\ sessions' \in [DOMAIN sessions' -> Socket]
        /\ shell' \in [Socket -> Shell]
    <3>1. CASE IsSink(s) /\ bound[s].kind = "id"
      BY <1>0, <1>1, <1>15, <3>1 DEF Disconnect, IsSink, Shell
    <3>2. CASE IsSink(s) /\ bound[s].kind # "id"
      BY <1>6, <1>15, <3>2 DEF Disconnect
    <3>3. CASE ~IsSink(s)
      BY <1>15, <3>3 DEF Disconnect
    <3> QED
      BY <3>1, <3>2, <3>3
  <2> QED
    BY <1>15, <2>1 DEF Disconnect
<1>16. ASSUME NEW p \in Socket, ShellExits(p) PROVE TerminalTypeOK'
  BY <1>0, <1>2, <1>3, <1>16 DEF ShellExits
<1>17. ASSUME NEW p \in Socket, ClientDetaches(p) PROVE TerminalTypeOK'
  BY <1>0, <1>17 DEF ClientDetaches, Shell
<1>18. ASSUME NEW p \in Socket, ExitChecked(p) PROVE TerminalTypeOK'
  <2>1. [shell[p] EXCEPT !.checking = FALSE] \in Shell
        /\ [Closed(shell[p]) EXCEPT !.checking = FALSE] \in Shell
    BY <1>0, ShellEdits
  <2>2. CASE Running(p)
    <3> DEFINE h == [Closed(shell[p]) EXCEPT !.checking = FALSE]
    <3>1. shell' = [shell EXCEPT ![p] = h] /\ sessions' = Without(shell[p].key)
      BY <1>18, <2>2 DEF ExitChecked
    <3>2. h \in Shell
      BY <2>1
    <3> HIDE DEF h
    <3>3. shell' \in [Socket -> Shell]
      BY <3>1, <3>2
    <3>4. DOMAIN sessions' \subseteq Key /\ sessions' \in [DOMAIN sessions' -> Socket]
      BY <1>2, <3>1
    <3> QED
      BY <1>18, <3>3, <3>4 DEF ExitChecked
  <2>3. CASE ~Running(p)
    <3> DEFINE h == [shell[p] EXCEPT !.checking = FALSE]
    <3>1. shell' = [shell EXCEPT ![p] = h] /\ UNCHANGED sessions
      BY <1>18, <2>3 DEF ExitChecked
    <3>2. h \in Shell
      BY <2>1
    <3> HIDE DEF h
    <3>3. shell' \in [Socket -> Shell]
      BY <3>1, <3>2
    <3> QED
      BY <1>18, <3>1, <3>3 DEF ExitChecked
  <2> QED
    BY <2>2, <2>3
<1>19. ASSUME NEW p \in Socket, ParkTimer(p) PROVE TerminalTypeOK'
  <2> DEFINE cleared == [shell EXCEPT ![p].timer = FALSE]
  <2> DEFINE k == shell[p].key
  <2>1. cleared \in [Socket -> Shell]
    BY <1>0, ShellEdits
  <2>2. \/ k \in DOMAIN sessions /\ sessions' = Without(k)
           /\ shell' = [cleared EXCEPT ![sessions[k]] = Closed(cleared[sessions[k]])]
        \/ shell' = cleared /\ UNCHANGED sessions
    BY <1>19 DEF ParkTimer
  <2> HIDE DEF cleared, k
  <2>3. DOMAIN sessions' \subseteq Key /\ sessions' \in [DOMAIN sessions' -> Socket]
    BY <1>2, <2>2
  <2>4. shell' \in [Socket -> Shell]
    <3>1. CASE shell' = cleared
      BY <2>1, <3>1
    <3>2. CASE shell' = [cleared EXCEPT ![sessions[k]] = Closed(cleared[sessions[k]])]
               /\ k \in DOMAIN sessions
      <4>1. sessions[k] \in Socket
        BY <1>1, <3>2
      <4>2. Closed(cleared[sessions[k]]) \in Shell
        BY <1>3, <2>1, <4>1
      <4> QED
        BY <2>1, <3>2, <4>2
    <3> QED
      BY <2>2, <3>1, <3>2
  <2> QED
    BY <1>19, <2>3, <2>4 DEF ParkTimer
<1>20. ASSUME NEW n \in TmuxName, TmuxEnds(n) PROVE TerminalTypeOK'
  <2>1. shell' \in [Socket -> Shell]
    BY <1>0, <1>20, ShellEdits DEF TmuxEnds
  <2> QED
    BY <1>20, <2>1 DEF TmuxEnds
<1>21. ASSUME NEW n \in TmuxName, KillFails(n) PROVE TerminalTypeOK'
  BY <1>21 DEF KillFails
<1>22. CASE UNCHANGED vars
  BY <1>22 DEF vars
<1> QED
  BY <1>7, <1>8, <1>9, <1>10, <1>12, <1>13, <1>14, <1>15, <1>16, <1>17, <1>18,
     <1>19, <1>20, <1>21, <1>22 DEF Next

-----------------------------------------------------------------------------
\* A shell that has lost its entry under its id: its timer reaps nothing.
LEMMA LostTimerFires ==
  ASSUME ShellInv, TerminalTypeOK', NEW p \in Socket, Contested(p),
         shell' = [shell EXCEPT ![p].timer = FALSE],
         UNCHANGED <<conn, phase, bound, sessions, contested, peak>>
  PROVE  ShellInv'
<1> USE DEF ShellInv
<1>1. \A q \in Socket :
        /\ shell[q] \in Shell /\ shell'[q].state = shell[q].state
        /\ shell'[q].key = shell[q].key /\ shell'[q].sink = shell[q].sink
        /\ shell'[q].stops = shell[q].stops
        /\ shell'[q].timer => shell[q].timer
        /\ q # p => shell'[q].timer = shell[q].timer
  <2>1. \A q \in Socket : /\ shell[q] \in Shell
                          /\ shell'[q] = IF q = p THEN [shell[q] EXCEPT !.timer = FALSE]
                                         ELSE shell[q]
    BY DEF TerminalTypeOK
  <2>2. shell'[p] = [shell[p] EXCEPT !.timer = FALSE] /\ shell[p] \in Shell
    BY <2>1
  <2>3. \A q \in Socket \ {p} : shell'[q] = shell[q]
    BY <2>1
  <2>4. /\ ~shell'[p].timer
        /\ shell'[p].state = shell[p].state /\ shell'[p].key = shell[p].key
        /\ shell'[p].sink = shell[p].sink /\ shell'[p].stops = shell[p].stops
    BY <2>2, TimerEdit
  <2> QED
    BY <2>1, <2>3, <2>4
<1>2. EntriesAreLive'
  BY <1>1 DEF EntriesAreLive, TerminalTypeOK
<1>3. KeysAreOwned' /\ TimersAreOfRunning' /\ OneStopPerStart'
  BY <1>1 DEF KeysAreOwned, TimersAreOfRunning, OneStopPerStart, Running
<1>4. SinksHaveStarted'
  BY <1>1 DEF SinksHaveStarted
<1>5. EveryShellIsReachable'
  BY <1>1 DEF EveryShellIsReachable, Running, Contested
<1>6. AttachedOrTimed'
  <2>1. \A q \in Socket : Running(q)' /\ ~Contested(q)' => Running(q) /\ ~Contested(q) /\ q # p
    BY <1>1 DEF Running, Contested
  <2> QED
    BY <1>1, <2>1 DEF AttachedOrTimed
<1>7. PlacesAreCounted'
  BY CountStays
<1> QED
  BY <1>2, <1>3, <1>4, <1>5, <1>6, <1>7

LEMMA TimerFires ==
  ASSUME ShellInv, TerminalTypeOK', NEW p \in Socket, ParkTimer(p)
  PROVE  ShellInv'
<1> USE DEF ShellInv
<1> DEFINE k == shell[p].key
           cleared == [shell EXCEPT ![p].timer = FALSE]
           q == sessions[k]
<1>1. Running(p) /\ UNCHANGED <<conn, phase, bound, contested, peak>>
  BY DEF ParkTimer, TimersAreOfRunning
<1>2. CASE k \in DOMAIN sessions
  <2>1. q \in Socket /\ Running(q) /\ shell[q].key = k
    BY <1>2 DEF EntriesAreLive, TerminalTypeOK, Running
  <2>2. sessions' = Without(k) /\ shell' = [cleared EXCEPT ![q] = Closed(cleared[q])]
    BY <1>2 DEF ParkTimer
  <2>3. cleared[q] \in Shell /\ cleared[q].key = k /\ cleared[q].stops = shell[q].stops
        /\ cleared[q].sink = shell[q].sink
    <3>1. /\ shell[q] \in Shell
          /\ cleared[q] = IF q = p THEN [shell[q] EXCEPT !.timer = FALSE] ELSE shell[q]
      BY <2>1 DEF TerminalTypeOK
    <3> HIDE DEF cleared, q, k
    <3> QED
      BY <2>1, <3>1, TimerEdit
  <2>4. /\ shell'[q].state = "closed" /\ shell'[q].key = k /\ ~shell'[q].timer
        /\ shell'[q].sink = shell[q].sink /\ shell'[q].stops = shell[q].stops + 1
    <3>1. shell'[q] = Closed(cleared[q])
      BY <2>1, <2>2 DEF TerminalTypeOK
    <3> HIDE DEF cleared, q, k
    <3> QED
      BY <3>1, <2>3 DEF Closed, Shell
  <2>5. p # q => Contested(p)
    BY <1>1 DEF EveryShellIsReachable
  <2>6. \A r \in Socket \ {q} :
          \/ shell'[r] = shell[r]
          \/ shell'[r] = [shell[r] EXCEPT !.timer = FALSE] /\ Contested(r)
    <3>1. \A r \in Socket \ {q} : shell'[r] = cleared[r]
      BY <2>1, <2>2 DEF TerminalTypeOK
    <3>2. \A r \in Socket : cleared[r] = IF r = p THEN [shell[r] EXCEPT !.timer = FALSE]
                                         ELSE shell[r]
      BY DEF TerminalTypeOK
    <3> HIDE DEF cleared, q, k
    <3> QED
      BY <3>1, <3>2, <2>5
  <2> HIDE DEF q, k
  <2> QED
    BY <1>1, <2>1, <2>2, <2>4, <2>6, ShellEnds
<1>3. CASE k \notin DOMAIN sessions
  <2>1. Contested(p)
    BY <1>1, <1>3 DEF EveryShellIsReachable
  <2>2. shell' = cleared /\ UNCHANGED sessions
    BY <1>3 DEF ParkTimer
  <2> QED
    BY <1>1, <2>1, <2>2, LostTimerFires
<1> QED
  BY <1>2, <1>3

LEMMA DisposeEnds ==
  ASSUME ShellInv, TerminalTypeOK', NEW k \in DOMAIN sessions, Dispose(k),
         UNCHANGED <<phase, bound, contested, peak>>,
         \A s \in Socket : conn'[s] = conn[s] \/ bound[s] = k
  PROVE  ShellInv'
<1> USE DEF ShellInv
<1> DEFINE q == sessions[k]
<1>1. q \in Socket /\ Running(q) /\ shell[q].key = k
  BY DEF EntriesAreLive, TerminalTypeOK, Running
<1>2. sessions' = Without(k) /\ shell' = [shell EXCEPT ![q] = Closed(shell[q])]
  BY DEF Dispose
<1>3. shell[q] \in Shell /\ shell'[q] = Closed(shell[q])
  BY <1>1, <1>2 DEF TerminalTypeOK
<1> HIDE DEF q
<1>4. /\ shell'[q].state = "closed" /\ shell'[q].key = k /\ ~shell'[q].timer
      /\ shell'[q].sink = shell[q].sink /\ shell'[q].stops = shell[q].stops + 1
  BY <1>1, <1>3 DEF Closed, Shell
<1>5. \A p \in Socket \ {q} : shell'[p] = shell[p]
  BY <1>2 DEF TerminalTypeOK
<1> QED
  BY <1>1, <1>2, <1>4, <1>5, ShellEnds

LEMMA ExitEnds ==
  ASSUME ShellInv, TerminalTypeOK', NEW p \in Socket, ShellExits(p) \/ ExitChecked(p)
  PROVE  ShellInv'
<1> USE DEF ShellInv
<1>1. UNCHANGED <<conn, phase, bound, contested, peak>>
  BY DEF ShellExits, ExitChecked
<1>2. shell[p] \in Shell
  BY DEF TerminalTypeOK
<1>3. CASE Running(p)
  <2>1. /\ sessions' = Without(shell[p].key)
        /\ \/ shell' = [shell EXCEPT ![p] = Closed(shell[p])]
           \/ shell' = [shell EXCEPT ![p] = [Closed(shell[p]) EXCEPT !.checking = FALSE]]
    BY <1>3 DEF ShellExits, ExitChecked
  <2>2. shell'[p] \in {Closed(shell[p]), [Closed(shell[p]) EXCEPT !.checking = FALSE]}
    BY <2>1 DEF TerminalTypeOK
  <2>3. /\ shell'[p].state = "closed" /\ shell'[p].key = shell[p].key /\ ~shell'[p].timer
        /\ shell'[p].sink = shell[p].sink /\ shell'[p].stops = shell[p].stops + 1
    BY <1>2, <2>2 DEF Closed, Shell
  <2>4. \A q \in Socket \ {p} : shell'[q] = shell[q]
    BY <2>1 DEF TerminalTypeOK
  <2> QED
    BY <1>1, <1>3, <2>1, <2>3, <2>4, ShellEnds
<1>4. CASE ~Running(p)
  <2>1. UNCHANGED sessions /\ shell' = [shell EXCEPT ![p].checking = FALSE]
    BY <1>4 DEF ShellExits, ExitChecked
  <2>2. \A q \in Socket : \/ shell'[q] = shell[q]
                          \/ \E b \in BOOLEAN : shell'[q] = [shell[q] EXCEPT !.checking = b]
    BY <2>1 DEF TerminalTypeOK
  <2>3. PlacesAreCounted'
    BY <1>1, <2>1, CountStays
  <2> QED
    BY <1>1, <2>1, <2>2, <2>3, ShellsStay
<1> QED
  BY <1>3, <1>4

-----------------------------------------------------------------------------
\* A socket takes a shell over: no shell was its own before.
LEMMA ReattachKeeps ==
  ASSUME ShellInv, TerminalTypeOK', NEW s \in Socket, NEW i \in SessionId, Reattach(s, i)
  PROVE  ShellInv'
<1> USE DEF ShellInv
<1> DEFINE k == IdKey(i)
           q == sessions[k]
<1>1. q \in Socket /\ Running(q) /\ shell[q].key = k /\ k \in DOMAIN sessions
  BY DEF Reattach, EntriesAreLive, TerminalTypeOK, Running
<1>2. /\ conn[s] = "open" /\ phase[s] = "idle"
      /\ phase' = [phase EXCEPT ![s] = "started"] /\ bound' = [bound EXCEPT ![s] = k]
      /\ UNCHANGED <<conn, sessions, contested, peak>>
  BY DEF Reattach
<1>3. /\ \A p \in Socket \ {q} : shell'[p] = shell[p]
      /\ shell'[q].state = "running" /\ shell'[q].key = k /\ shell'[q].sink = s
      /\ shell'[q].timer = FALSE /\ shell'[q].stops = shell[q].stops
  <2> DEFINE h == [shell[q] EXCEPT !.sink = s]
  <2>1. shell' = [[shell EXCEPT ![q] = h] EXCEPT ![q] = [h EXCEPT !.timer = FALSE]]
    BY <1>1 DEF Reattach, TerminalTypeOK
  <2>2. shell'[q] = [h EXCEPT !.timer = FALSE] /\ \A p \in Socket \ {q} : shell'[p] = shell[p]
    BY <1>1, <2>1 DEF TerminalTypeOK
  <2>3. shell[q] \in Shell
    BY <1>1 DEF TerminalTypeOK
  <2>4. /\ h \in Shell /\ h.state = shell[q].state /\ h.key = shell[q].key
        /\ h.sink = s /\ h.stops = shell[q].stops
    BY <2>3, ShellEdits DEF Shell
  <2> HIDE DEF q, h, k
  <2> QED
    BY <1>1, <2>2, <2>4, TimerEdit DEF Running
<1> HIDE DEF q, k
<1>4. EntriesAreLive'
  BY <1>1, <1>2, <1>3 DEF EntriesAreLive, TerminalTypeOK
<1>5. KeysAreOwned'
  BY <1>1, <1>2, <1>3 DEF KeysAreOwned, TerminalTypeOK, Running
<1>6. SinksHaveStarted'
  BY <1>2, <1>3 DEF SinksHaveStarted, TerminalTypeOK, Shell
<1>7. TimersAreOfRunning' /\ OneStopPerStart'
  BY <1>1, <1>3 DEF TimersAreOfRunning, OneStopPerStart, Running
<1>8. EveryShellIsReachable'
  BY <1>1, <1>2, <1>3 DEF EveryShellIsReachable, Running, Contested
<1>9. AttachedOrTimed'
  <2>1. \A p \in Socket : shell[p].sink # s
    BY <1>2, TerminalAssumption DEF SinksHaveStarted
  <2>2. s # None
    BY TerminalAssumption
  <2> QED
    BY <1>1, <1>2, <1>3, <2>1, <2>2 DEF AttachedOrTimed, Running, Contested, TerminalTypeOK
<1>10. PlacesAreCounted'
  BY <1>2, CountStays DEF TerminalTypeOK
<1> QED
  BY <1>4, <1>5, <1>6, <1>7, <1>8, <1>9, <1>10

\* A new shell is registered: only the entry of a stable id can be overwritten.
LEMMA SpawnKeeps ==
  ASSUME ShellInv, TerminalTypeOK', NEW s \in Socket, Spawned(s)
  PROVE  ShellInv'
<1> USE DEF ShellInv
<1> DEFINE k == KeyFor(s, wants[s])
<1>1. /\ conn[s] = "open" /\ phase[s] = "starting"
      /\ phase' = [phase EXCEPT ![s] = "started"] /\ bound' = [bound EXCEPT ![s] = k]
      /\ UNCHANGED <<conn, peak>>
      /\ sessions' = [j \in DOMAIN sessions \cup {k} |-> IF j = k THEN s ELSE sessions[j]]
      /\ contested' = IF k \in DOMAIN sessions THEN contested \cup {k} ELSE contested
      /\ shell' = [shell EXCEPT ![s] =
                     [NoShell EXCEPT !.state = "running", !.key = k, !.sink = s,
                                     !.deck = (wants[s].attach = None)]]
  BY DEF Spawned, Spawns, Registered
<1>2. /\ k \in Key
      /\ k.kind # "id" => k.socket = s
      /\ k.kind = "tmux" => k.of \in TmuxName
  BY KeyForIsKey DEF TerminalTypeOK
<1> HIDE DEF k
<1>3. /\ \A p \in Socket \ {s} : shell'[p] = shell[p]
      /\ shell'[s].state = "running" /\ shell'[s].key = k /\ shell'[s].sink = s
      /\ ~shell'[s].timer /\ shell'[s].stops = 0
  BY <1>1 DEF TerminalTypeOK, NoShell
<1>4. shell[s].state = "none" /\ \A p \in Socket : shell[p].sink # s
  BY <1>1, TerminalAssumption DEF KeysAreOwned, SinksHaveStarted
<1>5. \A j \in DOMAIN sessions : sessions[j] \in Socket \ {s}
  BY <1>4 DEF EntriesAreLive, TerminalTypeOK
<1>6. k \in DOMAIN sessions => k.kind = "id"
  <2> SUFFICES ASSUME k \in DOMAIN sessions, k.kind # "id" PROVE FALSE
    OBVIOUS
  <2>1. /\ sessions[k] \in Socket \ {s} /\ shell[sessions[k]].state = "running"
        /\ shell[sessions[k]].key = k
    BY <1>5 DEF EntriesAreLive
  <2>2. k.socket = sessions[k]
    BY <2>1 DEF KeysAreOwned
  <2> QED
    BY <1>2, <2>1, <2>2
<1>7. EntriesAreLive'
  BY <1>1, <1>3, <1>5 DEF EntriesAreLive
<1>8. KeysAreOwned'
  BY <1>1, <1>2, <1>3 DEF KeysAreOwned, TerminalTypeOK
<1>9. SinksHaveStarted'
  BY <1>1, <1>3 DEF SinksHaveStarted, TerminalTypeOK, Shell
<1>10. TimersAreOfRunning' /\ OneStopPerStart'
  BY <1>3 DEF TimersAreOfRunning, OneStopPerStart, Running
<1>11. contested \subseteq contested'
  BY <1>1
<1>12. EveryShellIsReachable'
  <2> SUFFICES ASSUME NEW p \in Socket, Running(p)'
               PROVE  \/ Contested(p)'
                      \/ shell'[p].key \in DOMAIN sessions' /\ sessions'[shell'[p].key] = p
    BY DEF EveryShellIsReachable
  <2>1. CASE p = s
    BY <1>1, <1>3, <2>1
  <2>2. CASE p # s
    <3>1. Running(p) /\ shell'[p].key = shell[p].key
      BY <1>3, <2>2 DEF Running
    <3>2. CASE Contested(p)
      BY <1>11, <3>1, <3>2 DEF Contested
    <3>3. CASE shell[p].key \in DOMAIN sessions /\ sessions[shell[p].key] = p
      BY <1>1, <1>6, <3>1, <3>3 DEF Contested
    <3> QED
      BY <3>1, <3>2, <3>3 DEF EveryShellIsReachable
  <2> QED
    BY <2>1, <2>2
<1>13. AttachedOrTimed'
  <2>1. s # None
    BY TerminalAssumption
  <2>2. \A p \in Socket \ {s} : /\ Running(p)' => Running(p)
                                /\ Contested(p) => Contested(p)'
    BY <1>3, <1>11 DEF Running, Contested
  <2> QED
    BY <1>1, <1>3, <1>4, <2>1, <2>2 DEF AttachedOrTimed, TerminalTypeOK
<1>14. PlacesAreCounted'
  BY <1>1, <1>2, SpawnCounts
<1> QED
  BY <1>7, <1>8, <1>9, <1>10, <1>12, <1>13, <1>14

\* Only the live sink of a shell acts when its connection goes.
LEMMA DisconnectKeeps ==
  ASSUME ShellInv, TerminalTypeOK', NEW s \in Socket, Disconnect(s)
  PROVE  ShellInv'
<1> USE DEF ShellInv
<1>1. /\ conn[s] = "open" /\ conn' = [conn EXCEPT ![s] = "gone"]
      /\ UNCHANGED <<phase, bound, contested, peak>>
  BY DEF Disconnect
<1>2. \A t \in Socket : t # s => conn'[t] = conn[t]
  BY <1>1 DEF TerminalTypeOK
<1>3. CASE ~IsSink(s)
  <2>1. UNCHANGED <<sessions, shell>>
    BY <1>3 DEF Disconnect
  <2>2. PlacesAreCounted'
    BY <1>1, <2>1, CountStays
  <2> QED
    BY <1>1, <1>2, <1>3, <2>1, <2>2, ShellsStay
<1>4. CASE IsSink(s) /\ bound[s].kind # "id"
  <2>1. Dispose(bound[s]) /\ bound[s] \in DOMAIN sessions
    BY <1>4 DEF Disconnect, IsSink
  <2>2. \A t \in Socket : conn'[t] = conn[t] \/ bound[t] = bound[s]
    BY <1>2
  <2> QED
    BY <1>1, <2>1, <2>2, DisposeEnds
<1>5. CASE IsSink(s) /\ bound[s].kind = "id"
  <2> DEFINE k == bound[s]
             q == sessions[k]
  <2>1. k \in DOMAIN sessions /\ q \in Socket /\ Running(q) /\ shell[q].key = k
    BY <1>5 DEF IsSink, EntriesAreLive, TerminalTypeOK, Running
  <2>2. /\ \A p \in Socket \ {q} : shell'[p] = shell[p]
        /\ shell'[q].state = "running" /\ shell'[q].key = k /\ shell'[q].sink = None
        /\ shell'[q].timer = TRUE /\ shell'[q].stops = shell[q].stops
    <3> DEFINE h == [shell[q] EXCEPT !.sink = None]
    <3>1. shell' = [[shell EXCEPT ![q] = h] EXCEPT ![q] = [h EXCEPT !.timer = TRUE]]
      BY <1>5, <2>1 DEF Disconnect, TerminalTypeOK
    <3>2. shell'[q] = [h EXCEPT !.timer = TRUE] /\ \A p \in Socket \ {q} : shell'[p] = shell[p]
      BY <2>1, <3>1 DEF TerminalTypeOK
    <3>3. shell[q] \in Shell
      BY <2>1 DEF TerminalTypeOK
    <3>4. /\ h \in Shell /\ h.state = shell[q].state /\ h.key = shell[q].key
          /\ h.sink = None /\ h.stops = shell[q].stops
      BY <3>3, ShellEdits DEF Shell
    <3> HIDE DEF q, h, k
    <3>5. /\ shell'[q].state = h.state /\ shell'[q].key = h.key /\ shell'[q].sink = h.sink
          /\ shell'[q].timer = TRUE /\ shell'[q].stops = h.stops
      BY <3>2, <3>4 DEF Shell
    <3> QED
      BY <2>1, <3>2, <3>4, <3>5 DEF Running
  <2>3. UNCHANGED sessions
    BY <1>5 DEF Disconnect
  <2> HIDE DEF q
  <2>4. EntriesAreLive'
    BY <2>1, <2>2, <2>3 DEF EntriesAreLive, TerminalTypeOK
  <2>5. KeysAreOwned'
    BY <1>1, <2>1, <2>2 DEF KeysAreOwned, Running
  <2>6. SinksHaveStarted'
    BY <1>1, <2>2 DEF SinksHaveStarted
  <2>7. TimersAreOfRunning' /\ OneStopPerStart'
    BY <2>1, <2>2 DEF TimersAreOfRunning, OneStopPerStart, Running
  <2>8. EveryShellIsReachable'
    BY <1>1, <2>1, <2>2, <2>3 DEF EveryShellIsReachable, Running, Contested
  <2>9. AttachedOrTimed'
    <3> SUFFICES ASSUME NEW p \in Socket, Running(p)', ~Contested(p)'
                 PROVE  \/ /\ shell'[p].sink # None /\ conn'[shell'[p].sink] = "open"
                           /\ bound'[shell'[p].sink] = shell'[p].key /\ ~shell'[p].timer
                        \/ shell'[p].sink = None /\ shell'[p].timer
      BY DEF AttachedOrTimed
    <3>1. CASE p = q
      BY <2>2, <3>1
    <3>2. CASE p # q
      <4>1. shell'[p] = shell[p] /\ Running(p) /\ ~Contested(p)
        BY <1>1, <2>2, <3>2 DEF Running, Contested
      <4>2. shell[p].sink = s => shell[p].key = k
        BY <4>1, TerminalAssumption DEF AttachedOrTimed
      <4>3. shell[p].key # k
        BY <2>1, <3>2, <4>1 DEF EveryShellIsReachable, q
      <4>4. shell[p].sink \in Socket \cup {None}
        BY DEF TerminalTypeOK, Shell
      <4> QED
        BY <1>1, <1>2, <4>1, <4>2, <4>3, <4>4 DEF AttachedOrTimed
    <3> QED
      BY <3>1, <3>2
  <2>10. PlacesAreCounted'
    BY <1>1, <2>3, CountStays
  <2> QED
    BY <2>4, <2>5, <2>6, <2>7, <2>8, <2>9, <2>10
<1> QED
  BY <1>3, <1>4, <1>5

-----------------------------------------------------------------------------
\* Steps before the pty, on another connection, or inside tmux.
LEMMA QuietStep ==
  ASSUME ShellInv, TerminalTypeOK',
         \/ \E s \in Socket : \/ Connect(s) \/ StartFails(s) \/ SpawnedTooLate(s)
                              \/ ClientDetaches(s) \/ \E r \in Request : Begin(s, r)
         \/ \E n \in TmuxName : TmuxEnds(n) \/ KillFails(n)
  PROVE  ShellInv'
<1> USE DEF ShellInv
<1> USE DEF Connect, Begin, StartFails, SpawnedTooLate, Spawns, ClientDetaches, TmuxEnds,
            KillFails
<1>1. /\ UNCHANGED <<bound, sessions, contested>>
      /\ \A t \in Socket : conn[t] = "open" => conn'[t] = "open"
  BY DEF TerminalTypeOK
<1>2. \A t \in Socket : phase[t] = "started" => phase'[t] = "started"
  BY DEF TerminalTypeOK
<1>3. \A p \in Socket :
        \/ shell'[p] = shell[p]
        \/ shell'[p] = [shell[p] EXCEPT !.checking = TRUE]
  <2>1. CASE \E s \in Socket : ClientDetaches(s)
    <3>1. PICK s \in Socket : shell' = [shell EXCEPT ![s].checking = TRUE]
      BY <2>1
    <3> QED
      BY <3>1 DEF TerminalTypeOK
  <2>2. CASE \E n \in TmuxName : TmuxEnds(n)
    BY <2>2
  <2>3. CASE UNCHANGED shell
    BY <2>3
  <2> QED
    BY <2>1, <2>2, <2>3
<1>4. PlacesAreCounted'
  <2>1. CASE \E s \in Socket, r \in Request : Begin(s, r)
    BY <2>1, BeginCounts
  <2>2. CASE ~\E s \in Socket, r \in Request : Begin(s, r)
    <3>1. /\ peak' = peak
          /\ \A t \in Socket : phase'[t] = "starting" => phase[t] = "starting"
      BY <2>2 DEF TerminalTypeOK
    <3> QED
      BY <1>1, <3>1, CountStays
  <2> QED
    BY <2>1, <2>2
<1> QED
  BY <1>1, <1>2, <1>3, <1>4, ShellsStay

LEMMA NextShell == ShellInv /\ [Next]_vars => ShellInv'
<1> SUFFICES ASSUME ShellInv, [Next]_vars PROVE ShellInv'
  OBVIOUS
<1>1. TerminalTypeOK'
  BY TypeStays
<1>2. CASE \E s \in Socket : \/ Connect(s) \/ StartFails(s) \/ SpawnedTooLate(s)
                             \/ ClientDetaches(s) \/ \E r \in Request : Begin(s, r)
  BY <1>1, <1>2, QuietStep
<1>3. CASE \E n \in TmuxName : TmuxEnds(n) \/ KillFails(n)
  BY <1>1, <1>3, QuietStep
<1>4. ASSUME NEW s \in Socket, NEW i \in SessionId, Reattach(s, i) PROVE ShellInv'
  BY <1>1, <1>4, ReattachKeeps
<1>5. ASSUME NEW s \in Socket, Spawned(s) PROVE ShellInv'
  BY <1>1, <1>5, SpawnKeeps
<1>6. ASSUME NEW s \in Socket, Close(s) PROVE ShellInv'
  BY <1>1, <1>6, DisposeEnds DEF Close, IsSink
<1>7. ASSUME NEW s \in Socket, Disconnect(s) PROVE ShellInv'
  BY <1>1, <1>7, DisconnectKeeps
<1>8. ASSUME NEW p \in Socket, ShellExits(p) \/ ExitChecked(p) PROVE ShellInv'
  BY <1>1, <1>8, ExitEnds
<1>9. ASSUME NEW p \in Socket, ParkTimer(p) PROVE ShellInv'
  BY <1>1, <1>9, TimerFires
<1>10. CASE UNCHANGED vars
  BY <1>10 DEF vars, ShellInv, TerminalTypeOK, EntriesAreLive, KeysAreOwned,
       SinksHaveStarted, TimersAreOfRunning, EveryShellIsReachable, AttachedOrTimed,
       OneStopPerStart, PlacesAreCounted, Running, Contested, Waiting
<1> QED
  BY <1>2, <1>3, <1>4, <1>5, <1>6, <1>7, <1>8, <1>9, <1>10 DEF Next

\* The inductive invariant of the terminal namespace (terminalNamespace.ts 233-732).
THEOREM ShellInvariant == Spec => []ShellInv
<1> QED
  BY InitShell, NextShell, PTL DEF Spec

\* Every variable keeps its type, whatever the sockets, the shells and tmux do
\* (terminalNamespace.ts 233-281).
THEOREM TerminalTypeCorrect == Spec => []TerminalTypeOK
<1>1. ShellInv => TerminalTypeOK
  BY DEF ShellInv
<1> QED
  BY <1>1, ShellInvariant, PTL

\* A running pty is in the map under its own key, unless two sockets have started
\* its id before either was registered (terminalNamespace.ts 379-396, 556, 598, 615).
THEOREM NoOrphanShells == Spec => []EveryShellIsReachable
<1>1. ShellInv => EveryShellIsReachable
  BY DEF ShellInv
<1> QED
  BY <1>1, ShellInvariant, PTL

\* A shell has an open socket that is bound to it and no timer, or no socket and a
\* running timer (terminalNamespace.ts 379-396, 709-731).
THEOREM AttachedOrOnTheClock == Spec => []AttachedOrTimed
<1>1. ShellInv => AttachedOrTimed
  BY DEF ShellInv
<1> QED
  BY <1>1, ShellInvariant, PTL

\* Exits, tmux checks, closes, disconnects and the timer stop a session once
\* (terminalNamespace.ts 305-325, 543-552, 581-600).
THEOREM OneStop == Spec => []OneStopPerStart
<1>1. ShellInv => OneStopPerStart
  BY DEF ShellInv
<1> QED
  BY <1>1, ShellInvariant, PTL

\* The cap is overrun by less than the starts that ever waited together
\* (terminalNamespace.ts 398-406).
THEOREM CapOverrun == Spec => []CapOverrunBounded
<1>1. ShellInv => CapOverrunBounded
  <2> SUFFICES ASSUME ShellInv PROVE CapOverrunBounded
    OBVIOUS
  <2>1. /\ Cardinality(DOMAIN sessions) \in Nat /\ Cardinality(Waiting) \in Nat
        /\ MaxSessions \in Nat /\ peak \in Nat
    BY CountIsNat DEF ShellInv
  <2>2. Cardinality(DOMAIN sessions) + Cardinality(Waiting) <= MaxSessions - 1 + peak
    BY DEF ShellInv, PlacesAreCounted
  <2> QED
    BY <2>1, <2>2 DEF CapOverrunBounded
<1> QED
  BY <1>1, ShellInvariant, PTL
=============================================================================
