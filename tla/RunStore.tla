------------------------------ MODULE RunStore ------------------------------
(***************************************************************************)
(* The in-memory event log of apps/server/src/chat/runStore.ts: one log    *)
(* per run, each appended event tagged with the next cursor of its run, so *)
(* that a reconnecting client can ask for everything after the last cursor *)
(* it saw.  A log leaves the store when the retention timer of a finished  *)
(* run fires, when an unfinished run stays idle past the idle window, or   *)
(* when one run more than MaxRuns is retained.                             *)
(*                                                                         *)
(* The store has no thread of its own: every method runs inside a handler  *)
(* of its callers (RunManager, ChatRun).  The methods are therefore action *)
(* fragments on the variables runs and lost; only the two timers           *)
(* (EvictTerminal, SweepIdle) are steps by themselves.                     *)
(*                                                                         *)
(* Wall-clock time is counted in ticks.  idle is the number of ticks since *)
(* lastActivityAt; it stops growing once it has passed the idle window.    *)
(***************************************************************************)
EXTENDS ChatEvents, Integers, Sequences, FiniteSets

CONSTANTS MaxEvents,  \* maxEventsPerRun
          MaxRuns,    \* maxRuns
          IdleTtl     \* idleTtlMs, in ticks

ASSUME RunStoreAssumption ==
  /\ MaxEvents \in Nat \ {0}
  /\ MaxRuns \in Nat \ {0}
  /\ IdleTtl \in Nat

VARIABLES runs,  \* the Map from run ids to run states: a partial function
          lost   \* history: runs whose log was dropped while it held events

storeVars == <<runs, lost>>

-----------------------------------------------------------------------------
RunState ==
  [events : Seq([cursor : Nat, event : LogEvents]),
   done   : BOOLEAN,
   cursor : Nat,
   idle   : 0 .. IdleTtl + 1]

FreshRun == [events |-> << >>, done |-> FALSE, cursor |-> 0, idle |-> 0]

Has(r) == r \in DOMAIN runs

IsDone(r) == Has(r) /\ runs[r].done

-----------------------------------------------------------------------------
(***************************************************************************)
(* Replacing the map.  Every change of the store is a StoreStep: it also   *)
(* remembers which non-empty logs the change drops.                        *)
(***************************************************************************)
StoreStep(rs) ==
  /\ runs' = rs
  /\ lost' = lost \cup {r \in DOMAIN runs \ DOMAIN rs : runs[r].cursor > 0}

NoRuns == [r \in {} |-> FreshRun]

Without(rs, r) == [x \in DOMAIN rs \ {r} |-> rs[x]]

\* oldestEvictable: the longest-idle unfinished run other than keep, or, when
\* there is none, the longest-idle finished one.  Equal times are a free choice.
Victims(rs, keep) ==
  LET others     == DOMAIN rs \ {keep}
      unfinished == {x \in others : ~rs[x].done}
      pool       == IF unfinished # {} THEN unfinished ELSE others
  IN  {x \in pool : \A y \in pool : rs[y].idle <= rs[x].idle}

Inserted(r) ==
  [x \in DOMAIN runs \cup {r} |-> IF x = r THEN FreshRun ELSE runs[x]]

\* Faulty variant of Ensured: the cap is checked before the new run is counted.
EnsuredOffByOne(r) ==
  IF Has(r) THEN {runs}
  ELSE IF Cardinality(DOMAIN runs) <= MaxRuns THEN {Inserted(r)}
  ELSE {Without(Inserted(r), v) : v \in Victims(Inserted(r), r)}

\* The maps that ensure(r) with enforceMaxRuns(r) may leave behind.  The map
\* never holds more than MaxRuns runs before an insertion, so one eviction ends
\* the loop.
Ensured(r) ==
  IF Has(r) THEN {runs}
  ELSE IF Cardinality(DOMAIN Inserted(r)) <= MaxRuns THEN {Inserted(r)}
  ELSE {Without(Inserted(r), v) : v \in Victims(Inserted(r), r)}

\* Faulty variant of Capped: the newest events are the ones dropped.
CappedAtTheWrongEnd(s) == IF Len(s) <= MaxEvents THEN s ELSE SubSeq(s, 1, MaxEvents)

\* At most MaxEvents events are retained; the oldest go first.
Capped(s) ==
  IF Len(s) <= MaxEvents THEN s ELSE SubSeq(s, Len(s) - MaxEvents + 1, Len(s))

\* One run state after append(event): next cursor, push, cap, terminal mark.
Logged(state, e) ==
  [events |-> Capped(Append(state.events,
                            [cursor |-> state.cursor + 1, event |-> e])),
   done   |-> state.done \/ e \in TerminalEvents,
   cursor |-> state.cursor + 1,
   idle   |-> 0]

\* append(r, e)
StoreAppend(r, e) ==
  \E rs \in Ensured(r) : StoreStep([rs EXCEPT ![r] = Logged(rs[r], e)])

\* What subscribe(r) does to a run that is not retained: an empty log is begun.
StoreEnsure(r) == \E rs \in Ensured(r) : StoreStep(rs)

\* broadcast(r): nothing is logged, but a heartbeat counts as activity.
StoreBroadcast(r) ==
  /\ runs' = IF Has(r) /\ ~IsDone(r) THEN [runs EXCEPT ![r].idle = 0] ELSE runs
  /\ UNCHANGED lost

-----------------------------------------------------------------------------
(***************************************************************************)
(* The timers.                                                             *)
(***************************************************************************)

\* scheduleEviction: the retention timer a terminal event armed.
EvictTerminal(r) ==
  /\ IsDone(r)
  /\ StoreStep(Without(runs, r))

\* sweep, for one of the runs it visits.  A pass over several idle runs is
\* several of these steps; they touch different runs.
SweepIdle(r) ==
  /\ Has(r)
  /\ ~runs[r].done
  /\ runs[r].idle > IdleTtl
  /\ StoreStep(Without(runs, r))

\* A tick passes for every retained run.
Aged ==
  [r \in DOMAIN runs |->
     [runs[r] EXCEPT !.idle = IF @ > IdleTtl THEN @ ELSE @ + 1]]

StoreInit ==
  /\ runs = NoRuns
  /\ lost = {}

-----------------------------------------------------------------------------
StoreTypeOK ==
  /\ DOMAIN runs \subseteq RunId
  /\ runs \in [DOMAIN runs -> RunState]
  /\ lost \subseteq RunId

\* The retained events of one run carry consecutive cursors that end at the
\* run's own cursor; none is missing before the cap is reached.
GapFree(state) ==
  /\ Len(state.events) = IF state.cursor < MaxEvents THEN state.cursor ELSE MaxEvents
  /\ \A i \in 1 .. Len(state.events) :
        state.events[i].cursor = state.cursor - Len(state.events) + i

(* Replay is truthful (runStore.ts 104-123, 226-231): whatever was appended, *)
(* capped or evicted, the events a log still holds are the last ones issued, *)
(* in cursor order with no hole, so "everything after cursor k" is a suffix. *)
LogIsGapFree == \A r \in DOMAIN runs : GapFree(runs[r])

(* The map cannot grow without bound (runStore.ts 140-149): whichever caller *)
(* inserts a run, at most maxRuns are retained once its handler has ended.   *)
RetentionBounded == Cardinality(DOMAIN runs) <= MaxRuns
=============================================================================
