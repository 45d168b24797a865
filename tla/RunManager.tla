----------------------------- MODULE RunManager -----------------------------
(***************************************************************************)
(* The server-owned run lifecycle of apps/server/src/chat/runManager.ts.   *)
(* One pump per run drains the gateway's event stream into the store and   *)
(* outlives every browser socket.  A pump is an asynchronous iteration: it *)
(* runs one step per frame, and any other handler may run in between.      *)
(*                                                                         *)
(* Two things describe a pump, and they are not always in step:            *)
(*   - the entry under its run id in pumps, which is what start, abort,    *)
(*     touch and the idle reaper look at;                                  *)
(*   - the iteration itself (stream), which goes on until its stream ends  *)
(*     or throws, whether or not an entry still points at it.              *)
(*                                                                         *)
(* The gateway is external and unconstrained: a stream yields any frames,  *)
(* then ends or throws, at any time.  After an abort it usually throws,    *)
(* but frames that were already decoded are still yielded first.           *)
(***************************************************************************)
EXTENDS RunStore

CONSTANTS PumpId,       \* identities of pump iterations, one per launch
          RawFrames,    \* the raw frames the gateway may send
          MaxPumps,     \* maxConcurrentPumps
          IdleTimeout,  \* idleTimeoutMs, in ticks
          MaxFrames     \* bound: frames one stream yields before it goes silent

ASSUME RunManagerAssumption ==
  /\ MaxPumps \in Nat \ {0}
  /\ IdleTimeout \in Nat
  /\ MaxFrames \in Nat

VARIABLES pumps,        \* the Map from run ids to registered pumps
          stream,       \* the pump iterations
          approvalOpen  \* runs broadcast as waiting for an approval

managerVars == <<runs, lost, pumps, stream, approvalOpen>>

-----------------------------------------------------------------------------
(***************************************************************************)
(* mapGatewayEvent.  A raw frame is an event name of the protocol, a       *)
(* heartbeat sent as data, or a name outside the vocabulary; the last kind *)
(* is dropped, except that a name with a terminal suffix closes the run.   *)
(***************************************************************************)
Dropped == "dropped"

MapGatewayEvent(raw) ==
  CASE raw \in LogEvents          -> raw
    [] raw = "run.heartbeat"      -> raw
    [] raw = "unknown.completed"  -> "run.failed"
    [] OTHER                      -> Dropped

StreamState ==
  [phase   : {"unused", "streaming", "finished"},
   run     : RunId \cup {"none"},
   aborted : BOOLEAN,
   frames  : 0 .. MaxFrames]

Streaming(p) == stream[p].phase = "streaming"

\* A pump iteration that will still make its run terminal by itself.
Drains(p, r) == Streaming(p) /\ stream[p].run = r /\ ~stream[p].aborted

\* No pump was ever launched for r.
NeverPumped(r) == \A p \in PumpId : stream[p].phase # "unused" => stream[p].run # r

NoPumps == [r \in {} |-> r]

IsActive(r) == r \in DOMAIN pumps

Registered(r, p) ==
  [x \in DOMAIN pumps \cup {r} |-> IF x = r THEN [pump |-> p, idle |-> 0] ELSE pumps[x]]

Unregistered(r) == [x \in DOMAIN pumps \ {r} |-> pumps[x]]

Touched(r) == IF IsActive(r) THEN [pumps EXCEPT ![r].idle = 0] ELSE pumps

\* What follows an "append unless the run is done".
AppendUnlessDone(r, e) ==
  IF IsDone(r) THEN UNCHANGED storeVars ELSE StoreAppend(r, e)

-----------------------------------------------------------------------------
(***************************************************************************)
(* start, for a run that has no entry                                      *)
(***************************************************************************)
\* Faulty variant of AtCapacity: one pump too many is let in.
AtCapacityOffByOne == Cardinality(DOMAIN pumps) > MaxPumps

AtCapacity == Cardinality(DOMAIN pumps) >= MaxPumps

\* The registration, below the cap.
Launch(r) ==
  /\ ~AtCapacity
  /\ \E p \in PumpId :
        /\ stream[p].phase = "unused"
        /\ pumps' = Registered(r, p)
        /\ stream' = [stream EXCEPT ![p] = [phase |-> "streaming", run |-> r,
                                            aborted |-> FALSE, frames |-> 0]]

\* The tail of the run handler, which is all that calls start: for a run id that
\* the gateway has just handed out, run.started is logged and the pump launched;
\* over the cap no pump is launched and the run is failed at once.
Start(r) ==
  /\ NeverPumped(r) /\ ~Has(r) /\ r \notin lost
  /\ \/ Launch(r) /\ StoreAppend(r, "run.started")
     \/ /\ AtCapacity
        /\ \E rs \in Ensured(r) :
             StoreStep([rs EXCEPT
               ![r] = Logged(Logged(rs[r], "run.started"), "run.failed")])
        /\ UNCHANGED <<pumps, stream>>
  /\ UNCHANGED approvalOpen

-----------------------------------------------------------------------------
(***************************************************************************)
(* The pump loop, one frame per step.                                      *)
(***************************************************************************)

\* signalApprovalPending and signalApprovalCleared, as the loop calls them.
SignalApproval(r, e) ==
  approvalOpen' = CASE e = "approval.request"   -> approvalOpen \cup {r}
                    [] e = "approval.responded" -> approvalOpen \ {r}
                    [] OTHER                    -> approvalOpen

\* One turn of the loop: touch, map, then broadcast, or signal and append.
\* The entry touched is the one now registered for the run, whoever owns it.
Frame(p, raw) ==
  LET r == stream[p].run
      e == MapGatewayEvent(raw)
  IN  /\ Streaming(p)
      /\ stream[p].frames < MaxFrames
      /\ stream' = [stream EXCEPT ![p].frames = @ + 1]
      /\ pumps' = Touched(r)
      /\ SignalApproval(r, e)
      /\ \/ e = Dropped /\ UNCHANGED storeVars
         \/ e = "run.heartbeat" /\ StoreBroadcast(r)
         \/ e \in LogEvents /\ StoreAppend(r, e)

\* Faulty variants of Finally: the entry, or the open gate, outlives the pump.
FinallyKeepsEntry(p) ==
  /\ stream' = [stream EXCEPT ![p].phase = "finished"]
  /\ pumps' = pumps
  /\ approvalOpen' = approvalOpen \ {stream[p].run}

FinallyKeepsGate(p) ==
  /\ stream' = [stream EXCEPT ![p].phase = "finished"]
  /\ pumps' = Unregistered(stream[p].run)
  /\ approvalOpen' = approvalOpen

\* The finally block.  It deletes the entry of its run, whoever owns it.
Finally(p) ==
  /\ stream' = [stream EXCEPT ![p].phase = "finished"]
  /\ pumps' = Unregistered(stream[p].run)
  /\ approvalOpen' = approvalOpen \ {stream[p].run}

\* Faulty variant of StreamEnd: a close without a terminal frame is accepted.
StreamEndSilently(p) ==
  /\ Streaming(p)
  /\ UNCHANGED storeVars
  /\ Finally(p)

\* The stream ends.  Without an abort the run must be done, or it has failed.
StreamEnd(p) ==
  /\ Streaming(p)
  /\ IF stream[p].aborted
     THEN UNCHANGED storeVars
     ELSE AppendUnlessDone(stream[p].run, "run.failed")
  /\ Finally(p)

\* The stream throws.  Without an abort a failure is logged, done or not.
StreamError(p) ==
  /\ Streaming(p)
  /\ IF stream[p].aborted
     THEN UNCHANGED storeVars
     ELSE StoreAppend(stream[p].run, "run.failed")
  /\ Finally(p)

-----------------------------------------------------------------------------
(***************************************************************************)
(* abort, the idle reaper, clearApproval and time.                         *)
(***************************************************************************)

\* Faulty variant of Cancel: the entry is dropped and the stream is left running.
CancelWithoutAbort(r, e) ==
  /\ AppendUnlessDone(r, e)
  /\ pumps' = Unregistered(r)
  /\ UNCHANGED <<stream, approvalOpen>>

\* Aborts the registered pump, makes the run terminal with event e unless it
\* already is, and drops the entry without waiting for the iteration to unwind.
Cancel(r, e) ==
  /\ stream' = [stream EXCEPT ![pumps[r].pump].aborted = TRUE]
  /\ AppendUnlessDone(r, e)
  /\ pumps' = Unregistered(r)
  /\ UNCHANGED approvalOpen

Abort(r) ==
  /\ IsActive(r)
  /\ Cancel(r, "run.cancelled")

\* Faulty variant of Stale: the reaper waits one tick longer than the window.
StaleTooLate(r) == IsActive(r) /\ pumps[r].idle > IdleTimeout + 1

\* The pump of r has been idle for longer than the window.
Stale(r) == IsActive(r) /\ pumps[r].idle > IdleTimeout

\* Faulty variant of Reap: a pump whose run is already over is left alone.
ReapUnlessDone(r) ==
  /\ Stale(r)
  /\ ~IsDone(r)
  /\ Cancel(r, "run.failed")

\* sweep, for one of the pumps it visits.
Reap(r) ==
  /\ Stale(r)
  /\ Cancel(r, "run.failed")

\* Called by the approval.respond handler once the gateway has accepted it.
ClearApproval(r) ==
  /\ r \in approvalOpen
  /\ approvalOpen' = approvalOpen \ {r}
  /\ UNCHANGED <<runs, lost, pumps, stream>>

\* Time passes for every run and every pump.  The reaper's interval is shorter
\* than a tick, so no tick goes by while a stale pump waits to be reaped.
Tick ==
  /\ \A r \in DOMAIN pumps : ~Stale(r)
  /\ pumps' = [r \in DOMAIN pumps |-> [pumps[r] EXCEPT !.idle = @ + 1]]
  /\ runs' = Aged
  /\ UNCHANGED <<lost, stream, approvalOpen>>

\* A socket resumes a pumped run whose log the store has dropped: subscribing
\* begins an empty one.
Rebegin(r) ==
  /\ IsActive(r)
  /\ ~Has(r)
  /\ StoreEnsure(r)
  /\ UNCHANGED <<pumps, stream, approvalOpen>>

\* The process dies and is started again: all of this was kept in memory.
Crash ==
  /\ StoreStep(NoRuns)
  /\ pumps' = NoPumps
  /\ stream' = [p \in PumpId |-> IF Streaming(p) THEN [stream[p] EXCEPT !.phase = "finished"]
                                                ELSE stream[p]]
  /\ approvalOpen' = {}

\* What is left of a stream after its run is over ends long before the retention
\* timer of the run (1 h) fires: an aborted fetch is torn down at once, a stream
\* that has fallen silent is reaped after 120 s.
Retired(r) ==
  /\ \A p \in PumpId : ~(Streaming(p) /\ stream[p].run = r)
  /\ EvictTerminal(r)

StoreTimer ==
  /\ \E r \in RunId : Retired(r) \/ SweepIdle(r)
  /\ UNCHANGED <<pumps, stream, approvalOpen>>

-----------------------------------------------------------------------------
ManagerInit ==
  /\ StoreInit
  /\ pumps = NoPumps
  /\ stream = [p \in PumpId |-> [phase |-> "unused", run |-> "none",
                                 aborted |-> FALSE, frames |-> 0]]
  /\ approvalOpen = {}

PumpStep(p) ==
  \/ \E raw \in RawFrames : Frame(p, raw)
  \/ StreamEnd(p)
  \/ StreamError(p)

ManagerNext ==
  \/ \E r \in RunId : Start(r) \/ Abort(r) \/ Reap(r) \/ ClearApproval(r) \/ Rebegin(r)
  \/ \E p \in PumpId : PumpStep(p)
  \/ StoreTimer
  \/ Tick
  \/ Crash

Spec == ManagerInit /\ [][ManagerNext]_managerVars

-----------------------------------------------------------------------------
TypeOK ==
  /\ StoreTypeOK
  /\ DOMAIN pumps \subseteq RunId
  /\ pumps \in [DOMAIN pumps -> [pump : PumpId, idle : 0 .. IdleTimeout + 1]]
  /\ stream \in [PumpId -> StreamState]
  /\ approvalOpen \subseteq RunId

(* No slot leaks (runManager.ts 247, 287-308, 333-345, 406-417): whatever     *)
(* order abort, the reaper and the end of a stream come in, an entry of pumps *)
(* belongs to an iteration that still runs for that run and is not aborted.   *)
EntryPointsAtLivePump ==
  \A r \in DOMAIN pumps : Drains(pumps[r].pump, r)

(* The reaper and Stop reach every live pump (runManager.ts 153, 293, 333): a *)
(* pump that was not aborted is the one registered for its run.               *)
EveryPumpIsWatched ==
  \A p \in PumpId :
    Streaming(p) /\ ~stream[p].aborted
      => IsActive(stream[p].run) /\ pumps[stream[p].run].pump = p

(* The capacity guard (runManager.ts 17-29, 245-263): the pumps that were not *)
(* aborted never outnumber maxConcurrentPumps, not even when entries are      *)
(* dropped early and taken again.                                             *)
LivePumpsBounded ==
  Cardinality({p \in PumpId : Streaming(p) /\ ~stream[p].aborted}) <= MaxPumps

(* No run is left open (runManager.ts 17-29, 310-331): a retained run without *)
(* a terminal event has a pump that will still give it one, unless its log    *)
(* was dropped by the store's own limits and begun again.                     *)
OpenRunIsDrained ==
  \A r \in DOMAIN runs \ lost :
    ~runs[r].done => \E p \in PumpId : Drains(p, r)

(* No badge without a run (runManager.ts 160-162, 412-415): a run announced   *)
(* as waiting for an approval still has a running iteration, so some step is  *)
(* left that withdraws the announcement.                                      *)
OpenGateHasPump ==
  \A r \in approvalOpen : \E p \in PumpId : Streaming(p) /\ stream[p].run = r

-----------------------------------------------------------------------------
(***************************************************************************)
(* The strengthening under which these invariants are inductive.           *)
(***************************************************************************)
\* Only a launch gives an iteration its run, and no run is launched twice.
OnePumpPerRun ==
  /\ \A p \in PumpId : stream[p].phase # "unused" => stream[p].run \in RunId
  /\ \A p \in PumpId : stream[p].aborted => stream[p].phase # "unused"
  /\ \A p, q \in PumpId :
       /\ stream[p].phase # "unused" /\ stream[q].phase # "unused"
       /\ stream[p].run = stream[q].run
       => p = q

\* A done run has logged something, so dropping it is remembered in lost.
DoneRunHasEvents == \A r \in DOMAIN runs : runs[r].done => runs[r].cursor > 0

\* Whoever aborts a pump makes its run terminal in the same step, so the frames
\* that still come after the abort cannot open the run again.
AbortedRunIsOver ==
  \A p \in PumpId :
    stream[p].aborted => stream[p].run \in lost \/ IsDone(stream[p].run)

Inductive ==
  /\ TypeOK
  /\ LogIsGapFree
  /\ DoneRunHasEvents
  /\ OnePumpPerRun
  /\ EntryPointsAtLivePump
  /\ EveryPumpIsWatched
  /\ OpenRunIsDrained
  /\ OpenGateHasPump
  /\ AbortedRunIsOver

-----------------------------------------------------------------------------
(* The socket-less-pump guard (runManager.ts 17-29): a registered pump leaves *)
(* the table, whatever its stream does, once the stream has gone silent.      *)
PumpedRunSettles ==
  \A r \in RunId : IsActive(r) ~> ~IsActive(r)

(* A "needs approval" announcement is withdrawn in the end, even when the run *)
(* is cancelled or wedged and nobody answers (runManager.ts 412-415).         *)
GateCloses ==
  \A r \in RunId : r \in approvalOpen ~> r \notin approvalOpen
=============================================================================
