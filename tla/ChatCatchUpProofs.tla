------------------------- MODULE ChatCatchUpProofs --------------------------
(***************************************************************************)
(* Nothing is lost: when the wire has gone quiet, a tab that follows an    *)
(* open run has everything the log of it holds.                            *)
(*                                                                         *)
(* ChatDeliveryProofs shows that the frames of a run x in flight reach     *)
(* from what the tab has to the end of the log while the tab's connection  *)
(* is subscribed to x.  What is left to show is that a tab whose run it    *)
(* takes for open is served: it is subscribed, or a resume is on its way,  *)
(* or the terminal event is in flight, which will tell it otherwise.  For  *)
(* that the terminal event of a run that is over must not lie behind the   *)
(* anchor of a tab that has not heard of it.                               *)
(*                                                                         *)
(* A socket over its cap drops its oldest subscription (chatRun.ts 187),   *)
(* also that of the run the tab follows.  The theorem is therefore about   *)
(* behaviours in which every socket has room for one more run at all       *)
(* times, and about all behaviours when the cap is no less than the number *)
(* of runs.                                                                *)
(*                                                                         *)
(* The second part is about cards: what the tab has been served also puts  *)
(* the gate that pauses its run on the screen.                             *)
(***************************************************************************)
EXTENDS ChatDeliveryProofs

-----------------------------------------------------------------------------
(***************************************************************************)
(* The inductive invariant, on top of Delivery.                            *)
(***************************************************************************)
\* The events of a log that was not cut are at the positions of their cursors.
EventAt(x, n) == runs[x].events[n].event

EndsAt(x, n) == EventAt(x, n) \in TerminalEvents

\* A log that is done, and not cut, holds a terminal event.
EndedLog(log) ==
  log.done /\ log.cursor <= MaxEvents
    => \E i \in 1 .. Len(log.events) : log.events[i].event \in TerminalEvents

EndedLogs == \A x \in DOMAIN runs : EndedLog(runs[x])

\* A frame in flight is what its log says.
TrueFrames(x) ==
  \A i \in 1 .. Len(down) : Holds(down, i, x) =>
    down[i].cursor <= runs[x].cursor /\ down[i].event = EventAt(x, down[i].cursor)

\* The terminal event of x is in flight.
EndInFlight(x) ==
  \E i \in 1 .. Len(down) : Holds(down, i, x) /\ down[i].event \in TerminalEvents

\* The tab will hear of everything that happens to x.
Served(x) == Tailed(x) \/ EndInFlight(x)

\* Whoever adopts x at its first event is served.
FirstIsServed(x) ==
  (\E i \in 1 .. Len(down) : Holds(down, i, x) /\ down[i].cursor = 1) => Served(x)

\* A resume of x is on its way.
Resumes(x) == \E i \in 1 .. Len(up) : IsResume(i) /\ up[i].run = x

\* The run of the tab.
FollowsWell(x) ==
  /\ \A i \in 1 .. Len(down) : Holds(down, i, x) => down[i].cursor > tab.cursor
  /\ ~tab.done =>
       /\ \A n \in 1 .. tab.cursor : ~EndsAt(x, n)
       /\ Online => Served(x) \/ Resumes(x)

Serves(x) == TrueFrames(x) /\ FirstIsServed(x) /\ (tab.run = x => FollowsWell(x))

Serving == EndedLogs /\ \A x \in RunId : Whole(x) => Serves(x)

\* Whichever run a socket subscribes to, its subscriptions to others may stay.
RoomForTails == \A s \in Socket : \A r \in RunId : Len(WithoutTail(tails[s], r)) < MaxTails

-----------------------------------------------------------------------------
(***************************************************************************)
(* Logs that are not cut.                                                  *)
(***************************************************************************)
LEMMA LoggedUncut ==
  ASSUME NEW s \in RunState, GapFree(s), NEW e \in LogEvents, s.cursor + 1 <= MaxEvents
  PROVE  /\ Len(s.events) = s.cursor
         /\ Len(Logged(s, e).events) = s.cursor + 1
         /\ \A n \in 1 .. s.cursor : Logged(s, e).events[n] = s.events[n]
         /\ Logged(s, e).events[s.cursor + 1].event = e
<1> DEFINE new == [cursor |-> s.cursor + 1, event |-> e]
           long == Append(s.events, new)
<1>1. s.events \in Seq(Event) /\ new \in Event /\ new.event = e /\ s.cursor \in Nat
  BY DEF RunState, Event
<1>2. Len(s.events) = s.cursor
  BY <1>1, RunStoreAssumption DEF GapFree, RunStoreAssumption
<1> HIDE DEF new
<1>3. /\ long \in Seq(Event)
      /\ Len(long) = s.cursor + 1
      /\ \A n \in 1 .. s.cursor : long[n] = s.events[n]
      /\ long[s.cursor + 1] = new
  BY <1>1, <1>2, AppendProperties
<1>4. Capped(long) = long
  BY <1>3 DEF Capped
<1>5. Logged(s, e).events = Capped(long)
  BY DEF Logged, new
<1> QED
  BY <1>1, <1>2, <1>3, <1>4, <1>5

LEMMA LoggedEndedLog ==
  ASSUME NEW s \in RunState, GapFree(s), EndedLog(s), NEW e \in LogEvents
  PROVE  EndedLog(Logged(s, e))
<1> DEFINE log == Logged(s, e)
<1>1. /\ s.cursor \in Nat
      /\ log.cursor = s.cursor + 1
      /\ log.done <=> s.done \/ e \in TerminalEvents
  BY LoggedEnds DEF RunState
<1> HIDE DEF log
<1> SUFFICES ASSUME log.done, log.cursor <= MaxEvents
             PROVE  \E i \in 1 .. Len(log.events) : log.events[i].event \in TerminalEvents
  BY DEF EndedLog, log
<1>2. /\ Len(s.events) = s.cursor
      /\ Len(log.events) = s.cursor + 1
      /\ \A n \in 1 .. s.cursor : log.events[n] = s.events[n]
      /\ log.events[s.cursor + 1].event = e
  BY <1>1, LoggedUncut DEF log
<1>3. CASE e \in TerminalEvents
  <2>1. s.cursor + 1 \in 1 .. Len(log.events)
    BY <1>1, <1>2
  <2> QED
    BY <1>2, <1>3, <2>1
<1>4. CASE s.done
  <2>1. s.cursor <= MaxEvents
    BY <1>1, RunStoreAssumption DEF RunStoreAssumption
  <2>2. PICK i \in 1 .. Len(s.events) : s.events[i].event \in TerminalEvents
    BY <1>4, <2>1 DEF EndedLog
  <2>3. i \in 1 .. Len(log.events) /\ log.events[i] = s.events[i]
    BY <1>1, <1>2, <2>2
  <2> QED
    BY <2>2, <2>3
<1> QED
  BY <1>1, <1>3, <1>4

LEMMA FreshEndedLog == EndedLog(FreshRun)
BY DEF EndedLog, FreshRun

LEMMA KeptEndedLogs ==
  ASSUME EndedLogs, LogsKept
  PROVE  EndedLogs'
BY DEF EndedLogs, EndedLog, LogsKept, SameLog

LEMMA MovedEndedLogs ==
  ASSUME EndedLogs, NEW r, OnlyLog(r), r \in DOMAIN runs' => EndedLog(runs'[r])
  PROVE  EndedLogs'
BY DEF EndedLogs, EndedLog, OnlyLog, SameLog

LEMMA GrownEndedLogs ==
  ASSUME StoreInv, EndedLogs, NEW r, OnlyLog(r), NEW e \in LogEvents, Extends(r, e)
  PROVE  EndedLogs'
<1>1. Base(r) \in RunState /\ GapFree(Base(r))
  BY BaseIsALog
<1>2. EndedLog(Base(r))
  BY FreshEndedLog DEF EndedLogs, Base, Has
<1>3. EndedLog(Logged(Base(r), e))
  BY <1>1, <1>2, LoggedEndedLog
<1> QED
  BY <1>3, MovedEndedLogs DEF Extends

LEMMA StartedEndedLogs ==
  ASSUME EndedLogs, NEW r, Start(r)
  PROVE  EndedLogs'
<1>1. {"run.started", "run.failed"} \subseteq LogEvents
  BY DEF LogEvents, TerminalEvents
<1> DEFINE one == Logged(FreshRun, "run.started")
<1>2. one \in RunState /\ GapFree(one) /\ EndedLog(one)
  BY <1>1, FreshIsALog, FreshEndedLog, LoggedIsGapFree, LoggedEndedLog
<1> HIDE DEF one
<1>3. EndedLog(Logged(one, "run.failed"))
  BY <1>1, <1>2, LoggedEndedLog
<1> QED
  BY <1>2, <1>3, StartMoves, MovedEndedLogs DEF one

(* A log that is done, and not cut, holds a terminal event.                *)
LEMMA ManagerKeepsEnds ==
  ASSUME Inductive, EndedLogs, [ManagerNext]_managerVars
  PROVE  EndedLogs'
<1>0. StoreInv /\ StoreTypeOK
  BY StoreOfInductive DEF StoreInv
<1>1. CASE UNCHANGED managerVars
  BY <1>1, SameManagerMoves, KeptEndedLogs
<1>2. ASSUME NEW r \in RunId, Start(r)
      PROVE  EndedLogs'
  BY <1>2, StartedEndedLogs
<1>3. ASSUME NEW r \in RunId, Abort(r) \/ Reap(r)
      PROVE  EndedLogs'
  BY <1>0, <1>3, CancelMoves, KeptEndedLogs, GrownEndedLogs
<1>4. ASSUME NEW r \in RunId, ClearApproval(r)
      PROVE  EndedLogs'
  BY <1>4 DEF ClearApproval, EndedLogs, EndedLog
<1>5. ASSUME NEW r \in RunId, Rebegin(r)
      PROVE  EndedLogs'
  BY <1>5, RebeginMoves, FreshEndedLog, MovedEndedLogs
<1>6. ASSUME NEW p \in PumpId, PumpStep(p)
      PROVE  EndedLogs'
  BY <1>0, <1>6, PumpMoves, KeptEndedLogs, GrownEndedLogs
<1>7. CASE StoreTimer \/ Tick
  BY <1>0, <1>7, TimeMoves, KeptEndedLogs
<1>8. CASE Crash
  <2>1. DOMAIN runs' = {}
    BY <1>8 DEF Crash, StoreStep, NoRuns
  <2> QED
    BY <2>1 DEF EndedLogs
<1> QED
  BY <1>1, <1>2, <1>3, <1>4, <1>5, <1>6, <1>7, <1>8 DEF ManagerNext

\* The events of a whole log stay where they are.
SameEvents(x) ==
  /\ runs[x].cursor \in Nat /\ runs'[x].cursor \in Nat
  /\ runs[x].cursor <= runs'[x].cursor
  /\ \A n \in 1 .. runs[x].cursor : EventAt(x, n)' = EventAt(x, n)

LEMMA WholeLog ==
  ASSUME StoreInv, NEW x, Whole(x)
  PROVE  /\ runs[x] \in RunState /\ runs[x].cursor \in Nat /\ GapFree(runs[x])
         /\ runs[x].events \in Seq(Event)
         /\ Len(runs[x].events) = runs[x].cursor
         /\ \A n \in 1 .. runs[x].cursor : runs[x].events[n].cursor = n
<1>1. runs[x] \in RunState /\ GapFree(runs[x])
  BY DEF StoreInv, StoreTypeOK, LogIsGapFree, Whole, Has
<1>2. runs[x].cursor \in Nat /\ runs[x].events \in Seq(Event)
  BY <1>1 DEF RunState, Event
<1>3. Len(runs[x].events) = runs[x].cursor
  BY <1>1, <1>2, RunStoreAssumption DEF GapFree, RunStoreAssumption, Whole
<1>4. \A n \in 1 .. runs[x].cursor : runs[x].events[n].cursor = n
  <2> TAKE n \in 1 .. runs[x].cursor
  <2>1. runs[x].events[n].cursor = runs[x].cursor - runs[x].cursor + n
    BY <1>1, <1>3 DEF GapFree
  <2> QED
    BY <1>2, <2>1
<1> QED
  BY <1>1, <1>2, <1>3, <1>4

LEMMA SameLogEvents ==
  ASSUME StoreInv, LostLogs, NEW x, SameLog(x), Whole(x)'
  PROVE  SameEvents(x) /\ Whole(x) /\ runs'[x].cursor = runs[x].cursor
<1>1. Whole(x) /\ runs'[x].cursor = runs[x].cursor /\ runs'[x].events = runs[x].events
  BY SameWhole
<1>2. runs[x].cursor \in Nat
  BY <1>1, WholeLog
<1> QED
  BY <1>1, <1>2 DEF SameEvents, EventAt

LEMMA GrownEvents ==
  ASSUME StoreInv, LostLogs, NEW r, Known(r), NEW e \in LogEvents, Extends(r, e), Whole(r)'
  PROVE  /\ SameEvents(r) /\ Whole(r)
         /\ runs'[r].cursor = runs[r].cursor + 1
         /\ runs'[r].events[runs[r].cursor + 1].event = e
<1>1. Whole(r) /\ runs'[r].cursor = runs[r].cursor + 1
  BY GrownWhole
<1>2. runs[r] \in RunState /\ GapFree(runs[r]) /\ runs[r].cursor \in Nat
  BY <1>1, WholeLog
<1>3. runs'[r] = Logged(runs[r], e)
  BY <1>1 DEF Extends, Base, Whole
<1>4. runs[r].cursor + 1 <= MaxEvents
  BY <1>1 DEF Whole
<1>5. /\ \A n \in 1 .. runs[r].cursor : runs'[r].events[n] = runs[r].events[n]
      /\ runs'[r].events[runs[r].cursor + 1].event = e
  BY <1>2, <1>3, <1>4, LoggedUncut
<1> QED
  BY <1>1, <1>2, <1>5 DEF SameEvents, EventAt

-----------------------------------------------------------------------------
(***************************************************************************)
(* Subscriptions that stay.                                                *)
(***************************************************************************)
HasTail(ts, x) == \E k \in 1 .. Len(ts) : ts[k].live /\ ts[k].run = x

LEMMA TailedIs == \A x : Tailed(x) <=> \E s \in Socket : IsOpen(s) /\ HasTail(tails[s], x)
BY DEF Tailed, HasTail

LEMMA TailedNextIs ==
  \A x : Tailed(x)' <=> \E s \in Socket : IsOpen(s)' /\ HasTail(tails'[s], x)
BY DEF Tailed, HasTail

LEMMA RetainedKeepsTail ==
  ASSUME NEW ts \in Seq(TailState), NEW x \in DOMAIN runs', HasTail(ts, x)
  PROVE  HasTail(Retained(ts), x)
BY RetainedTails DEF HasTail

LEMMA PickedTailStays ==
  ASSUME NEW ts \in Seq(TailState), NEW I \in SUBSET DOMAIN ts, NEW x,
         NEW i \in I, ts[i].live, ts[i].run = x
  PROVE  HasTail(Subsequence(ts, I), x)
BY SubsequenceKeeps DEF HasTail

(* A terminal event takes no subscriptions but those of its run.           *)
LEMMA NotifyKeepsTail ==
  ASSUME NEW s, tails[s] \in Seq(TailState), NEW x \in DOMAIN runs', HasTail(tails[s], x),
         NEW r, x = r => ~HasTerminal(News(r))
  PROVE  HasTail(TailsAfter(s, r), x)
<1> DEFINE I == DOMAIN tails[s] \ LiveTails(s, r)
           ts == IF HasTerminal(News(r)) THEN Subsequence(tails[s], I) ELSE tails[s]
<1>1. I \in SUBSET DOMAIN tails[s] /\ DOMAIN tails[s] = 1 .. Len(tails[s])
  BY LenProperties
<1>2. TailsAfter(s, r) = Retained(ts)
  BY DEF TailsAfter, HasTerminal
<1>3. CASE HasTerminal(News(r))
  <2>1. PICK i \in 1 .. Len(tails[s]) : tails[s][i].live /\ tails[s][i].run = x
    BY DEF HasTail
  <2>2. i \in I
    BY <1>1, <1>3, <2>1 DEF LiveTails
  <2>3. ts = Subsequence(tails[s], I)
    BY <1>3
  <2> HIDE DEF ts, I
  <2>4. ts \in Seq(TailState) /\ HasTail(ts, x)
    BY <1>1, <2>1, <2>2, <2>3, PickedTailStays, SubsequenceOf
  <2> QED
    BY <1>2, <2>4, RetainedKeepsTail
<1>4. CASE ~HasTerminal(News(r))
  <2>1. ts = tails[s]
    BY <1>4
  <2> QED
    BY <1>2, <2>1, RetainedKeepsTail
<1> QED
  BY <1>3, <1>4

LEMMA WithoutTailKeeps ==
  ASSUME NEW ts \in Seq(TailState), NEW r, NEW x, x # r, HasTail(ts, x)
  PROVE  HasTail(WithoutTail(ts, r), x)
<1> DEFINE I == {i \in DOMAIN ts : ts[i].run # r}
<1>1. PICK i \in 1 .. Len(ts) : ts[i].live /\ ts[i].run = x
  BY DEF HasTail
<1>2. I \in SUBSET DOMAIN ts /\ i \in I
  BY <1>1, LenProperties
<1>3. WithoutTail(ts, r) = Subsequence(ts, I)
  BY DEF WithoutTail
<1> HIDE DEF I
<1> QED
  BY <1>1, <1>2, <1>3, PickedTailStays

\* Within the cap nothing is dropped.
LEMMA KeptWithinTheCap ==
  ASSUME NEW ts \in Seq(TailState), Len(ts) <= MaxTails
  PROVE  Kept(ts) = ts
<1>1. Len(ts) \in Nat /\ MaxTails \in Nat \ {0} /\ \A i \in 1 .. Len(ts) : ts[i] \in TailState
  BY ElementOfSeq, LenProperties, ChatRunAssumption DEF ChatRunAssumption
<1>2. Kept(ts) = SubSeq(ts, 1, Len(ts))
  BY <1>1 DEF Kept
<1>3. /\ SubSeq(ts, 1, Len(ts)) \in Seq(TailState)
      /\ Len(SubSeq(ts, 1, Len(ts))) = Len(ts)
      /\ \A i \in 1 .. Len(ts) : SubSeq(ts, 1, Len(ts))[i] = ts[i]
  <2>1. /\ SubSeq(ts, 1, Len(ts)) \in Seq(TailState)
        /\ Len(SubSeq(ts, 1, Len(ts))) = IF 1 <= Len(ts) THEN Len(ts) - 1 + 1 ELSE 0
        /\ \A i \in 1 .. Len(ts) - 1 + 1 : SubSeq(ts, 1, Len(ts))[i] = ts[1 + i - 1]
    BY <1>1, SubSeqProperties
  <2>2. Len(ts) - 1 + 1 = Len(ts) /\ \A i \in 1 .. Len(ts) : 1 + i - 1 = i
    BY <1>1
  <2>3. Len(SubSeq(ts, 1, Len(ts))) = Len(ts)
    BY <1>1, <2>1
  <2> QED
    BY <2>1, <2>2, <2>3
<1> QED
  BY <1>2, <1>3, SeqEqual

LEMMA ReplayGateIsTyped ==
  ASSUME StoreTypeOK', NEW r, r \in DOMAIN runs', NEW k \in Nat
  PROVE  ReplayGate(runs'[r], k) \in Nat
<1> DEFINE replay == After(runs'[r].events, k)
<1>1. runs'[r].events \in Seq(Event)
  BY DEF StoreTypeOK, RunState, Event
<1>2. replay \in Seq(Event)
  BY <1>1, AfterIsTyped
<1> HIDE DEF replay
<1>3. ASSUME replay # << >> PROVE Last(replay).cursor \in Nat
  <2>1. Len(replay) \in 1 .. Len(replay)
    BY <1>2, <1>3, EmptySeq, LenProperties
  <2>2. replay[Len(replay)] \in Event
    BY <1>2, <2>1, ElementOfSeq
  <2> QED
    BY <2>2 DEF Last, Event
<1> QED
  BY <1>3 DEF ReplayGate, replay

(* Within the cap a subscription to r leaves the others, and is made if    *)
(* the run is open.                                                        *)
LEMMA AttachKeepsTails ==
  ASSUME StoreTypeOK', tails \in [Socket -> Seq(TailState)], NEW s \in Socket,
         NEW r \in RunId, r \in DOMAIN runs', NEW k \in Nat, Attach(s, r, k),
         Len(WithoutTail(tails[s], r)) < MaxTails
  PROVE  /\ \A x \in DOMAIN runs' : \A z \in Socket :
              x # r /\ HasTail(tails[z], x) => HasTail(tails'[z], x)
         /\ ~runs'[r].done => HasTail(tails'[s], r)
<1> DEFINE gate == ReplayGate(runs'[r], k)
           others == WithoutTail(tails[s], r)
           new == [run |-> r, gate |-> gate, live |-> TRUE]
           added == IF runs'[r].done THEN others ELSE Append(others, new)
<1>1. gate \in Nat
  BY ReplayGateIsTyped
<1>2. tails' = [z \in Socket |-> Retained(IF z = s THEN Kept(added) ELSE tails[z])]
  BY DEF Attach, Kept, ReplayGate
<1>3. others \in Seq(TailState) /\ Len(others) \in Nat
  BY OtherTails, LenProperties
<1>4. new \in TailState /\ new.live /\ new.run = r
  BY <1>1 DEF TailState
<1> HIDE DEF gate, others, new
<1>5. /\ Append(others, new) \in Seq(TailState)
      /\ Len(Append(others, new)) = Len(others) + 1
      /\ \A i \in 1 .. Len(others) : Append(others, new)[i] = others[i]
      /\ Append(others, new)[Len(others) + 1] = new
  BY <1>3, <1>4, AppendProperties
<1>6. added \in Seq(TailState)
  BY <1>3, <1>5
<1>t. Len(added) <= MaxTails
  <2>1. Len(others) < MaxTails /\ MaxTails \in Nat
    BY ChatRunAssumption DEF others, ChatRunAssumption
  <2> QED
    BY <1>3, <1>5, <2>1
<1>7. \A x : x # r /\ HasTail(tails[s], x) => HasTail(added, x)
  <2> SUFFICES ASSUME NEW x, x # r, HasTail(tails[s], x) PROVE HasTail(added, x)
    OBVIOUS
  <2>1. HasTail(others, x)
    BY WithoutTailKeeps DEF others
  <2>2. HasTail(Append(others, new), x)
    <3>1. PICK i \in 1 .. Len(others) : others[i].live /\ others[i].run = x
      BY <2>1 DEF HasTail
    <3>2. i \in 1 .. Len(Append(others, new))
      BY <1>3, <1>5, <3>1
    <3> QED
      BY <1>5, <3>1, <3>2 DEF HasTail
  <2> QED
    BY <2>1, <2>2
<1>8. ~runs'[r].done => HasTail(added, r)
  <2> SUFFICES ASSUME ~runs'[r].done PROVE HasTail(added, r)
    OBVIOUS
  <2>1. Len(others) + 1 \in 1 .. Len(Append(others, new))
    BY <1>3, <1>5
  <2>2. HasTail(Append(others, new), r)
    BY <1>4, <1>5, <2>1 DEF HasTail
  <2> QED
    BY <2>2
<1> HIDE DEF added
<1>9. Kept(added) = added
  BY <1>6, <1>t, KeptWithinTheCap
<1>10. tails'[s] = Retained(added) /\ \A z \in Socket : z # s => tails'[z] = Retained(tails[z])
  BY <1>2, <1>9
<1>11. \A x \in DOMAIN runs' : \A z \in Socket :
         x # r /\ HasTail(tails[z], x) => HasTail(tails'[z], x)
  <2> SUFFICES ASSUME NEW x \in DOMAIN runs', NEW z \in Socket, x # r, HasTail(tails[z], x)
               PROVE  HasTail(tails'[z], x)
    OBVIOUS
  <2>1. CASE z = s
    BY <1>6, <1>7, <1>10, <2>1, RetainedKeepsTail
  <2>2. CASE z # s
    BY <1>10, <2>2, RetainedKeepsTail
  <2> QED
    BY <2>1, <2>2
<1> QED
  BY <1>6, <1>8, <1>10, <1>11, RetainedKeepsTail

-----------------------------------------------------------------------------
(***************************************************************************)
(* What a step does to the frames of one run.                              *)
(***************************************************************************)
LEMMA NamedFramesCount ==
  ASSUME NEW d \in Seq(NamedFrame), NEW i \in 1 .. Len(d)
  PROVE  d[i].cursor \in Nat
<1>1. d[i] \in NamedFrame
  BY ElementOfSeq
<1> QED
  BY <1>1 DEF NamedFrame, WireFrame

\* What was in flight is, and the logged events of x that come behind it are newer
\* than cursor k, and true.
Adds(x, k) ==
  /\ \A i \in 1 .. Len(down) : i \in 1 .. Len(down') /\ down'[i] = down[i]
  /\ \A i \in 1 .. Len(down') : Holds(down', i, x) =>
       \/ i \in 1 .. Len(down) /\ down'[i] = down[i]
       \/ /\ k < down'[i].cursor /\ down'[i].cursor <= runs'[x].cursor
          /\ down'[i].event = runs'[x].events[down'[i].cursor].event

LEMMA AddsNothing ==
  ASSUME down' = down, NEW x, NEW k
  PROVE  Adds(x, k)
BY DEF Adds

LEMMA AddsOthers ==
  ASSUME down \in Seq(NamedFrame), NEW e \in Seq(NamedFrame), down' = down \o e,
         NEW x, Lacks(e, x), NEW k
  PROVE  Adds(x, k)
<1>1. \A i \in 1 .. Len(down) : i \in 1 .. Len(down') /\ down'[i] = down[i]
  BY JoinedFrames
<1>2. ASSUME NEW i \in 1 .. Len(down'), Holds(down', i, x)
      PROVE  i \in 1 .. Len(down) /\ down'[i] = down[i]
  <2>1. \/ i \in 1 .. Len(down) /\ down'[i] = down[i]
        \/ i - Len(down) \in 1 .. Len(e) /\ down'[i] = e[i - Len(down)]
    BY JoinedFrames
  <2> QED
    BY <1>2, <2>1 DEF Lacks, Holds
<1> QED
  BY <1>1, <1>2 DEF Adds

\* The logged events of x among frames e are newer than cursor k, and true.
NewAndTrue(e, x, k) ==
  \A i \in 1 .. Len(e) : Holds(e, i, x) =>
    /\ k < e[i].cursor /\ e[i].cursor <= runs'[x].cursor
    /\ e[i].event = runs'[x].events[e[i].cursor].event

LEMMA AddsTrueOnes ==
  ASSUME down \in Seq(NamedFrame), NEW e \in Seq(NamedFrame), down' = down \o e, NEW x, NEW k,
         NewAndTrue(e, x, k)
  PROVE  Adds(x, k)
<1>1. \A i \in 1 .. Len(down) : i \in 1 .. Len(down') /\ down'[i] = down[i]
  BY JoinedFrames
<1>2. ASSUME NEW i \in 1 .. Len(down'), Holds(down', i, x)
      PROVE  \/ i \in 1 .. Len(down) /\ down'[i] = down[i]
             \/ /\ k < down'[i].cursor /\ down'[i].cursor <= runs'[x].cursor
                /\ down'[i].event = runs'[x].events[down'[i].cursor].event
  <2>1. \/ i \in 1 .. Len(down) /\ down'[i] = down[i]
        \/ i - Len(down) \in 1 .. Len(e) /\ down'[i] = e[i - Len(down)]
    BY JoinedFrames
  <2> QED
    BY <1>2, <2>1 DEF Holds, NewAndTrue
<1> QED
  BY <1>1, <1>2 DEF Adds

\* A step that leaves the log of x its events, and the connection its subscription
\* unless it sends the terminal event.
Passes(x) ==
  Whole(x)' => Whole(x) /\ SameEvents(x) /\ Adds(x, runs[x].cursor) /\ (Tailed(x) => Served(x)')

LEMMA PassedStaysServed ==
  ASSUME NEW x, Passes(x), Whole(x)', Served(x)
  PROVE  Served(x)'
<1>1. CASE Tailed(x)
  BY <1>1 DEF Passes
<1>2. CASE EndInFlight(x)
  <2>1. PICK i \in 1 .. Len(down) : Holds(down, i, x) /\ down[i].event \in TerminalEvents
    BY <1>2 DEF EndInFlight
  <2>2. i \in 1 .. Len(down') /\ down'[i] = down[i]
    BY <2>1 DEF Passes, Adds
  <2> QED
    BY <2>1, <2>2 DEF Served, EndInFlight, Holds
<1> QED
  BY <1>1, <1>2 DEF Served

(* A step that passes x by, and leaves the tab, keeps x served.            *)
LEMMA PassingServes ==
  ASSUME down \in Seq(NamedFrame), KnownLogs, tab \in NamedTab, tab' = tab,
         down' \in Seq(NamedFrame), NEW x, Whole(x)', Passes(x), Serves(x), Online' => Online,
         tab.run = x => tab.cursor <= runs[x].cursor,
         Resumes(x) => Resumes(x)' \/ Served(x)'
  PROVE  Serves(x)'
<1>0. /\ Whole(x) /\ runs[x].cursor \in Nat /\ runs'[x].cursor \in Nat
      /\ runs[x].cursor <= runs'[x].cursor
      /\ \A n \in 1 .. runs[x].cursor : runs'[x].events[n].event = runs[x].events[n].event
      /\ Adds(x, runs[x].cursor)
      /\ tab.cursor \in Nat
  BY DEF Passes, SameEvents, EventAt, NamedTab, TabState
<1>1. runs[x].cursor > 0
  BY <1>0 DEF KnownLogs, Whole, Has
<1>2. Served(x) => Served(x)'
  BY PassedStaysServed
<1>3. ASSUME NEW i \in 1 .. Len(down'), Holds(down', i, x)
      PROVE  \/ i \in 1 .. Len(down) /\ down'[i] = down[i] /\ Holds(down, i, x)
             \/ /\ runs[x].cursor < down'[i].cursor /\ down'[i].cursor <= runs'[x].cursor
                /\ down'[i].event = runs'[x].events[down'[i].cursor].event
  BY <1>0, <1>3 DEF Adds, Holds
<1>4. \A i \in 1 .. Len(down) : down[i].cursor \in Nat
  BY NamedFramesCount
<1>5. TrueFrames(x)'
  <2> SUFFICES ASSUME NEW i \in 1 .. Len(down'), Holds(down', i, x)
               PROVE  /\ down'[i].cursor <= runs'[x].cursor
                      /\ down'[i].event = runs'[x].events[down'[i].cursor].event
    BY DEF TrueFrames, EventAt, Holds
  <2>1. CASE i \in 1 .. Len(down) /\ down'[i] = down[i] /\ Holds(down, i, x)
    <3>1. /\ down[i].cursor \in 1 .. runs[x].cursor
          /\ down[i].event = runs[x].events[down[i].cursor].event
      BY <1>0, <1>4, <2>1 DEF Serves, TrueFrames, EventAt, Holds
    <3> QED
      BY <1>0, <2>1, <3>1
  <2> QED
    BY <1>3, <2>1
<1>6. FirstIsServed(x)'
  <2> SUFFICES ASSUME NEW i \in 1 .. Len(down'), Holds(down', i, x), down'[i].cursor = 1
               PROVE  Served(x)'
    BY DEF FirstIsServed, Holds
  <2>1. i \in 1 .. Len(down) /\ down'[i] = down[i] /\ Holds(down, i, x)
    BY <1>0, <1>1, <1>3
  <2> QED
    BY <1>2, <2>1 DEF Serves, FirstIsServed
<1>7. ASSUME tab.run = x
      PROVE  FollowsWell(x)'
  <2>1. FollowsWell(x) /\ tab.cursor <= runs[x].cursor
    BY <1>7 DEF Serves
  <2>2. \A i \in 1 .. Len(down') : Holds(down', i, x) => down'[i].cursor > tab.cursor
    <3> TAKE i \in 1 .. Len(down')
    <3> HAVE Holds(down', i, x)
    <3>1. CASE i \in 1 .. Len(down) /\ down'[i] = down[i] /\ Holds(down, i, x)
      BY <2>1, <3>1 DEF FollowsWell
    <3>2. CASE runs[x].cursor < down'[i].cursor /\ down'[i].cursor <= runs'[x].cursor
      <4>1. down'[i].cursor \in Nat
        BY NamedFramesCount
      <4> QED
        BY <1>0, <2>1, <3>2, <4>1
    <3> QED
      BY <1>3, <3>1, <3>2
  <2>3. ASSUME ~tab.done
        PROVE  \A n \in 1 .. tab.cursor : runs'[x].events[n].event \notin TerminalEvents
    <3> TAKE n \in 1 .. tab.cursor
    <3>1. n \in 1 .. runs[x].cursor
      BY <1>0, <2>1
    <3>2. runs[x].events[n].event \notin TerminalEvents
      BY <2>1, <2>3 DEF FollowsWell, EndsAt, EventAt
    <3> QED
      BY <1>0, <3>1, <3>2
  <2>4. ASSUME ~tab.done, Online'
        PROVE  Served(x)' \/ Resumes(x)'
    BY <1>2, <2>1, <2>4 DEF FollowsWell
  <2> QED
    BY <2>2, <2>3, <2>4 DEF FollowsWell, EndsAt, EventAt, Holds
<1> QED
  BY <1>5, <1>6, <1>7 DEF Serves

(* A subscription from k keeps x served: it sends what the anchor of the   *)
(* tab has not reached, the terminal event included, or tails the log.     *)
LEMMA SubscribingServes ==
  ASSUME tab \in NamedTab, tab' = tab, down' \in Seq(NamedFrame),
         NEW x, Whole(x)', NEW k \in Nat, Lacks(down, x), Adds(x, k),
         (\A n \in 1 .. k : runs'[x].events[n].event \notin TerminalEvents) => Served(x)',
         tab.run = x => /\ k = tab.cursor
                        /\ Serves(x)
                        /\ \A n \in 1 .. k : runs'[x].events[n].event = runs[x].events[n].event
  PROVE  Serves(x)'
<1>1. \A i \in 1 .. Len(down') : Holds(down', i, x) =>
        /\ k < down'[i].cursor /\ down'[i].cursor <= runs'[x].cursor
        /\ down'[i].event = runs'[x].events[down'[i].cursor].event
        /\ down'[i].cursor \in Nat
  BY NamedFramesCount DEF Lacks, Adds, Holds
<1>2. TrueFrames(x)'
  BY <1>1 DEF TrueFrames, EventAt, Holds
<1>3. FirstIsServed(x)'
  <2> SUFFICES ASSUME NEW i \in 1 .. Len(down'), Holds(down', i, x), down'[i].cursor = 1
               PROVE  Served(x)'
    BY DEF FirstIsServed, Holds
  <2>1. k = 0
    BY <1>1
  <2> QED
    BY <2>1
<1>4. ASSUME tab.run = x
      PROVE  FollowsWell(x)'
  <2>1. FollowsWell(x) /\ k = tab.cursor
    BY <1>4 DEF Serves
  <2>2. \A i \in 1 .. Len(down') : Holds(down', i, x) => down'[i].cursor > tab.cursor
    BY <1>1, <2>1
  <2>3. ~tab.done => \A n \in 1 .. tab.cursor : runs'[x].events[n].event \notin TerminalEvents
    BY <1>4, <2>1 DEF FollowsWell, EndsAt, EventAt
  <2> QED
    BY <2>1, <2>2, <2>3 DEF FollowsWell, EndsAt, EventAt, Holds
<1> QED
  BY <1>2, <1>3, <1>4 DEF Serves

-----------------------------------------------------------------------------
(***************************************************************************)
(* The steps of the server.                                                *)
(***************************************************************************)
\* A step after which every log is as it was, and nothing logged is sent.
LEMMA QuietStepPasses ==
  ASSUME StoreInv, LogsKept, down \in Seq(NamedFrame),
         NEW e \in Seq(NamedFrame), Transients(e), down' = down \/ down' = down \o e,
         NEW x, Tailed(x) /\ x \in DOMAIN runs' => Tailed(x)'
  PROVE  Passes(x)
<1> SUFFICES ASSUME Whole(x)'
             PROVE  /\ Whole(x) /\ SameEvents(x) /\ Adds(x, runs[x].cursor)
                    /\ Tailed(x) => Served(x)'
  BY DEF Passes
<1>1. Whole(x) /\ SameEvents(x)
  BY SameLogEvents DEF LogsKept
<1>2. Adds(x, runs[x].cursor)
  BY TransientsLack, AddsNothing, AddsOthers
<1>3. x \in DOMAIN runs'
  BY DEF Whole, Has
<1> QED
  BY <1>1, <1>2, <1>3 DEF Served

LEMMA EmitPasses ==
  ASSUME StoreInv, UNCHANGED managerVars, tails' = tails, link' = link, down \in Seq(NamedFrame),
         NEW s, NEW e \in Seq(NamedFrame), Transients(e), down' = down \/ Emit(s, e), NEW x
  PROVE  Passes(x)
<1>1. LogsKept
  BY SameManagerMoves
<1>2. Tailed(x)' <=> Tailed(x)
  BY DEF Tailed, IsOpen
<1>3. down' = down \/ down' = down \o e
  BY DEF Emit
<1> QED
  BY <1>1, <1>2, <1>3, QuietStepPasses

LEMMA HeardLacks ==
  ASSUME StoreInv, StoreTypeOK', NEW r \in RunId, NEW s,
         Appends(r, LogEvents \ {"run.started"}), NEW x, x # r \/ LogsKept
  PROVE  Heard(s, r) \in Seq(NamedFrame) /\ Lacks(Heard(s, r), x)
<1>1. Heard(s, r) \in Seq(NamedFrame)
  BY HeardIsNews
<1>2. CASE x # r
  <2>1. \A i \in 1 .. Len(Heard(s, r)) : Heard(s, r)[i].run = r
    BY HeardIsNews
  <2> QED
    BY <1>1, <1>2, <2>1 DEF Lacks, Holds
<1>3. CASE LogsKept
  <2>1. Heard(s, r) = << >>
    BY <1>3, HeardIsNews
  <2> QED
    BY <1>1, <2>1, EmptySeq DEF Lacks
<1> QED
  BY <1>2, <1>3, <1>1

(* The step is heard by every follower of r: it appends at most one event, *)
(* which goes behind the frames of r, and takes the subscriptions of r     *)
(* only if it is the terminal one.                                         *)
LEMMA NotifyPasses ==
  ASSUME ChatInductive, ChatInductive', KnownLogs, Connections, SoundGates,
         NEW r \in RunId, NEW t, NEW early \in Seq(NamedFrame), Transients(early),
         Notify(r, t, early), link' = link,
         Appends(r, LogEvents \ {"run.started"}), ~LogsKept => Known(r), NEW x
  PROVE  Passes(x)
<1>0. /\ StoreInv /\ StoreTypeOK /\ StoreTypeOK'
      /\ tails \in [Socket -> Seq(TailState)] /\ down \in Seq(NamedFrame)
  BY StoreOfInductive DEF ChatInductive, TypeInv, TypeOK
<1> SUFFICES ASSUME Whole(x)'
             PROVE  /\ Whole(x) /\ SameEvents(x) /\ Adds(x, runs[x].cursor)
                    /\ Tailed(x) => Served(x)'
  BY DEF Passes
<1>1. x \in DOMAIN runs' /\ LostLogs
  BY DEF Whole, Has, Appends, LogsKept, OnlyLog
<1>2. \A s \in Socket : tails'[s] = TailsAfter(s, r) /\ (IsOpen(s)' <=> IsOpen(s))
  BY DEF Notify, IsOpen
<1>3. Tailed(x) /\ (x = r => ~HasTerminal(News(r))) => Tailed(x)'
  <2> SUFFICES ASSUME Tailed(x), x = r => ~HasTerminal(News(r)) PROVE Tailed(x)'
    OBVIOUS
  <2>1. PICK s \in Socket : IsOpen(s) /\ HasTail(tails[s], x)
    BY TailedIs
  <2>2. tails[s] \in Seq(TailState)
    BY <1>0
  <2>3. HasTail(TailsAfter(s, r), x)
    BY <1>1, <2>1, <2>2, NotifyKeepsTail
  <2> QED
    BY <1>2, <2>1, <2>3, TailedNextIs
<1>4. \/ ~Online /\ down' = down
      \/ \E s \in Socket : \E e \in Seq(NamedFrame) :
           /\ IsOpen(s) /\ Transients(e) /\ down' = (down \o e) \o Heard(s, r)
  <2>1. CASE ~Online /\ down' = down
    BY <2>1
  <2>2. CASE \E s \in Socket : \E d \in Seq(NamedFrame) :
               /\ IsOpen(s)
               /\ down' = d \o Heard(s, r)
               /\ \E e \in Seq(NamedFrame) : Transients(e) /\ d = down \o e
    BY <2>2
  <2> QED
    BY <1>0, <2>1, <2>2, FramesOfNotify
<1>5. CASE x # r \/ LogsKept
  <2>1. SameLog(x)
    BY <1>5 DEF Appends, LogsKept, OnlyLog
  <2>2. Whole(x) /\ SameEvents(x)
    BY <1>0, <1>1, <2>1, SameLogEvents
  <2>3. Tailed(x) => Tailed(x)'
    <3>1. x = r => ~HasTerminal(News(r))
      BY <1>0, <1>5, NoNews DEF HasTerminal, LogsKept
    <3> QED
      BY <1>3, <3>1
  <2>4. Adds(x, runs[x].cursor)
    <3>1. CASE down' = down
      BY <3>1, AddsNothing
    <3>2. ASSUME NEW s \in Socket, NEW e \in Seq(NamedFrame),
                 IsOpen(s), Transients(e), down' = (down \o e) \o Heard(s, r)
          PROVE  Adds(x, runs[x].cursor)
      <4>1. Heard(s, r) \in Seq(NamedFrame) /\ Lacks(Heard(s, r), x)
        BY <1>0, <1>5, HeardLacks
      <4>2. e \o Heard(s, r) \in Seq(NamedFrame) /\ Lacks(e \o Heard(s, r), x)
        BY <3>2, <4>1, TransientsLack, JoinedFrames, LacksJoined
      <4>3. down' = down \o (e \o Heard(s, r))
        BY <1>0, <3>2, <4>1, ConcatAssociative
      <4> QED
        BY <1>0, <4>2, <4>3, AddsOthers
    <3> QED
      BY <1>4, <3>1, <3>2
  <2> QED
    BY <2>2, <2>3, <2>4 DEF Served
<1>6. CASE x = r /\ ~LogsKept
  <2>1. PICK e \in LogEvents \ {"run.started"} : Extends(r, e)
    BY <1>6 DEF Appends
  <2>2. /\ Whole(r) /\ SameEvents(r) /\ runs'[r].cursor = runs[r].cursor + 1
        /\ runs'[r].events[runs[r].cursor + 1].event = e
        /\ runs[r].cursor \in Nat
        /\ News(r) = <<[cursor |-> runs[r].cursor + 1, event |-> e]>>
    BY <1>0, <1>1, <1>6, <2>1, GrownEvents, GrownWhole
  <2>3. ASSUME NEW s \in Socket, Follows(s, r)
        PROVE  /\ Heard(s, r) \in Seq(NamedFrame)
               /\ Len(Heard(s, r)) = 1
               /\ Heard(s, r)[1].run = r /\ Heard(s, r)[1].cursor = runs[r].cursor + 1
               /\ Heard(s, r)[1].event = e
    BY <1>0, <1>1, <1>6, <2>1, <2>3, HeardNext
  <2>4. \A s \in Socket : Heard(s, r) \in Seq(NamedFrame)
    BY <1>0, HeardIsNews
  <2>5. \A s \in Socket : ~Follows(s, r) => Heard(s, r) = << >>
    BY DEF Heard
  <2>6. Adds(r, runs[r].cursor)
    <3>1. CASE down' = down
      BY <3>1, AddsNothing
    <3>2. ASSUME NEW s \in Socket, NEW n \in Seq(NamedFrame),
                 IsOpen(s), Transients(n), down' = (down \o n) \o Heard(s, r)
          PROVE  Adds(r, runs[r].cursor)
      <4>1. n \o Heard(s, r) \in Seq(NamedFrame)
        BY <2>4, JoinedFrames
      <4>2. down' = down \o (n \o Heard(s, r))
        BY <1>0, <2>4, <3>2, ConcatAssociative
      <4>3. ASSUME NEW i \in 1 .. Len(n \o Heard(s, r)), Holds(n \o Heard(s, r), i, r)
            PROVE  /\ runs[r].cursor < (n \o Heard(s, r))[i].cursor
                   /\ (n \o Heard(s, r))[i].cursor <= runs'[r].cursor
                   /\ (n \o Heard(s, r))[i].event
                        = runs'[r].events[(n \o Heard(s, r))[i].cursor].event
        <5>1. \/ i \in 1 .. Len(n) /\ (n \o Heard(s, r))[i] = n[i]
              \/ i - Len(n) \in 1 .. Len(Heard(s, r))
                 /\ (n \o Heard(s, r))[i] = Heard(s, r)[i - Len(n)]
          BY <2>4, JoinedFrames
        <5>2. CASE i \in 1 .. Len(n) /\ (n \o Heard(s, r))[i] = n[i]
          BY <3>2, <4>3, <5>2 DEF Transients, Holds
        <5>3. CASE i - Len(n) \in 1 .. Len(Heard(s, r))
                   /\ (n \o Heard(s, r))[i] = Heard(s, r)[i - Len(n)]
          <6>1. Follows(s, r)
            BY <2>5, <5>3, EmptySeq
          <6>2. i - Len(n) = 1
            BY <2>3, <5>3, <6>1
          <6>3. /\ (n \o Heard(s, r))[i].cursor = runs[r].cursor + 1
                /\ (n \o Heard(s, r))[i].event = e
            BY <2>3, <5>3, <6>1, <6>2
          <6> QED
            BY <2>2, <6>3
        <5> QED
          BY <5>1, <5>2, <5>3
      <4> DEFINE f == n \o Heard(s, r)
      <4>4. /\ f \in Seq(NamedFrame) /\ down' = down \o f
            /\ \A i \in 1 .. Len(f) : Holds(f, i, r) =>
                 /\ runs[r].cursor < f[i].cursor /\ f[i].cursor <= runs'[r].cursor
                 /\ f[i].event = runs'[r].events[f[i].cursor].event
        BY <4>1, <4>2, <4>3
      <4> HIDE DEF f
      <4>5. NewAndTrue(f, r, runs[r].cursor)
        BY <4>4 DEF NewAndTrue
      <4> QED
        BY <1>0, <4>4, <4>5, AddsTrueOnes
    <3> QED
      BY <1>4, <3>1, <3>2
  <2>7. ASSUME Tailed(r)
        PROVE  Served(r)'
    <3>1. CASE e \notin TerminalEvents
      <4>1. ~HasTerminal(News(r))
        BY <2>2, <3>1 DEF HasTerminal
      <4> QED
        BY <1>3, <1>6, <2>7, <4>1 DEF Served
    <3>2. CASE e \in TerminalEvents
      <4>1. PICK z \in Socket : IsOpen(z) /\ HasTail(tails[z], r)
        BY <2>7, TailedIs
      <4>2. Follows(z, r)
        BY <1>0, <4>1, FollowsIs DEF HasTail
      <4>3. PICK s \in Socket, n \in Seq(NamedFrame) :
              IsOpen(s) /\ down' = (down \o n) \o Heard(s, r)
        BY <1>4, <4>1 DEF Online
      <4>4. s = z
        BY <4>1, <4>3 DEF Connections
      <4> DEFINE h == Heard(z, r)
      <4>5. h \in Seq(NamedFrame) /\ Len(h) = 1 /\ h[1].run = r /\ h[1].event = e
            /\ h[1].cursor = runs[r].cursor + 1
        BY <2>3, <4>2
      <4> HIDE DEF h
      <4>6. down \o n \in Seq(NamedFrame) /\ down' = (down \o n) \o h
        BY <1>0, <4>3, <4>4, JoinedFrames DEF h
      <4> DEFINE d == down \o n
      <4> HIDE DEF d
      <4>7. d \in Seq(NamedFrame) /\ down' = d \o h
        BY <4>6 DEF d
      <4>8. 1 \in 1 .. Len(h)
        BY <4>5
      <4>9. Len(d) + 1 \in 1 .. Len(down') /\ down'[Len(d) + 1] = h[1]
        BY <4>5, <4>7, <4>8, JoinedFrames
      <4>10. runs[r].cursor + 1 > 0
        BY <2>2
      <4> QED
        BY <3>2, <4>5, <4>9, <4>10 DEF Served, EndInFlight, Holds
    <3> QED
      BY <3>1, <3>2
  <2> QED
    BY <1>6, <2>2, <2>6, <2>7
<1> QED
  BY <1>5, <1>6

(* A subscription to r passes every other run by.                          *)
LEMMA AttachPasses ==
  ASSUME ChatInductive, ChatInductive', NEW s \in Socket, NEW r \in RunId, r \in DOMAIN runs',
         NEW k \in Nat, Attach(s, r, k), link' = link, OnlyLog(r),
         Len(WithoutTail(tails[s], r)) < MaxTails, NEW x, x # r
  PROVE  Passes(x)
<1>0. /\ StoreInv /\ StoreTypeOK' /\ LostLogs
      /\ tails \in [Socket -> Seq(TailState)] /\ down \in Seq(NamedFrame)
  BY StoreOfInductive DEF ChatInductive, TypeInv, TypeOK, OnlyLog
<1> SUFFICES ASSUME Whole(x)'
             PROVE  /\ Whole(x) /\ SameEvents(x) /\ Adds(x, runs[x].cursor)
                    /\ Tailed(x) => Served(x)'
  BY DEF Passes
<1>1. Whole(x) /\ SameEvents(x)
  BY <1>0, SameLogEvents DEF OnlyLog
<1>2. PICK f \in Seq(NamedFrame), e \in Seq(NamedFrame) :
        /\ f = Forwarded(r, After(runs'[r].events, k))
        /\ Transients(e)
        /\ Emit(s, f \o e)
  BY <1>0, AttachedFrames
<1>3. f \o e \in Seq(NamedFrame) /\ Lacks(f \o e, x)
  <2>1. After(runs'[r].events, k) \in Seq(Event)
    BY <1>0, AfterIsTyped DEF StoreTypeOK, RunState, Event
  <2>2. \A i \in 1 .. Len(f) : f[i].run = r
    BY <1>2, <2>1, ForwardedIsNamed
  <2>3. Lacks(f, x)
    BY <2>2 DEF Lacks, Holds
  <2> QED
    BY <1>2, <2>3, JoinedFrames, TransientsLack, LacksJoined
<1>4. Adds(x, runs[x].cursor)
  <2>1. CASE down' = down
    BY <2>1, AddsNothing
  <2>2. CASE down' = down \o (f \o e)
    BY <1>0, <1>3, <2>2, AddsOthers
  <2> QED
    BY <1>2, <2>1, <2>2 DEF Emit
<1>5. Tailed(x) => Tailed(x)'
  <2> SUFFICES ASSUME Tailed(x) PROVE Tailed(x)'
    OBVIOUS
  <2>1. x \in DOMAIN runs'
    BY DEF Whole, Has
  <2>2. PICK z \in Socket : IsOpen(z) /\ HasTail(tails[z], x)
    BY TailedIs
  <2>3. HasTail(tails'[z], x)
    BY <1>0, <2>1, <2>2, AttachKeepsTails
  <2>4. IsOpen(z)'
    BY <2>2 DEF IsOpen
  <2> QED
    BY <2>3, <2>4, TailedNextIs
<1> QED
  BY <1>1, <1>4, <1>5 DEF Served

LEMMA WholeLogNext ==
  ASSUME StoreTypeOK', LogIsGapFree', NEW x, Whole(x)'
  PROVE  /\ runs'[x].events \in Seq(Event) /\ runs'[x].cursor \in Nat
         /\ GapFree(runs'[x]) /\ runs'[x].cursor <= MaxEvents
         /\ Len(runs'[x].events) = runs'[x].cursor
<1>1. runs'[x] \in RunState /\ GapFree(runs'[x]) /\ runs'[x].cursor <= MaxEvents
  BY DEF StoreTypeOK, LogIsGapFree, Whole, Has
<1>2. runs'[x].cursor \in Nat /\ runs'[x].events \in Seq(Event)
  BY <1>1 DEF RunState, Event
<1>3. Len(runs'[x].events) = runs'[x].cursor
  BY <1>1, <1>2, RunStoreAssumption DEF GapFree, RunStoreAssumption
<1> QED
  BY <1>1, <1>2, <1>3

(* The replay to an open socket is the rest of the log, and if that has no *)
(* end the subscription tails it.                                          *)
LEMMA AttachServes ==
  ASSUME ChatInductive, ChatInductive', EndedLogs', NEW s \in Socket, IsOpen(s),
         NEW r \in RunId, Whole(r)', NEW k \in Nat, k <= runs'[r].cursor,
         Attach(s, r, k), link' = link, Len(WithoutTail(tails[s], r)) < MaxTails
  PROVE  /\ Adds(r, k)
         /\ (\A n \in 1 .. k : runs'[r].events[n].event \notin TerminalEvents) => Served(r)'
<1>0. /\ StoreTypeOK' /\ LogIsGapFree' /\ r \in DOMAIN runs'
      /\ tails \in [Socket -> Seq(TailState)] /\ down \in Seq(NamedFrame)
  BY DEF ChatInductive, Inductive, TypeInv, TypeOK, Whole, Has
<1>1. PICK f \in Seq(NamedFrame), e \in Seq(NamedFrame) :
        /\ f = Forwarded(r, After(runs'[r].events, k))
        /\ Transients(e)
        /\ Emit(s, f \o e)
  BY <1>0, AttachedFrames
<1>2. f \o e \in Seq(NamedFrame) /\ down' = down \o (f \o e)
  BY <1>1, JoinedFrames DEF Emit
<1>3. PICK log : log = runs'[r]
  OBVIOUS
<1>4. /\ log.events \in Seq(Event) /\ log.cursor \in Nat /\ GapFree(log)
      /\ log.cursor <= MaxEvents /\ k <= log.cursor /\ Len(log.events) = log.cursor
  BY <1>0, <1>3, WholeLogNext
<1>5. /\ After(log.events, k) \in Seq(Event)
      /\ Len(After(log.events, k)) = log.cursor - k
      /\ \A i \in 1 .. log.cursor - k : After(log.events, k)[i].cursor = k + i
      /\ \A i \in 1 .. log.cursor - k : After(log.events, k)[i] = log.events[k + i]
  BY <1>4, ReplayIs, AfterIsTyped
<1>6. /\ Len(f) = log.cursor - k
      /\ \A i \in 1 .. Len(f) : /\ f[i].run = r
                                /\ f[i].cursor = k + i
                                /\ f[i].event = log.events[k + i].event
  BY <1>1, <1>3, <1>5, ForwardedIsNamed
<1>7. NewAndTrue(f \o e, r, k)
  <2> SUFFICES ASSUME NEW i \in 1 .. Len(f \o e), Holds(f \o e, i, r)
               PROVE  /\ k < (f \o e)[i].cursor /\ (f \o e)[i].cursor <= log.cursor
                      /\ (f \o e)[i].event = log.events[(f \o e)[i].cursor].event
    BY <1>3 DEF NewAndTrue
  <2>1. \/ i \in 1 .. Len(f) /\ (f \o e)[i] = f[i]
        \/ i - Len(f) \in 1 .. Len(e) /\ (f \o e)[i] = e[i - Len(f)]
    BY JoinedFrames
  <2>2. CASE i \in 1 .. Len(f) /\ (f \o e)[i] = f[i]
    <3>1. (f \o e)[i].cursor = k + i /\ (f \o e)[i].event = log.events[k + i].event
      BY <1>6, <2>2
    <3>2. k < k + i /\ k + i <= log.cursor
      BY <1>4, <1>6, <2>2
    <3> QED
      BY <3>1, <3>2
  <2>3. CASE i - Len(f) \in 1 .. Len(e) /\ (f \o e)[i] = e[i - Len(f)]
    BY <1>1, <2>3 DEF Transients, Holds
  <2> QED
    BY <2>1, <2>2, <2>3
<1>8. Adds(r, k)
  BY <1>0, <1>2, <1>7, AddsTrueOnes
<1>9. ASSUME \A n \in 1 .. k : log.events[n].event \notin TerminalEvents
      PROVE  Served(r)'
  <2>1. CASE ~log.done
    <3>1. HasTail(tails'[s], r)
      BY <1>0, <1>3, <2>1, AttachKeepsTails
    <3>2. IsOpen(s)'
      BY DEF IsOpen
    <3> QED
      BY <3>1, <3>2, TailedNextIs DEF Served
  <2>2. CASE log.done
    <3>1. PICK n \in 1 .. Len(log.events) : log.events[n].event \in TerminalEvents
      BY <1>0, <1>3, <1>4, <2>2 DEF EndedLogs, EndedLog
    <3>2. n > k /\ n - k \in 1 .. Len(f) /\ k + (n - k) = n
      BY <1>4, <1>6, <1>9, <3>1
    <3> DEFINE i == n - k
               g == f \o e
    <3>3. /\ i \in 1 .. Len(f)
          /\ f[i].run = r /\ f[i].cursor = n /\ f[i].event \in TerminalEvents
      BY <1>6, <3>1, <3>2
    <3>4. g \in Seq(NamedFrame) /\ down' = down \o g /\ i \in 1 .. Len(g) /\ g[i] = f[i]
      BY <1>2, <3>3, JoinedFrames
    <3> HIDE DEF i, g
    <3>5. Len(down) + i \in 1 .. Len(down') /\ down'[Len(down) + i] = g[i]
      BY <1>0, <3>4, JoinedFrames
    <3>6. n > 0
      BY <3>1
    <3> QED
      BY <3>3, <3>4, <3>5, <3>6 DEF Served, EndInFlight, Holds
  <2> QED
    BY <2>1, <2>2
<1> QED
  BY <1>3, <1>8, <1>9

\* A run that the wire does not hold and the tab does not follow.
LEMMA UnseenServes ==
  ASSUME NEW x, Lacks(down', x), tab'.run # x
  PROVE  Serves(x)'
<1>1. \A i \in 1 .. Len(down') : ~Holds(down', i, x)
  BY DEF Lacks
<1>2. TrueFrames(x)' /\ FirstIsServed(x)'
  BY <1>1 DEF TrueFrames, FirstIsServed, Holds
<1> QED
  BY <1>2 DEF Serves

LEMMA UnknownIsUnseen ==
  ASSUME SoundFrames, down \in Seq(NamedFrame), NEW x, ~Known(x)
  PROVE  Lacks(down, x)
BY DEF SoundFrames, Lacks, Holds

(* The socket of the tab is given the run it asked for.                    *)
LEMMA StartServes ==
  ASSUME ChatInductive, ChatInductive', Delivery, EndedLogs', NEW s \in Socket,
         NEW r \in RunId, Start(r), Attach(s, r, 0), link' = link,
         Len(WithoutTail(tails[s], r)) < MaxTails, tab' = tab, Whole(r)'
  PROVE  Serves(r)'
<1>0. /\ r \in DOMAIN runs' /\ ~Known(r)
      /\ StoreTypeOK' /\ down \in Seq(NamedFrame) /\ down' \in Seq(NamedFrame)
      /\ runs'[r].cursor \in Nat /\ tab \in NamedTab
  <2>1. r \in DOMAIN runs' /\ ~Has(r) /\ r \notin lost
    BY StartMoves
  <2> QED
    BY <2>1 DEF Known, ChatInductive, TypeInv, TypeOK, StoreTypeOK, RunState
<1>1. Lacks(down, r) /\ tab.run # r
  BY <1>0, UnknownIsUnseen, RunIdAssumption DEF Delivery, SoundTab, RunIdAssumption
<1>2. CASE IsOpen(s)
  <2>1. /\ Adds(r, 0)
        /\ (\A n \in 1 .. 0 : runs'[r].events[n].event \notin TerminalEvents) => Served(r)'
    BY <1>0, <1>2, AttachServes
  <2> QED
    BY <1>0, <1>1, <2>1, SubscribingServes
<1>3. CASE ~IsOpen(s)
  <2>1. down' = down
    BY <1>3 DEF Attach, Emit
  <2> QED
    BY <1>1, <2>1, UnseenServes
<1> QED
  BY <1>2, <1>3

(* A resume carries the anchor of the tab, while nothing of the run is in  *)
(* flight.                                                                 *)
LEMMA ResumeServes ==
  ASSUME ChatInductive, ChatInductive', Delivery, EndedLogs', NEW s \in Socket, IsOpen(s),
         NEW r \in RunId, NEW k \in Nat, ResumeCommand(s, r, k), SoundResume(r, k),
         Len(WithoutTail(tails[s], r)) < MaxTails, tab' = tab, Whole(r)', Whole(r) => Serves(r)
  PROVE  Serves(r)'
<1>0. /\ StoreInv /\ StoreTypeOK' /\ KnownLogs
      /\ down \in Seq(NamedFrame) /\ down' \in Seq(NamedFrame) /\ tab \in NamedTab
  BY StoreOfInductive DEF ChatInductive, TypeInv, TypeOK, Delivery
<1>1. CASE Has(r) /\ UNCHANGED managerVars /\ Attach(s, r, k) /\ UNCHANGED <<link, calls>>
  <2>1. /\ runs' = runs /\ Whole(r) /\ link' = link
    BY <1>1 DEF Whole, Has, managerVars
  <2>2. k <= runs'[r].cursor /\ Lacks(down, r) /\ (tab.run = r => k = tab.cursor)
    BY <2>1 DEF SoundResume
  <2>3. /\ Adds(r, k)
        /\ (\A n \in 1 .. k : runs'[r].events[n].event \notin TerminalEvents) => Served(r)'
    BY <1>1, <2>1, <2>2, AttachServes
  <2> QED
    BY <1>0, <2>1, <2>2, <2>3, SubscribingServes
<1>2. CASE Rebegin(r)
  <2>1. r \in lost'
    BY <1>2, RebeginKeepsKnown, <1>0 DEF ChatInductive
  <2> QED
    BY <2>1 DEF Whole
<1>3. CASE /\ ~Has(r) /\ UNCHANGED managerVars
  BY <1>3 DEF Whole, Has, managerVars
<1> QED
  BY <1>1, <1>2, <1>3 DEF ResumeCommand

LEMMA PassedServes ==
  ASSUME ChatInductive, ChatInductive', Delivery, Serving, tab' = tab, Online' => Online,
         NEW x \in RunId, Whole(x)', Passes(x), Resumes(x) => Resumes(x)' \/ Served(x)'
  PROVE  Serves(x)'
<1>1. /\ down \in Seq(NamedFrame) /\ down' \in Seq(NamedFrame) /\ tab \in NamedTab /\ KnownLogs
  BY DEF ChatInductive, TypeInv, Delivery
<1>2. Whole(x) /\ Serves(x)
  BY DEF Passes, Serving
<1>3. tab.run = x => tab.cursor <= runs[x].cursor
  BY <1>2, RunIdAssumption DEF Delivery, SoundTab, RunIdAssumption
<1> QED
  BY <1>1, <1>2, <1>3, PassingServes

(* The commands that only read or end a run pass all runs by.              *)
LEMMA CommandPasses ==
  ASSUME ChatInductive, ChatInductive', Delivery, NEW s \in Socket, NEW r \in RunId,
         NEW k \in Nat, RunCommand(s, r) \/ AbortCommand(s, r) \/ RespondCommand(s, r, k), NEW x
  PROVE  Passes(x) /\ link' = link
<1>0. /\ StoreInv /\ down \in Seq(NamedFrame) /\ KnownLogs /\ Connections /\ SoundGates
  BY StoreOfInductive DEF ChatInductive, TypeInv, Delivery
<1>1. CASE RunCommand(s, r) \/ RespondCommand(s, r, k)
  <2>1. UNCHANGED managerVars /\ tails' = tails /\ link' = link /\ down' = down
    BY <1>1 DEF RunCommand, RespondCommand
  <2>2. << >> \in Seq(NamedFrame) /\ Transients(<< >>)
    BY EmptySeq, TransientsAre
  <2> QED
    BY <1>0, <2>1, <2>2, EmitPasses
<1>2. CASE AbortCommand(s, r)
  <2>1. /\ Transient("run.stopping", r) \in Seq(NamedFrame)
        /\ Transients(Transient("run.stopping", r))
    BY TransientIsNamed, TransientsAre
  <2>2. Notify(r, s, Transient("run.stopping", r)) /\ link' = link
    BY <1>2 DEF AbortCommand
  <2>3. Appends(r, LogEvents \ {"run.started"}) /\ (~LogsKept => Known(r))
    <3>1. CASE Abort(r)
      <4>1. IsActive(r)
        BY <3>1 DEF Abort
      <4>2. Known(r)
        BY <1>0, <4>1, ActiveIsKnown DEF ChatInductive
      <4> QED
        BY <3>1, <4>2, CancelMoves DEF Appends
    <3>2. CASE UNCHANGED managerVars
      BY <3>2, SameManagerMoves DEF Appends
    <3> QED
      BY <1>2, <3>1, <3>2 DEF AbortCommand
  <2> QED
    BY <1>0, <2>1, <2>2, <2>3, NotifyPasses
<1> QED
  BY <1>1, <1>2

LEMMA ResumePasses ==
  ASSUME ChatInductive, ChatInductive', Delivery, NEW s \in Socket, NEW r \in RunId,
         NEW k \in Nat, ResumeCommand(s, r, k),
         Len(WithoutTail(tails[s], r)) < MaxTails, NEW x, x # r
  PROVE  Passes(x)
<1>0. StoreInv /\ down \in Seq(NamedFrame)
  BY StoreOfInductive DEF ChatInductive, TypeInv
<1>1. CASE /\ Emit(s, Transient(Rejection.resume, "none"))
           /\ UNCHANGED managerVars /\ UNCHANGED <<link, tails, calls>>
  <2>1. "resume" \in DOMAIN Rejection /\ Rejection.resume = Rejection["resume"]
    BY DEF Rejection
  <2>2. /\ Transient(Rejection.resume, "none") \in Seq(NamedFrame)
        /\ Transients(Transient(Rejection.resume, "none"))
    BY <2>1, RejectionIsNamed, TransientsAre
  <2> QED
    BY <1>0, <1>1, <2>2, EmitPasses
<1>2. CASE Has(r) /\ UNCHANGED managerVars /\ Attach(s, r, k) /\ link' = link
  <2>1. OnlyLog(r) /\ r \in DOMAIN runs'
    BY <1>2, SameManagerMoves DEF LogsKept, OnlyLog, managerVars, storeVars, Has
  <2> QED
    BY <1>2, <2>1, AttachPasses
<1>3. CASE Rebegin(r) /\ Attach(s, r, k) /\ link' = link
  <2>1. OnlyLog(r) /\ r \in DOMAIN runs'
    BY <1>3, RebeginMoves
  <2> QED
    BY <1>3, <2>1, AttachPasses
<1> QED
  BY <1>1, <1>2, <1>3 DEF ResumeCommand

LEMMA DeliverServes ==
  ASSUME ChatInductive, ChatInductive', Delivery, Serving, EndedLogs', RoomForTails, Deliver,
         NEW x \in RunId, Whole(x)'
  PROVE  Serves(x)'
<1>0. up \in Seq(Command) /\ up # << >> /\ up' = Tail(up) /\ tab' = tab
  BY DEF Deliver, ChatInductive, TypeInv
<1>1. /\ Len(up) \in Nat \ {0} /\ Head(up) = up[1] /\ Head(up) \in Command
      /\ Len(up') = Len(up) - 1
      /\ \A i \in 1 .. Len(up') : up'[i] = up[i + 1]
  <2>1. /\ Head(up) \in Command /\ Len(Tail(up)) = Len(up) - 1
        /\ \A i \in 1 .. Len(Tail(up)) : Tail(up)[i] = up[i + 1]
    BY <1>0, HeadTailProperties
  <2>2. Len(up) \in Nat \ {0}
    BY <1>0, EmptySeq, LenProperties
  <2> QED
    BY <1>0, <2>1, <2>2
<1>2. PICK s \in Socket, r \in RunId :
        /\ IsOpen(s)
        /\ r = up[1].run
        /\ \/ up[1].do = "run" /\ RunCommand(s, r)
           \/ up[1].do = "resume" /\ ResumeCommand(s, r, up[1].cursor)
           \/ up[1].do = "abort" /\ AbortCommand(s, r)
           \/ up[1].do = "respond" /\ RespondCommand(s, r, up[1].cursor)
  BY <1>1 DEF Deliver
<1>3. PICK k \in Nat : k = up[1].cursor
  BY <1>1 DEF Command
<1>4. up[1].do # "resume" \/ x # r => (Resumes(x) => Resumes(x)')
  <2> SUFFICES ASSUME up[1].do # "resume" \/ x # r, NEW i \in 1 .. Len(up),
                      IsResume(i), up[i].run = x
               PROVE  Resumes(x)'
    BY DEF Resumes
  <2>1. i # 1
    BY <1>2 DEF IsResume
  <2>2. i - 1 \in 1 .. Len(up') /\ (i - 1) + 1 = i
    BY <1>1, <2>1
  <2>3. up'[i - 1] = up[i]
    BY <1>1, <2>2
  <2> QED
    BY <2>2, <2>3 DEF Resumes, IsResume
<1>5. Online
  BY <1>2 DEF Online
<1>6. CASE up[1].do # "resume" /\
             (RunCommand(s, r) \/ AbortCommand(s, r) \/ RespondCommand(s, r, k))
  <2>1. Passes(x)
    BY <1>6, CommandPasses DEF Delivery
  <2> QED
    BY <1>0, <1>4, <1>5, <1>6, <2>1, PassedServes
<1>7. CASE up[1].do = "resume" /\ ResumeCommand(s, r, k)
  <2>0. Len(WithoutTail(tails[s], r)) < MaxTails
    BY DEF RoomForTails
  <2>1. CASE x # r
    <3>1. Passes(x)
      BY <1>7, <2>0, <2>1, ResumePasses
    <3> QED
      BY <1>0, <1>4, <1>5, <2>1, <3>1, PassedServes
  <2>2. CASE x = r
    <3>1. 1 \in 1 .. Len(up) /\ IsResume(1)
      BY <1>1, <1>7 DEF IsResume
    <3>2. SoundResume(r, k)
      BY <1>2, <1>3, <3>1 DEF Delivery, SoundResumes
    <3>3. Whole(r) => Serves(r)
      BY DEF Serving
    <3> QED
      BY <1>0, <1>2, <1>7, <2>0, <2>2, <3>2, <3>3, ResumeServes
  <2> QED
    BY <2>1, <2>2
<1> QED
  BY <1>2, <1>3, <1>6, <1>7

LEMMA AnswerPasses ==
  ASSUME ChatInductive, ChatInductive', Delivery, RoomForTails, NEW c \in calls,
         RespondAccepted(c) \/ RunAccepted(c) \/ AbortAccepted(c) \/ Rejected(c),
         NEW x, RunAccepted(c) => x # c.run
  PROVE  Passes(x)
<1>0. /\ StoreInv /\ down \in Seq(NamedFrame) /\ KnownLogs /\ Connections /\ SoundGates
  BY StoreOfInductive DEF ChatInductive, TypeInv, Delivery
<1>1. /\ c.socket \in Socket /\ c.run \in RunId
      /\ c.do \in {"run", "abort", "respond"}
  BY DEF ChatInductive, TypeInv, Call
<1>2. << >> \in Seq(NamedFrame) /\ Transients(<< >>)
  BY EmptySeq, TransientsAre
<1>3. link' = link
  BY DEF RespondAccepted, RunAccepted, AbortAccepted, Rejected
<1>4. CASE RespondAccepted(c)
  <2>1. Notify(c.run, c.socket, << >>)
    BY <1>4 DEF RespondAccepted
  <2>2. LogsKept
    BY <1>4, SameManagerMoves, SameStoreMoves DEF RespondAccepted, ClearApproval, storeVars
  <2>3. Appends(c.run, LogEvents \ {"run.started"})
    BY <2>2 DEF Appends
  <2> QED
    BY <1>0, <1>1, <1>2, <1>3, <2>1, <2>2, <2>3, NotifyPasses
<1>5. CASE RunAccepted(c)
  <2>1. /\ Start(c.run) /\ Attach(c.socket, c.run, 0)
        /\ Len(WithoutTail(tails[c.socket], c.run)) < MaxTails
    BY <1>1, <1>5 DEF RunAccepted, RoomForTails
  <2>2. OnlyLog(c.run) /\ c.run \in DOMAIN runs'
    BY <2>1, StartMoves
  <2> QED
    BY <1>1, <1>3, <1>5, <2>1, <2>2, AttachPasses
<1>6. CASE AbortAccepted(c)
  <2>1. UNCHANGED managerVars /\ tails' = tails /\ down' = down
    BY <1>6 DEF AbortAccepted
  <2> QED
    BY <1>0, <1>2, <1>3, <2>1, EmitPasses
<1>7. CASE Rejected(c)
  <2>1. c.do \in DOMAIN Rejection
    BY <1>1 DEF Rejection
  <2>2. /\ Transient(Rejection[c.do], "none") \in Seq(NamedFrame)
        /\ Transients(Transient(Rejection[c.do], "none"))
    BY <2>1, RejectionIsNamed, TransientsAre
  <2>3. /\ UNCHANGED managerVars /\ tails' = tails
        /\ Emit(c.socket, Transient(Rejection[c.do], "none"))
    BY <1>7 DEF Rejected
  <2> QED
    BY <1>0, <1>3, <2>2, <2>3, EmitPasses
<1> QED
  BY <1>4, <1>5, <1>6, <1>7

LEMMA AnswerServes ==
  ASSUME ChatInductive, ChatInductive', Delivery, Serving, EndedLogs', RoomForTails,
         GatewayAnswers, NEW x \in RunId, Whole(x)'
  PROVE  Serves(x)'
<1>1. PICK c \in calls :
        RespondAccepted(c) \/ RunAccepted(c) \/ AbortAccepted(c) \/ Rejected(c)
  BY DEF GatewayAnswers
<1>2. c.socket \in Socket /\ c.run \in RunId
  BY DEF ChatInductive, TypeInv, Call
<1>3. up' = up /\ tab' = tab /\ link' = link
  BY <1>1 DEF GatewayAnswers, RespondAccepted, RunAccepted, AbortAccepted, Rejected
<1>4. (Online' => Online) /\ (Resumes(x) => Resumes(x)')
  BY <1>3 DEF Online, IsOpen, Resumes, IsResume
<1>5. CASE RunAccepted(c) /\ x = c.run
  <2>1. /\ Start(c.run) /\ Attach(c.socket, c.run, 0)
        /\ Len(WithoutTail(tails[c.socket], c.run)) < MaxTails
    BY <1>2, <1>5 DEF RunAccepted, RoomForTails
  <2> QED
    BY <1>2, <1>3, <1>5, <2>1, StartServes
<1>6. CASE RunAccepted(c) => x # c.run
  <2>1. Passes(x)
    BY <1>1, <1>6, AnswerPasses
  <2> QED
    BY <1>3, <1>4, <2>1, PassedServes
<1> QED
  BY <1>5, <1>6

LEMMA BackgroundPasses ==
  ASSUME ChatInductive, ChatInductive', Delivery, Background, NEW x
  PROVE  Passes(x) /\ (Online' => Online)
<1>0. /\ StoreInv /\ StoreTypeOK /\ down \in Seq(NamedFrame)
      /\ KnownLogs /\ Connections /\ SoundGates
      /\ tails \in [Socket -> Seq(TailState)]
      /\ link \in [Socket -> {"unused", "open", "gone", "closed"}]
  BY StoreOfInductive DEF ChatInductive, TypeInv, TypeOK, Delivery
<1>1. << >> \in Seq(NamedFrame) /\ Transients(<< >>)
  BY EmptySeq, TransientsAre
<1>2. ASSUME NEW s \in Socket, Disconnect(s)
      PROVE  Passes(x) /\ (Online' => Online)
  <2>1. /\ UNCHANGED managerVars /\ down' = down
        /\ link[s] = "gone" /\ link' = [link EXCEPT ![s] = "closed"]
        /\ tails' = [tails EXCEPT ![s] = << >>]
    BY <1>2 DEF Disconnect
  <2>2. LogsKept
    BY <2>1, SameManagerMoves
  <2>3. \A z \in Socket : (IsOpen(z)' <=> IsOpen(z)) /\ (IsOpen(z) => tails'[z] = tails[z])
    BY <1>0, <2>1 DEF IsOpen
  <2>4. Tailed(x) => Tailed(x)'
    BY <2>3 DEF Tailed
  <2> QED
    BY <1>0, <1>1, <2>1, <2>2, <2>3, <2>4, QuietStepPasses DEF Online
<1>3. ASSUME NEW p \in PumpId, Pumped(p)
      PROVE  Passes(x) /\ (Online' => Online)
  <2>1. PumpStep(p) /\ Notify(stream[p].run, "none", << >>) /\ link' = link
    BY <1>3 DEF Pumped
  <2>2. stream[p].run \in RunId /\ stream[p].phase = "streaming"
    BY <2>1, PumpedRunIsARun DEF ChatInductive
  <2>3. Known(stream[p].run)
    BY <1>0, <2>2 DEF KnownLogs
  <2>4. PICK r \in RunId : r = stream[p].run
    BY <2>2
  <2>5. Appends(r, LogEvents \ {"run.started"})
    BY <2>1, <2>4, PumpMoves DEF Appends
  <2>6. Passes(x)
    BY <1>0, <1>1, <2>1, <2>3, <2>4, <2>5, NotifyPasses
  <2> QED
    BY <2>1, <2>6 DEF Online, IsOpen
<1>4. ASSUME NEW r \in RunId, Reaped(r)
      PROVE  Passes(x) /\ (Online' => Online)
  <2>1. Reap(r) /\ Notify(r, "none", << >>) /\ link' = link
    BY <1>4 DEF Reaped
  <2>2. Known(r)
    <3>1. IsActive(r)
      BY <2>1 DEF Reap, Stale
    <3> QED
      BY <1>0, <3>1, ActiveIsKnown DEF ChatInductive
  <2>3. Appends(r, LogEvents \ {"run.started"})
    BY <2>1, CancelMoves DEF Appends
  <2>4. Passes(x)
    BY <1>0, <1>1, <2>1, <2>2, <2>3, NotifyPasses
  <2> QED
    BY <2>1, <2>4 DEF Online, IsOpen
<1>5. CASE TimePasses
  <2>1. /\ LogsKept /\ link' = link /\ down' = down
        /\ tails' = [s \in Socket |-> Retained(tails[s])]
    BY <1>0, <1>5, TimeMoves DEF TimePasses
  <2>2. Tailed(x) /\ x \in DOMAIN runs' => Tailed(x)'
    <3> SUFFICES ASSUME Tailed(x), x \in DOMAIN runs' PROVE Tailed(x)'
      OBVIOUS
    <3>1. PICK s \in Socket : IsOpen(s) /\ HasTail(tails[s], x)
      BY TailedIs
    <3>2. tails[s] \in Seq(TailState) /\ tails'[s] = Retained(tails[s])
      BY <1>0, <2>1
    <3>3. HasTail(tails'[s], x)
      BY <3>1, <3>2, RetainedKeepsTail
    <3>4. IsOpen(s)'
      BY <2>1, <3>1 DEF IsOpen
    <3> QED
      BY <3>3, <3>4, TailedNextIs
  <2>3. Passes(x)
    BY <1>0, <1>1, <2>1, <2>2, QuietStepPasses
  <2> QED
    BY <2>1, <2>3 DEF Online, IsOpen
<1> QED
  BY <1>2, <1>3, <1>4, <1>5 DEF Background

LEMMA BackgroundServes ==
  ASSUME ChatInductive, ChatInductive', Delivery, Serving, Background,
         NEW x \in RunId, Whole(x)'
  PROVE  Serves(x)'
<1>1. up' = up /\ tab' = tab
  BY DEF Background, tabVars
<1>2. Resumes(x) => Resumes(x)'
  BY <1>1 DEF Resumes, IsResume
<1>3. Passes(x) /\ (Online' => Online)
  BY BackgroundPasses
<1> QED
  BY <1>1, <1>2, <1>3, PassedServes

-----------------------------------------------------------------------------
(***************************************************************************)
(* The steps of the user and of the connection.                            *)
(***************************************************************************)
(* Commands are added behind those that wait.                              *)
LEMMA UserAddsCommands ==
  ASSUME TypeInv, (\E r \in RunId : Send(r)) \/ Stop \/ Respond \/ NewChat
  PROVE  \A i \in 1 .. Len(up) : i \in 1 .. Len(up') /\ up'[i] = up[i]
<1>0. tab \in TabState /\ tab \in NamedTab /\ up \in Seq(Command)
  BY DEF TypeInv, NamedTab
<1>1. ASSUME NEW do \in {"run", "abort", "respond"}, NEW r \in RunId, NEW k \in Nat,
             Emits(do, r, k)
      PROVE  \A i \in 1 .. Len(up) : i \in 1 .. Len(up') /\ up'[i] = up[i]
  <2> DEFINE c == [do |-> do, run |-> r, cursor |-> k]
  <2>1. c \in Command
    BY DEF Command
  <2>2. up' = Append(up, c)
    BY <1>1 DEF Emits
  <2> HIDE DEF c
  <2> QED
    BY <1>0, <2>1, <2>2, AppendedCommand
<1>2. CASE \E r \in RunId : Send(r)
  BY <1>1, <1>2 DEF Send
<1>3. CASE Stop
  BY <1>0, <1>1, <1>3 DEF Stop, TabState
<1>4. CASE Respond
  <2>1. tab.card.run \in RunId /\ tab.card.gate \in Nat
    BY <1>0, <1>4 DEF Respond, NamedTab, NamedCard
  <2> QED
    BY <1>1, <1>4, <2>1 DEF Respond
<1>5. CASE NewChat
  BY <1>5 DEF NewChat
<1> QED
  BY <1>2, <1>3, <1>4, <1>5

(* Commands are added behind a resume that waits, and the tab keeps its    *)
(* place in the run or leaves it.                                          *)
LEMMA UserServes ==
  ASSUME ChatInductive, Serving, (\E r \in RunId : Send(r)) \/ Stop \/ Respond \/ NewChat,
         NEW x \in RunId, Whole(x)'
  PROVE  Serves(x)'
<1>0. tab \in TabState /\ tab \in NamedTab /\ up \in Seq(Command)
  BY DEF ChatInductive, TypeInv, NamedTab
<1>1. UNCHANGED <<runs, lost, link, tails, down>>
  BY UserResumesNothing DEF Send, Stop, Respond, NewChat, managerVars, storeVars, wireVars
<1>2. tab'.run = x => tab.run = x /\ tab'.cursor = tab.cursor /\ tab'.done = tab.done
  <2>1. CASE \E r \in RunId : Send(r)
    <3>1. tab' = Issued(tab)
      BY <2>1 DEF Send
    <3> QED
      BY <1>0, <3>1, RunIdAssumption DEF Issued, TabState, RunIdAssumption
  <2>2. CASE Stop
    BY <2>2 DEF Stop
  <2>3. CASE Respond
    <3>1. tab' = Responded(tab)
      BY <2>3 DEF Respond
    <3> QED
      BY <1>0, <3>1 DEF Responded, TabState
  <2>4. CASE NewChat
    <3>1. tab' = Detached(tab)
      BY <2>4 DEF NewChat
    <3> QED
      BY <1>0, <3>1, RunIdAssumption DEF Detached, TabState, RunIdAssumption
  <2> QED
    BY <2>1, <2>2, <2>3, <2>4
<1>3. \A i \in 1 .. Len(up) : i \in 1 .. Len(up') /\ up'[i] = up[i]
  BY UserAddsCommands DEF ChatInductive
<1>4. Resumes(x) => Resumes(x)'
  BY <1>3 DEF Resumes, IsResume
<1>5. Whole(x) /\ Serves(x)
  BY <1>1 DEF Whole, Has, Serving
<1>6. /\ TrueFrames(x)' /\ (Served(x) <=> Served(x)') /\ FirstIsServed(x)' /\ (Online' <=> Online)
  BY <1>1, <1>5 DEF Serves, TrueFrames, FirstIsServed, EventAt, Holds, Served, Tailed,
                    EndInFlight, IsOpen, Online
<1>7. tab'.run = x => FollowsWell(x)'
  <2> SUFFICES ASSUME tab'.run = x PROVE FollowsWell(x)'
    OBVIOUS
  <2>1. tab.run = x /\ tab'.cursor = tab.cursor /\ tab'.done = tab.done /\ FollowsWell(x)
    BY <1>2, <1>5 DEF Serves
  <2> QED
    BY <1>1, <1>4, <1>6, <2>1 DEF FollowsWell, EndsAt, EventAt, Holds
<1> QED
  BY <1>6, <1>7 DEF Serves

(* Without a connection nothing is in flight and nobody waits.             *)
LEMMA BreakServes ==
  ASSUME ChatInductive, Delivery, Serving, Lose \/ Reload \/ ServerDies,
         NEW x \in RunId, Whole(x)'
  PROVE  Serves(x)'
<1>0. /\ tab \in NamedTab /\ KnownLogs /\ Connections
      /\ link \in [Socket -> {"unused", "open", "gone", "closed"}]
  BY DEF ChatInductive, TypeInv, Delivery
<1>1. Len(<< >>) = 0
  BY EmptySeq
<1>2. ~ServerDies
  <2> SUFFICES ASSUME ServerDies PROVE FALSE
    OBVIOUS
  <2>1. Crash
    BY DEF ServerDies, ServerCrash
  <2>2. DOMAIN runs' = {}
    BY <1>0, <2>1, CrashKeepsKnown DEF ChatInductive
  <2> QED
    BY <2>2 DEF Whole, Has
<1>3. /\ UNCHANGED <<runs, lost>> /\ down' = << >> /\ ~Online'
      /\ tab' = tab \/ tab' = Reloaded(tab)
  <2>1. CASE \E s \in Socket : LinkLost(s)
    <3>1. PICK s \in Socket : IsOpen(s) /\ link' = [link EXCEPT ![s] = "gone"] /\ down' = << >>
                              /\ UNCHANGED managerVars
      BY <2>1 DEF LinkLost
    <3>2. ~Online'
      BY <1>0, <3>1 DEF Online, IsOpen, Connections
    <3> QED
      BY <1>2, <3>1, <3>2 DEF Lose, Reload, managerVars, storeVars
  <2>2. CASE ~Online /\ UNCHANGED managerVars /\ UNCHANGED wireVars /\ Reload
    BY <1>0, <2>2 DEF Reload, Connections, Online, IsOpen, wireVars, managerVars, storeVars
  <2> QED
    BY <1>2, <2>1, <2>2 DEF Lose, Reload
<1>4. Whole(x) /\ Serves(x)
  BY <1>3 DEF Whole, Has, Serving
<1>5. Lacks(down', x)
  BY <1>1, <1>3 DEF Lacks
<1>6. \A i \in 1 .. Len(down') : ~Holds(down', i, x)
  BY <1>5 DEF Lacks
<1>7. TrueFrames(x)' /\ FirstIsServed(x)'
  BY <1>6 DEF TrueFrames, FirstIsServed, Holds
<1>8. ASSUME tab'.run = x, ~tab'.done
      PROVE  \A n \in 1 .. tab'.cursor : ~EndsAt(x, n)'
  <2>1. CASE tab' = tab
    BY <1>3, <1>4, <1>8, <2>1 DEF Serves, FollowsWell, EndsAt, EventAt
  <2>2. CASE tab' = Reloaded(tab)
    BY <2>2 DEF Reloaded, NewTab
  <2> QED
    BY <1>3, <2>1, <2>2
<1> QED
  BY <1>3, <1>6, <1>7, <1>8 DEF Serves, FollowsWell, Holds

(* The connect handler resumes the run that the tab takes for open.        *)
LEMMA ConnectResumes ==
  ASSUME ChatInductive, Connect, NEW x \in RunId, tab.run = x, ~tab.done
  PROVE  Resumes(x)'
<1> DEFINE c == [do |-> "resume", run |-> tab.run, cursor |-> tab.cursor]
<1>1. up' = Append(up, c) /\ tab' = tab
  BY RunIdAssumption DEF Connect, Resumption, RunIdAssumption
<1>2. c \in Command /\ c.run = x /\ c.do = "resume" /\ up \in Seq(Command)
  BY DEF ChatInductive, TypeInv, NamedTab, TabState, Command
<1> HIDE DEF c
<1>3. Len(up) \in Nat /\ Len(up') = Len(up) + 1 /\ up'[Len(up) + 1] = c
  BY <1>1, <1>2, AppendedCommand
<1>4. Len(up) + 1 \in 1 .. Len(up')
  BY <1>3
<1> QED
  BY <1>1, <1>2, <1>3, <1>4 DEF Resumes, IsResume

LEMMA ConnectServes ==
  ASSUME ChatInductive, Delivery, Serving, Connect, NEW x \in RunId, Whole(x)'
  PROVE  Serves(x)'
<1>0. tab \in NamedTab /\ up \in Seq(Command) /\ TypeInv /\ Connections
  BY DEF ChatInductive, TypeInv, Delivery
<1>1. down' = << >> /\ UNCHANGED <<tab, runs, lost>>
  BY <1>0, ConnectUnfolded DEF managerVars, storeVars
<1>2. Whole(x) /\ Serves(x)
  BY <1>1 DEF Whole, Has, Serving
<1>3. \A i \in 1 .. Len(down') : ~Holds(down', i, x)
  BY <1>1, EmptySeq
<1>4. TrueFrames(x)' /\ FirstIsServed(x)'
  BY <1>3 DEF TrueFrames, FirstIsServed, Holds
<1>5. tab.run = x /\ ~tab.done => Resumes(x)'
  BY ConnectResumes
<1>6. tab'.run = x => FollowsWell(x)'
  <2> SUFFICES ASSUME tab.run = x PROVE FollowsWell(x)'
    BY <1>1
  <2>1. ~tab.done => \A n \in 1 .. tab.cursor : ~EndsAt(x, n)
    BY <1>2 DEF Serves, FollowsWell
  <2> QED
    BY <1>1, <1>3, <1>5, <2>1 DEF FollowsWell, EndsAt, EventAt, Holds
<1> QED
  BY <1>4, <1>6 DEF Serves

-----------------------------------------------------------------------------
(***************************************************************************)
(* The tab takes a frame.                                                  *)
(***************************************************************************)
LEMMA ShownKeepsDone ==
  ASSUME NEW t \in NamedTab, NEW f \in RunFrames
  PROVE  Shown(t, f).done = t.done
<1> DEFINE Keeps(v) == v.done = t.done
<1>0. t \in TabState
  BY DEF NamedTab
<1> USE <1>0 DEF TabState
<1>1. Keeps([t EXCEPT !.shown = f.run, !.status = "running", !.card = NoCard])
  OBVIOUS
<1>2. Keeps([t EXCEPT !.working = TRUE])
  OBVIOUS
<1>3. Keeps([t EXCEPT !.card = [run |-> f.run, gate |-> f.gate]])
  OBVIOUS
<1>4. Keeps([t EXCEPT !.card = NoCard])
  OBVIOUS
<1>5. \A v : Keeps([t EXCEPT !.status = v])
  OBVIOUS
<1>6. Keeps([t EXCEPT !.status = "idle", !.working = FALSE, !.card = NoCard])
  OBVIOUS
<1>7. Keeps(t)
  OBVIOUS
<1> HIDE DEF Keeps
<1>8. Keeps([t EXCEPT !.status = IF @ = "idle" THEN @ ELSE "stopping"])
  BY <1>5
<1>9. Keeps(Shown(t, f))
  BY <1>1, <1>2, <1>3, <1>4, <1>6, <1>7, <1>8 DEF Shown, RunFrames, LogEvents, TerminalEvents
<1> QED
  BY <1>9 DEF Keeps

(* A terminal event ends the run for the tab, and nothing reopens it but   *)
(* a run.started.                                                          *)
LEMMA AppliedEnds ==
  ASSUME NEW t \in NamedTab, NEW f \in RunFrames
  PROVE  Applied(t, f).done <=> t.done \/ f.event \in TerminalEvents
<1> DEFINE over == f.event \in TerminalEvents
           c == IF f.cursor = 0 THEN t.cursor ELSE f.cursor
           a == IF f.cursor = 0 THEN t.applied ELSE Append(t.applied, <<f.run, f.cursor>>)
           d == t.done \/ over
           w == IF over THEN None ELSE t.run
           l == IF f.event = "approval.responded" THEN NoCard ELSE t.cleared
           kept == [t EXCEPT !.cursor = c, !.applied = a, !.done = d, !.saved = w, !.cleared = l]
<1>1. c \in Nat /\ w \in RunId \cup {None} /\ l \in NamedCard
  BY NoCardIsNamed DEF NamedTab, TabState, RunFrames, WireFrame
<1>2. a \in Seq(RunId \X Nat)
  <2>1. t.applied \in Seq(RunId \X Nat) /\ <<f.run, f.cursor>> \in RunId \X Nat
    BY DEF NamedTab, TabState, RunFrames, WireFrame
  <2> QED
    BY <2>1, AppendProperties
<1>3. d \in BOOLEAN
  BY Zenon DEF NamedTab, TabState
<1>4. Applied(t, f) = Shown(kept, f)
  BY DEF Applied
<1> HIDE DEF c, a, d, w, l
<1>5. kept \in NamedTab
  BY <1>1, <1>2, <1>3 DEF NamedTab, TabState, NamedCard
<1>6. kept.done = d
  BY DEF NamedTab, TabState
<1> HIDE DEF kept
<1>7. Applied(t, f).done = d
  BY <1>4, <1>5, <1>6, ShownKeepsDone
<1> QED
  BY <1>7, Zenon DEF d

LEMMA ReceivedEnds ==
  ASSUME NEW t \in NamedTab, NEW f \in NamedFrame, NEW u, u = Received(t, f), ~u.done
  PROVE  /\ ~t.done \/ (f.event = "run.started" /\ (f.run = t.run \/ t.expecting))
         /\ TookEvent(t, f, u) => f.event \notin TerminalEvents
<1>0. /\ f \in WireFrame /\ (f.event \in Rejections \/ f.run \in RunId) /\ f.cursor \in Nat
      /\ t \in TabState /\ t.cursor \in Nat
  BY DEF NamedFrame, NamedTab, TabState, WireFrame
<1>1. CASE f.event \in {"approval.pending", "approval.cleared"}
  <2>1. /\ [t EXCEPT !.inbox = @ \cup {f.run}].done = t.done
        /\ [t EXCEPT !.inbox = @ \ {f.run}].done = t.done
    BY <1>0 DEF TabState
  <2>2. u.done = t.done
    BY <1>1, <2>1 DEF Received
  <2> QED
    BY <1>1, <2>2 DEF TerminalEvents
<1>2. CASE f.event \in Rejections
  <2>1. /\ [t EXCEPT !.card = t.cleared, !.cleared = NoCard].done = t.done
        /\ [t EXCEPT !.status = "idle", !.working = FALSE, !.card = NoCard].done = t.done
    BY <1>0 DEF TabState
  <2>2. /\ f.event \in {"run rejected", "resume rejected", "abort rejected", "respond rejected"}
        /\ f.event # "approval.pending" /\ f.event # "approval.cleared"
    BY <1>2, RejectionsAreFour
  <2>3. u.done = t.done
    BY <2>1, <2>2 DEF Received, Failed
  <2> QED
    BY <2>2, <2>3 DEF TerminalEvents
<1>3. CASE f.event \notin Rejections /\ f.event \notin {"approval.pending", "approval.cleared"}
  <2>1. f \in RunFrames
    BY <1>0, <1>3 DEF RunFrames, WireFrame
  <2>2. u = RunFrame(t, f)
    BY <1>3, RejectionsAreFour DEF Received
  <2>3. CASE f.event = "run.started"
    <3>1. f.event \notin TerminalEvents
      BY <2>3 DEF TerminalEvents
    <3>2. u = t \/ f.run = t.run \/ t.expecting
      BY <2>2, <2>3 DEF RunFrame
    <3> QED
      BY <2>3, <3>1, <3>2
  <2>4. CASE f.event # "run.started"
    <3>1. CASE f.run = t.run /\ Fresh(t, f)
      <4>1. u = Applied(t, f)
        BY <2>2, <2>4, <3>1 DEF RunFrame
      <4> QED
        BY <2>1, <4>1, AppliedEnds
    <3>2. CASE ~(f.run = t.run /\ Fresh(t, f))
      <4>1. u = t
        BY <2>2, <2>4, <3>2 DEF RunFrame
      <4> QED
        BY <1>0, <4>1 DEF TookEvent
    <3> QED
      BY <3>1, <3>2
  <2> QED
    BY <2>3, <2>4
<1> QED
  BY <1>1, <1>2, <1>3

LEMMA ReceiveServes ==
  ASSUME ChatInductive, ChatInductive', Delivery, Serving, Receive, NEW x \in RunId, Whole(x)'
  PROVE  Serves(x)'
<1>0. /\ tab \in NamedTab /\ down \in Seq(NamedFrame) /\ StoreTypeOK /\ SoundTab /\ SoundFrames
      /\ None \notin RunId
  BY RunIdAssumption DEF ChatInductive, TypeInv, TypeOK, Delivery, RunIdAssumption
<1>1. /\ down # << >> /\ down' = Tail(down)
      /\ UNCHANGED <<runs, lost, link, tails, up>>
      /\ tab' = Received(tab, Head(down))
  BY DEF Receive, managerVars, storeVars
<1>2. PICK f \in NamedFrame : f = down[1] /\ f = Head(down)
  BY <1>0, <1>1, TailFrames
<1>3. /\ Len(down) \in Nat /\ 1 \in 1 .. Len(down)
      /\ \A i \in 1 .. Len(down') : i + 1 \in 1 .. Len(down) /\ down'[i] = down[i + 1]
      /\ \A i \in 1 .. Len(down) : i > 1 => i - 1 \in 1 .. Len(down') /\ down'[i - 1] = down[i]
      /\ \A i \in 1 .. Len(down) : down[i].cursor \in Nat
      /\ f.cursor \in Nat
  BY <1>0, <1>1, <1>2, TailFrames
<1>4. SoundFrame(f)
  BY <1>0, <1>2, <1>3 DEF SoundFrames
<1>5. PICK t \in NamedTab : t = tab
  BY <1>0
<1>6. PICK u : u = tab' /\ u = Received(t, f)
  BY <1>1, <1>2, <1>5
<1>7. t.cursor \in Nat /\ (t.expecting => t.run = None /\ t.cursor = 0)
  BY <1>0, <1>5 DEF SoundTab, NamedTab, TabState
<1>8. \/ SamePlace(t, u) /\ (f.cursor > 0 /\ f.run = t.run => f.cursor <= t.cursor)
      \/ TookEvent(t, f, u)
  BY <1>4, <1>6, <1>7, ReceivedMovesPlace
<1>9. Whole(x) /\ Serves(x) /\ Delivered(x)
  BY <1>1 DEF Whole, Has, Serving, Delivery
<1>10. runs[x].cursor \in Nat
  BY <1>0, <1>9 DEF Whole, Has, StoreTypeOK, RunState
<1>11. \E a, b \in Nat : Carries(down, x, a, b) /\ (tab.run = x => a <= tab.cursor)
  <2>1. \A b \in 0 .. runs[x].cursor : b \in Nat /\ \A a \in 0 .. b : a \in Nat
    BY <1>10
  <2> QED
    BY <1>9, <2>1 DEF Delivered
<1>12. PICK a \in Nat, b \in Nat : Carries(down, x, a, b) /\ (tab.run = x => a <= tab.cursor)
  BY <1>11
<1>13. Holds(down, 1, x) => f.cursor = a + 1 /\ Carries(down', x, a + 1, b)
  BY <1>0, <1>1, <1>2, <1>12, CarriesAfterOwn
<1>14. /\ Tailed(x) => Tailed(x)'
       /\ Resumes(x) => Resumes(x)'
       /\ Online' => Online
  BY <1>1 DEF Tailed, IsOpen, Resumes, IsResume, Online
<1>15. ASSUME Served(x), ~(Holds(down, 1, x) /\ f.event \in TerminalEvents)
       PROVE  Served(x)'
  <2>1. CASE EndInFlight(x)
    <3>1. PICK j \in 1 .. Len(down) : Holds(down, j, x) /\ down[j].event \in TerminalEvents
      BY <2>1 DEF EndInFlight
    <3>2. j > 1
      BY <1>2, <1>15, <3>1
    <3>3. j - 1 \in 1 .. Len(down') /\ down'[j - 1] = down[j]
      BY <1>3, <3>1, <3>2
    <3> QED
      BY <3>1, <3>3 DEF Served, EndInFlight, Holds
  <2> QED
    BY <1>14, <1>15, <2>1 DEF Served
<1>16. TrueFrames(x)'
  BY <1>1, <1>3, <1>9 DEF Serves, TrueFrames, EventAt, Holds
<1>17. FirstIsServed(x)'
  <2> SUFFICES ASSUME NEW i \in 1 .. Len(down'), Holds(down', i, x), down'[i].cursor = 1
               PROVE  Served(x)'
    BY DEF FirstIsServed, Holds
  <2>1. i + 1 \in 1 .. Len(down) /\ Holds(down, i + 1, x) /\ down[i + 1].cursor = 1
    BY <1>3 DEF Holds
  <2>2. Served(x)
    BY <1>9, <2>1 DEF Serves, FirstIsServed
  <2>3. ~Holds(down, 1, x)
    <3> SUFFICES ASSUME Holds(down, 1, x) PROVE FALSE
      OBVIOUS
    <3>1. a + 1 < down'[i].cursor
      BY <1>13 DEF Carries
    <3> QED
      BY <1>12, <3>1
  <2> QED
    BY <1>15, <2>2, <2>3
<1>18. ASSUME tab'.run = x
       PROVE  FollowsWell(x)'
  <2>0. u.run = x
    BY <1>6, <1>18
  <2>1. CASE SamePlace(t, u) /\ (f.cursor > 0 /\ f.run = t.run => f.cursor <= t.cursor)
    <3>1. tab.run = x /\ tab'.cursor = tab.cursor /\ FollowsWell(x)
      BY <1>5, <1>6, <1>9, <2>0, <2>1 DEF SamePlace, Serves
    <3>2. ~Holds(down, 1, x)
      BY <1>2, <1>3, <1>5, <1>7, <2>1, <3>1 DEF FollowsWell, Holds
    <3>3. \A i \in 1 .. Len(down') : Holds(down', i, x) => down'[i].cursor > tab'.cursor
      BY <1>3, <3>1 DEF FollowsWell, Holds
    <3>4. ASSUME ~tab'.done PROVE ~tab.done
      <4>1. f.event = "run.started" => f.cursor > 0
        BY <1>3, <1>4 DEF SoundFrame
      <4>2. ~(f.event = "run.started" /\ (f.run = t.run \/ t.expecting))
        BY <1>0, <1>2, <1>5, <1>7, <3>1, <3>2, <4>1 DEF Holds
      <4> QED
        BY <1>5, <1>6, <3>4, <4>2, ReceivedEnds
    <3>5. ASSUME ~tab'.done, Online' PROVE Served(x)' \/ Resumes(x)'
      BY <1>14, <1>15, <3>1, <3>2, <3>4, <3>5 DEF FollowsWell
    <3>6. ~tab'.done => \A n \in 1 .. tab'.cursor : ~EndsAt(x, n)'
      BY <1>1, <3>1, <3>4 DEF FollowsWell, EndsAt, EventAt
    <3> QED
      BY <3>3, <3>5, <3>6 DEF FollowsWell, Holds
  <2>2. CASE TookEvent(t, f, u)
    <3>1. /\ f.cursor > t.cursor /\ f.run = x /\ tab'.cursor = f.cursor
          /\ t.run = x \/ (t.expecting /\ f.event = "run.started")
      BY <1>6, <2>0, <2>2 DEF TookEvent
    <3>2. Holds(down, 1, x)
      BY <1>2, <1>3, <1>7, <3>1 DEF Holds
    <3>3. f.cursor = a + 1 /\ Carries(down', x, a + 1, b)
      BY <1>13, <3>2
    <3>4. \A i \in 1 .. Len(down') : Holds(down', i, x) => down'[i].cursor > tab'.cursor
      BY <3>1, <3>3 DEF Carries
    <3> SUFFICES ASSUME ~tab'.done
                 PROVE  /\ \A n \in 1 .. tab'.cursor : ~EndsAt(x, n)'
                        /\ Online' => Served(x)' \/ Resumes(x)'
      BY <3>4 DEF FollowsWell, Holds
    <3>5. /\ f.event \notin TerminalEvents
          /\ ~t.done \/ (f.event = "run.started" /\ (f.run = t.run \/ t.expecting))
      BY <1>6, <2>2, ReceivedEnds
    <3>6. f.event = EventAt(x, f.cursor)
      BY <1>2, <1>3, <1>9, <3>2 DEF Serves, TrueFrames
    <3>7. CASE t.run = x /\ ~t.done
      <4>1. FollowsWell(x) /\ a <= tab.cursor /\ ~tab.done
        BY <1>5, <1>9, <1>12, <3>7 DEF Serves
      <4>2. \A n \in 1 .. a : ~EndsAt(x, n)
        BY <1>5, <1>7, <1>12, <4>1 DEF FollowsWell
      <4>3. \A n \in 1 .. a + 1 : n \in 1 .. a \/ n = f.cursor
        BY <1>12, <3>3
      <4>4. \A n \in 1 .. tab'.cursor : ~EndsAt(x, n)'
        BY <1>1, <3>1, <3>3, <3>5, <3>6, <4>2, <4>3 DEF EndsAt, EventAt
      <4>5. Online' => Served(x)' \/ Resumes(x)'
        BY <1>14, <1>15, <3>5, <4>1 DEF FollowsWell
      <4> QED
        BY <4>4, <4>5
    <3>8. CASE f.event = "run.started"
      <4>1. f.cursor = 1
        BY <1>4, <3>8 DEF SoundFrame
      <4>2. \A n \in 1 .. 1 : n = f.cursor
        BY <4>1
      <4>3. \A n \in 1 .. tab'.cursor : ~EndsAt(x, n)'
        BY <1>1, <3>1, <3>5, <3>6, <4>1, <4>2 DEF EndsAt, EventAt
      <4>4. Served(x)
        BY <1>2, <1>3, <1>9, <3>2, <4>1 DEF Serves, FirstIsServed
      <4> QED
        BY <1>15, <3>5, <4>3, <4>4
    <3> QED
      BY <3>1, <3>5, <3>7, <3>8
  <2> QED
    BY <1>8, <2>1, <2>2
<1> QED
  BY <1>16, <1>17, <1>18 DEF Serves

-----------------------------------------------------------------------------
(***************************************************************************)
(* The theorem about behaviours within the cap.                            *)
(***************************************************************************)
LEMMA StepKeepsServing ==
  ASSUME ChatInductive, ChatInductive', Delivery, Serving, RoomForTails, [SystemNext]_vars
  PROVE  Serving'
<1>1. EndedLogs'
  BY StepMaps, ManagerKeepsEnds DEF ChatInductive, Serving
<1>2. ASSUME NEW x \in RunId, Whole(x)'
      PROVE  Serves(x)'
  <2>1. CASE UNCHANGED vars
    <3>1. UNCHANGED <<runs, lost, link, tails, down, tab, up>>
      BY <2>1 DEF vars, managerVars, storeVars, wireVars, tabVars
    <3>2. Whole(x) /\ Serves(x)
      BY <1>2, <3>1 DEF Whole, Has, Serving
    <3> QED
      BY <3>1, <3>2 DEF Serves, TrueFrames, FirstIsServed, FollowsWell, EndsAt, EventAt, Holds,
                        Served, Tailed, EndInFlight, Resumes, IsResume, IsOpen, Online
  <2>2. CASE (\E r \in RunId : Send(r)) \/ Stop \/ Respond \/ NewChat
    BY <1>2, <2>2, UserServes
  <2>3. CASE Lose \/ Reload \/ ServerDies
    BY <1>2, <2>3, BreakServes
  <2>4. CASE Connect
    BY <1>2, <2>4, ConnectServes
  <2>5. CASE Deliver
    BY <1>1, <1>2, <2>5, DeliverServes
  <2>6. CASE Receive
    BY <1>2, <2>6, ReceiveServes
  <2>7. CASE GatewayAnswers
    BY <1>1, <1>2, <2>7, AnswerServes
  <2>8. CASE Background
    BY <1>2, <2>8, BackgroundServes
  <2> QED
    BY <2>1, <2>2, <2>3, <2>4, <2>5, <2>6, <2>7, <2>8 DEF SystemNext
<1> QED
  BY <1>1, <1>2 DEF Serving

LEMMA InitServing == SystemInit => Serving
BY DEF SystemInit, ManagerInit, StoreInit, NoRuns, Serving, EndedLogs, Whole, Has

(* When the wire is quiet, a tab that is served has the whole log.         *)
LEMMA ServingIsCaughtUp ==
  ASSUME ChatInductive, Delivery, Serving
  PROVE  CaughtUp
<1> SUFFICES ASSUME Online, up = << >>, down = << >>, tab.run # None, ~tab.done, Whole(tab.run)
             PROVE  tab.cursor = runs[tab.run].cursor
  BY DEF CaughtUp, Quiet
<1>0. StoreTypeOK /\ tab \in NamedTab
  BY DEF ChatInductive, TypeInv, TypeOK
<1>1. PICK x \in RunId : x = tab.run
  BY <1>0 DEF NamedTab, TabState
<1>2. /\ Serves(x) /\ Delivered(x) /\ Len(<< >>) = 0
      /\ tab.cursor \in Nat /\ runs[x].cursor \in Nat /\ tab.cursor <= runs[x].cursor
  BY <1>0, <1>1, EmptySeq
     DEF Serving, Delivery, SoundTab, NamedTab, TabState, Whole, Has, StoreTypeOK, RunState
<1>3. Tailed(x)
  BY <1>1, <1>2 DEF Serves, FollowsWell, Served, EndInFlight, Resumes
<1>4. PICK a \in 0 .. runs[x].cursor :
        Carries(down, x, a, runs[x].cursor) /\ a <= tab.cursor
  BY <1>1, <1>2, <1>3 DEF Delivered
<1>5. ~(a < runs[x].cursor)
  <2> SUFFICES ASSUME a < runs[x].cursor PROVE FALSE
    OBVIOUS
  <2>1. a + 1 \in a + 1 .. runs[x].cursor
    BY <1>2
  <2> QED
    BY <1>2, <1>4, <2>1 DEF Carries
<1> QED
  BY <1>1, <1>2, <1>4, <1>5

(* Nothing is lost (chatRun.ts 6-8, chatSocket.ts 371-378): as long as     *)
(* every socket has room for a subscription more (chatRun.ts 187), a tab   *)
(* that follows an open run has everything the log of it holds whenever    *)
(* the wire is quiet, whatever connections, page loads and crashes came    *)
(* before.                                                                 *)
THEOREM NothingIsLostWithinTheCap == SystemSpec /\ []RoomForTails => []CaughtUp
<1> DEFINE Inv == ChatInductive /\ TailsOfOpenLogs /\ Delivery /\ Serving
<1>1. SystemInit => Inv
  BY InitTypes, InitTails, InitDelivery, InitServing
<1>2. Inv /\ [SystemNext]_vars /\ RoomForTails => Inv'
  BY StepKeepsInductive, StepKeepsOpen, StepKeepsDelivery, StepKeepsServing
<1>3. Inv => CaughtUp
  BY ServingIsCaughtUp
<1> QED
  BY <1>1, <1>2, <1>3, PTL DEF SystemSpec

-----------------------------------------------------------------------------
(***************************************************************************)
(* One subscription per run: with no more runs than the cap allows, no     *)
(* socket goes over it.                                                    *)
(***************************************************************************)
Distinct(ts) == \A i, j \in 1 .. Len(ts) : ts[i].run = ts[j].run => i = j

DistinctTails == \A s \in Socket : Distinct(tails[s])

LEMMA PickedStayDistinct ==
  ASSUME NEW ts \in Seq(TailState), Distinct(ts), NEW I \in SUBSET DOMAIN ts
  PROVE  Distinct(Subsequence(ts, I))
<1> DEFINE at(k) == CHOOSE i \in I : Rank(i, I) = k
           p == Subsequence(ts, I)
<1>1. Len(ts) \in Nat /\ DOMAIN ts = 1 .. Len(ts) /\ Len(p) = Cardinality(I)
  BY SubsequenceOf, LenProperties
<1>2. \A k \in 1 .. Cardinality(I) : \E i \in I : Rank(i, I) = k
  BY <1>1, RanksAreOnto
<1>3. \A k \in 1 .. Len(p) : at(k) \in I /\ Rank(at(k), I) = k /\ p[k] = ts[at(k)]
  BY <1>1, <1>2 DEF Subsequence
<1> HIDE DEF at, p
<1>4. ASSUME NEW k \in 1 .. Len(p), NEW l \in 1 .. Len(p), p[k].run = p[l].run
      PROVE  k = l
  <2>1. at(k) \in 1 .. Len(ts) /\ at(l) \in 1 .. Len(ts) /\ ts[at(k)].run = ts[at(l)].run
    BY <1>1, <1>3, <1>4
  <2>2. at(k) = at(l)
    BY <2>1 DEF Distinct
  <2> QED
    BY <1>3, <2>2
<1> QED
  BY <1>4 DEF Distinct, p

LEMMA RetainedStayDistinct ==
  ASSUME NEW ts \in Seq(TailState), Distinct(ts)
  PROVE  Distinct(Retained(ts))
BY RetainedTails DEF Distinct

LEMMA KeptStayDistinct ==
  ASSUME NEW ts \in Seq(TailState), Distinct(ts)
  PROVE  Distinct(Kept(ts))
<1> DEFINE m == IF Len(ts) > MaxTails THEN 2 ELSE 1
<1>1. Len(ts) \in Nat /\ \A i \in 1 .. Len(ts) : ts[i] \in TailState
  BY ElementOfSeq, LenProperties
<1>2. m \in 1 .. 2
  OBVIOUS
<1> HIDE DEF m
<1>3. \A i \in m .. Len(ts) : ts[i] \in TailState
  BY <1>1, <1>2
<1>4. /\ Len(SubSeq(ts, m, Len(ts))) = IF m <= Len(ts) THEN Len(ts) - m + 1 ELSE 0
      /\ \A i \in 1 .. Len(ts) - m + 1 : SubSeq(ts, m, Len(ts))[i] = ts[m + i - 1]
  BY <1>1, <1>2, <1>3, SubSeqProperties
<1>5. Kept(ts) = SubSeq(ts, m, Len(ts))
  BY DEF Kept, m
<1>6. \A i \in 1 .. Len(Kept(ts)) : m + i - 1 \in 1 .. Len(ts) /\ Kept(ts)[i] = ts[m + i - 1]
  BY <1>1, <1>2, <1>4, <1>5
<1>7. ASSUME NEW i \in 1 .. Len(Kept(ts)), NEW j \in 1 .. Len(Kept(ts)),
             Kept(ts)[i].run = Kept(ts)[j].run
      PROVE  i = j
  <2>1. m + i - 1 = m + j - 1
    BY <1>6, <1>7 DEF Distinct
  <2> QED
    BY <1>2, <2>1
<1> QED
  BY <1>7 DEF Distinct

LEMMA AddedStayDistinct ==
  ASSUME NEW ts \in Seq(TailState), Distinct(ts), NEW r \in RunId,
         NEW new \in TailState, new.run = r
  PROVE  /\ Append(WithoutTail(ts, r), new) \in Seq(TailState)
         /\ Distinct(WithoutTail(ts, r)) /\ Distinct(Append(WithoutTail(ts, r), new))
<1> DEFINE I == {i \in DOMAIN ts : ts[i].run # r}
           others == WithoutTail(ts, r)
<1>1. Distinct(others)
  BY PickedStayDistinct DEF WithoutTail
<1>2. /\ others \in Seq(TailState) /\ Len(others) \in Nat
      /\ \A k \in 1 .. Len(others) : others[k].run # r
  BY OtherTails, LenProperties
<1> HIDE DEF others
<1>3. /\ Append(others, new) \in Seq(TailState)
      /\ Len(Append(others, new)) = Len(others) + 1
      /\ \A i \in 1 .. Len(others) : Append(others, new)[i] = others[i]
      /\ Append(others, new)[Len(others) + 1] = new
  BY <1>2, AppendProperties
<1>4. \A i \in 1 .. Len(Append(others, new)) : i \in 1 .. Len(others) \/ i = Len(others) + 1
  BY <1>2, <1>3
<1>5. Distinct(Append(others, new))
  BY <1>1, <1>2, <1>3, <1>4 DEF Distinct
<1> QED
  BY <1>1, <1>3, <1>5 DEF others

LEMMA NotifyKeepsDistinct ==
  ASSUME tails \in [Socket -> Seq(TailState)], DistinctTails, NEW r, NEW t, NEW early,
         Notify(r, t, early)
  PROVE  DistinctTails'
<1> SUFFICES ASSUME NEW s \in Socket PROVE Distinct(tails'[s])
  BY DEF DistinctTails, Distinct
<1> DEFINE I == DOMAIN tails[s] \ LiveTails(s, r)
           ts == IF HasTerminal(News(r)) THEN Subsequence(tails[s], I) ELSE tails[s]
<1>1. tails[s] \in Seq(TailState) /\ Distinct(tails[s])
  BY DEF DistinctTails
<1>2. tails'[s] = Retained(ts)
  BY DEF Notify, TailsAfter, HasTerminal
<1>3. Subsequence(tails[s], I) \in Seq(TailState) /\ Distinct(Subsequence(tails[s], I))
  BY <1>1, PickedStayDistinct, SubsequenceOf
<1>4. ts \in Seq(TailState) /\ Distinct(ts)
  BY <1>1, <1>3
<1> HIDE DEF ts
<1> QED
  BY <1>2, <1>4, RetainedStayDistinct

LEMMA AttachKeepsDistinct ==
  ASSUME StoreTypeOK', tails \in [Socket -> Seq(TailState)], DistinctTails, NEW s \in Socket,
         NEW r \in RunId, r \in DOMAIN runs', NEW k \in Nat, Attach(s, r, k)
  PROVE  DistinctTails'
<1> DEFINE gate == ReplayGate(runs'[r], k)
           others == WithoutTail(tails[s], r)
           new == [run |-> r, gate |-> gate, live |-> TRUE]
           added == IF runs'[r].done THEN others ELSE Append(others, new)
<1>1. gate \in Nat
  BY ReplayGateIsTyped
<1>2. tails' = [z \in Socket |-> Retained(IF z = s THEN Kept(added) ELSE tails[z])]
  BY DEF Attach, Kept, ReplayGate
<1>3. new \in TailState /\ new.run = r
  BY <1>1 DEF TailState
<1>4. tails[s] \in Seq(TailState) /\ Distinct(tails[s]) /\ others \in Seq(TailState)
  BY OtherTails DEF DistinctTails
<1> HIDE DEF gate, new
<1>5. /\ Append(others, new) \in Seq(TailState)
      /\ Distinct(others) /\ Distinct(Append(others, new))
  BY <1>3, <1>4, AddedStayDistinct
<1>6. added \in Seq(TailState) /\ Distinct(added)
  BY <1>4, <1>5
<1> HIDE DEF added
<1>7. Kept(added) \in Seq(TailState) /\ Distinct(Kept(added))
  BY <1>6, KeptTails, KeptStayDistinct
<1>8. ASSUME NEW z \in Socket
      PROVE  Distinct(tails'[z])
  <2>1. CASE z = s
    BY <1>2, <1>7, <2>1, RetainedStayDistinct
  <2>2. CASE z # s
    <3>1. tails[z] \in Seq(TailState) /\ Distinct(tails[z]) /\ tails'[z] = Retained(tails[z])
      BY <1>2, <2>2 DEF DistinctTails
    <3> QED
      BY <3>1, RetainedStayDistinct
  <2> QED
    BY <2>1, <2>2
<1> QED
  BY <1>8 DEF DistinctTails, Distinct

LEMMA StepKeepsDistinct ==
  ASSUME ChatInductive, ChatInductive', DistinctTails, [SystemNext]_vars
  PROVE  DistinctTails'
<1>0. /\ StoreTypeOK' /\ up \in Seq(Command) /\ calls \subseteq Call
      /\ tails \in [Socket -> Seq(TailState)] /\ Len(<< >>) = 0
  BY EmptySeq DEF ChatInductive, TypeInv, TypeOK
<1>1. ASSUME UNCHANGED tails
      PROVE  DistinctTails'
  BY <1>1 DEF DistinctTails, Distinct
<1>2. CASE UNCHANGED vars
  BY <1>1, <1>2 DEF vars, wireVars
<1>3. CASE (\E r \in RunId : Send(r)) \/ Stop \/ Respond \/ NewChat
  BY <1>1, <1>3 DEF Send, Stop, Respond, NewChat, wireVars
<1>4. CASE Lose \/ Reload \/ Connect \/ Receive
  BY <1>1, <1>4 DEF Lose, Reload, Connect, Receive, LinkLost, Connected, wireVars
<1>5. CASE Deliver
  <2>1. up # << >>
    BY <1>5 DEF Deliver
  <2>2. Head(up).cursor \in Nat
    <3>1. Head(up) \in Command
      BY <1>0, <2>1, HeadTailProperties
    <3> QED
      BY <3>1 DEF Command
  <2>3. PICK s \in Socket, r \in RunId :
          \/ RunCommand(s, r)
          \/ ResumeCommand(s, r, Head(up).cursor)
          \/ AbortCommand(s, r)
          \/ RespondCommand(s, r, Head(up).cursor)
    BY <1>5 DEF Deliver
  <2>4. CASE RunCommand(s, r) \/ RespondCommand(s, r, Head(up).cursor)
    BY <1>1, <2>4 DEF RunCommand, RespondCommand
  <2>5. CASE AbortCommand(s, r)
    BY <1>0, <2>5, NotifyKeepsDistinct DEF AbortCommand
  <2>6. CASE ResumeCommand(s, r, Head(up).cursor)
    <3>1. CASE UNCHANGED tails
      BY <1>1, <3>1
    <3>2. CASE ((Has(r) /\ UNCHANGED managerVars) \/ Rebegin(r)) /\ Attach(s, r, Head(up).cursor)
      <4>1. r \in DOMAIN runs'
        BY <3>2, RebeginMoves DEF Has, managerVars, storeVars
      <4> QED
        BY <1>0, <2>2, <3>2, <4>1, AttachKeepsDistinct
    <3> QED
      BY <2>6, <3>1, <3>2 DEF ResumeCommand
  <2> QED
    BY <2>3, <2>4, <2>5, <2>6
<1>6. CASE GatewayAnswers
  <2>1. PICK c \in calls :
          RespondAccepted(c) \/ RunAccepted(c) \/ AbortAccepted(c) \/ Rejected(c)
    BY <1>6 DEF GatewayAnswers
  <2>2. c.socket \in Socket /\ c.run \in RunId
    BY <1>0 DEF Call
  <2>3. CASE RespondAccepted(c)
    BY <1>0, <2>3, NotifyKeepsDistinct DEF RespondAccepted
  <2>4. CASE RunAccepted(c)
    <3>1. c.run \in DOMAIN runs' /\ Attach(c.socket, c.run, 0)
      BY <2>4, StartMoves DEF RunAccepted
    <3> QED
      BY <1>0, <2>2, <3>1, AttachKeepsDistinct
  <2>5. CASE AbortAccepted(c) \/ Rejected(c)
    BY <1>1, <2>5 DEF AbortAccepted, Rejected
  <2> QED
    BY <2>1, <2>3, <2>4, <2>5
<1>7. CASE Background
  <2>1. CASE \E s \in Socket : Disconnect(s)
    <3>1. PICK s \in Socket : tails' = [tails EXCEPT ![s] = << >>]
      BY <2>1 DEF Disconnect
    <3>2. \A z \in Socket : tails'[z] = IF z = s THEN << >> ELSE tails[z]
      BY <1>0, <3>1
    <3> QED
      BY <1>0, <3>2 DEF DistinctTails, Distinct
  <2>2. CASE (\E p \in PumpId : Pumped(p)) \/ \E r \in RunId : Reaped(r)
    BY <1>0, <2>2, NotifyKeepsDistinct DEF Pumped, Reaped
  <2>3. CASE TimePasses
    <3>1. ASSUME NEW s \in Socket
          PROVE  Distinct(tails'[s])
      <4>1. tails[s] \in Seq(TailState) /\ Distinct(tails[s]) /\ tails'[s] = Retained(tails[s])
        BY <1>0, <2>3 DEF TimePasses, DistinctTails
      <4> QED
        BY <4>1, RetainedStayDistinct
    <3> QED
      BY <3>1 DEF DistinctTails, Distinct
  <2> QED
    BY <1>7, <2>1, <2>2, <2>3 DEF Background
<1>8. CASE ServerDies
  BY <1>0, <1>8 DEF ServerDies, ServerCrash, DistinctTails, Distinct
<1> QED
  BY <1>2, <1>3, <1>4, <1>5, <1>6, <1>7, <1>8 DEF SystemNext

LEMMA InitDistinct == SystemInit => DistinctTails
<1>1. Len(<< >>) = 0
  BY EmptySeq
<1> QED
  BY <1>1 DEF SystemInit, WireInit, DistinctTails, Distinct

(* Subscriptions to other runs than r are fewer than the runs.             *)
LEMMA DistinctTailsLeaveRoom ==
  ASSUME ChatInductive, DistinctTails, IsFiniteSet(RunId), Cardinality(RunId) <= MaxTails
  PROVE  RoomForTails
<1> SUFFICES ASSUME NEW s \in Socket, NEW r \in RunId
             PROVE  Len(WithoutTail(tails[s], r)) < MaxTails
  BY DEF RoomForTails
<1> DEFINE I == {i \in DOMAIN tails[s] : tails[s][i].run # r}
           ts == WithoutTail(tails[s], r)
           T == RunId \ {r}
<1>1. tails[s] \in Seq(TailState) /\ Distinct(tails[s])
  BY DEF ChatInductive, TypeInv, TypeOK, DistinctTails
<1>2. Distinct(ts)
  <2>1. I \in SUBSET DOMAIN tails[s] /\ ts = Subsequence(tails[s], I)
    BY DEF WithoutTail
  <2> HIDE DEF I, ts
  <2> QED
    BY <1>1, <2>1, PickedStayDistinct
<1>3. ts \in Seq(TailState) /\ \A i \in 1 .. Len(ts) : ts[i].run # r
  BY <1>1, OtherTails
<1> HIDE DEF ts
<1>4. Len(ts) \in Nat /\ \A i \in 1 .. Len(ts) : ts[i] \in TailState
  BY <1>3, LenProperties, ElementOfSeq
<1>5. \A i \in 1 .. Len(ts) : ts[i].run \in T
  BY <1>3, <1>4 DEF TailState
<1> DEFINE S == 1 .. Len(ts)
           runOf == [i \in S |-> ts[i].run]
<1>6. /\ IsFiniteSet(T) /\ Cardinality(T) = Cardinality(RunId) - 1
      /\ Cardinality(RunId) \in Nat /\ Cardinality(T) \in Nat
  BY FS_RemoveElement, FS_CardinalityType
<1>7. runOf \in Injection(S, T)
  BY <1>2, <1>5 DEF Injection, IsInjective, Distinct
<1>8. Cardinality(S) = Len(ts)
  <2>1. ASSUME NEW n \in Nat PROVE Cardinality(1 .. n) = n
    BY FS_Interval
  <2> QED
    BY <1>4, <2>1
<1> HIDE DEF S, T, runOf
<1>9. Cardinality(S) <= Cardinality(T)
  BY <1>6, <1>7, FS_Injection
<1> QED
  BY <1>4, <1>6, <1>8, <1>9, ChatRunAssumption DEF ts, ChatRunAssumption

(* Nothing is lost, whatever happens, when there are no more runs than a   *)
(* socket may subscribe to (chatRun.ts 45, 187): then every state of the   *)
(* chat has room for tails.                                                *)
THEOREM NothingIsLost ==
  ASSUME IsFiniteSet(RunId), Cardinality(RunId) <= MaxTails
  PROVE  SystemSpec => []CaughtUp
<1> DEFINE Inv == ChatInductive /\ TailsOfOpenLogs /\ Delivery /\ Serving /\ DistinctTails
<1>1. SystemInit => Inv
  BY InitTypes, InitTails, InitDelivery, InitServing, InitDistinct
<1>2. Inv /\ [SystemNext]_vars => Inv'
  <2> SUFFICES ASSUME Inv, [SystemNext]_vars PROVE Inv'
    OBVIOUS
  <2>1. ChatInductive' /\ TailsOfOpenLogs' /\ Delivery'
    BY StepKeepsInductive, StepKeepsOpen, StepKeepsDelivery
  <2>2. RoomForTails
    BY DistinctTailsLeaveRoom
  <2>3. Serving' /\ DistinctTails'
    BY <2>1, <2>2, StepKeepsServing, StepKeepsDistinct
  <2> QED
    BY <2>1, <2>3
<1>3. Inv => CaughtUp
  BY ServingIsCaughtUp
<1> QED
  BY <1>1, <1>2, <1>3, PTL DEF SystemSpec

-----------------------------------------------------------------------------
(***************************************************************************)
(* A paused run shows its card.                                            *)
(*                                                                         *)
(* Of the events e of a log: gate g is open after k events when it was     *)
(* asked for and nothing was asked or answered since.                      *)
(***************************************************************************)
IsGate(e, n) == e[n].event \in {"approval.request", "approval.responded"}

Asks(e, n) == e[n].event = "approval.request"

Pending(e, k, g) == g \in 1 .. k /\ Asks(e, g) /\ \A n \in g + 1 .. k : ~IsGate(e, n)

OneAtATime(e, k) ==
  \A m, n \in 1 .. k :
    m < n /\ Asks(e, m) /\ Asks(e, n) => \E l \in m + 1 .. n - 1 : IsGate(e, l) /\ ~Asks(e, l)

CardOf(x, g) == [run |-> x, gate |-> g]

\* Tab t shows run x in flight, and no card of another run is in the way.
Shows(t, e, x) ==
  /\ t.run = x /\ t.status # "idle"
  /\ OneAtATime(e, t.cursor)
  /\ LastCard(t).run \in {None, x}

\* The cards of the run are of the gate that is open where the tab has come to,
\* and if one is, the tab has its card.
InStep(t, e, x) ==
  /\ t.run = x /\ OneAtATime(e, t.cursor) =>
       /\ t.card.run = x => Pending(e, t.cursor, t.card.gate)
       /\ t.cleared.run = x => Pending(e, t.cursor, t.cleared.gate)
  /\ Shows(t, e, x) =>
       \A g \in 1 .. t.cursor : Pending(e, t.cursor, g) => LastCard(t) = CardOf(x, g)

-----------------------------------------------------------------------------
(***************************************************************************)
(* The inductive invariant, on top of Serving.                             *)
(***************************************************************************)
\* A frame that is logged, or shows nothing of a log.
Plain(f) ==
  /\ f.cursor = 0 => f.event \notin LogEvents
  /\ f.event = "approval.request" => f.gate = f.cursor

\* A frame that shows an open gate of x again.
Reshows(f, x) == f.run = x /\ f.cursor = 0 /\ f.event = "approval.request"

CardFrames ==
  \A i \in 1 .. Len(down) : Plain(down[i]) \/ \E x \in RunId : Reshows(down[i], x) /\ Known(x)

TabInStep ==
  /\ tab.run # None => tab.shown \in {None, tab.run}
  /\ tab.done => tab.status = "idle"
  /\ tab.card # NoCard => Known(tab.card.run)
  /\ tab.cleared # NoCard => Known(tab.cleared.run)

\* A card of x is of a gate that the tab has seen.
SeenCard(c, x) ==
  c.run = x =>
    /\ c.gate > 0 /\ c.gate <= runs[x].cursor
    /\ \A i \in 1 .. Len(down) : Holds(down, i, x) => c.gate < down[i].cursor
    /\ \A i \in 1 .. Len(up) : IsResume(i) /\ up[i].run = x => c.gate <= up[i].cursor
    /\ tab.run = x => c.gate <= tab.cursor

\* A gate that is shown again is still open when its frame is read.
Reshown(x) ==
  \A i \in 1 .. Len(down) : Reshows(down[i], x) =>
    /\ ~Resumes(x)
    /\ down[i].gate > 0 /\ down[i].gate <= runs[x].cursor
    /\ \A j \in 1 .. Len(down) : Holds(down, j, x) => down[i].gate < down[j].cursor
    /\ \A j \in 1 .. i : Holds(down, j, x) => ~IsGate(runs[x].events, down[j].cursor)
    /\ tab.run = x => Pending(runs[x].events, tab.cursor, down[i].gate)

BeingAnswered(x, g) ==
  \/ \E i \in 1 .. Len(up) : up[i].do = "respond" /\ up[i].run = x /\ up[i].cursor = g
  \/ \E c \in calls : c.do = "respond" /\ c.run = x /\ c.gate = g /\ IsOpen(c.socket)
  \/ <<x, g>> \in answered
  \/ \E i \in 1 .. Len(down) : down[i].event = "respond rejected"

BeingShown(x, g) ==
  \/ Resumes(x)
  \/ \E i \in 1 .. Len(down) : Reshows(down[i], x) /\ down[i].gate = g

\* Something is on its way that closes the gate.
MovesOn(x) ==
  \E n \in tab.cursor + 1 .. runs[x].cursor : IsGate(runs[x].events, n) \/ EndsAt(x, n)

\* An open gate without a card on the screen is being answered, or will be shown.
CardIsDue(x) ==
  Online /\ Shows(tab, runs[x].events, x) /\ tab.card = NoCard =>
    \A g \in 1 .. tab.cursor : Pending(runs[x].events, tab.cursor, g) =>
      BeingAnswered(x, g) \/ BeingShown(x, g) \/ MovesOn(x)

Carded(x) ==
  /\ SeenCard(tab.card, x) /\ SeenCard(tab.cleared, x)
  /\ Reshown(x)
  /\ InStep(tab, runs[x].events, x)
  /\ CardIsDue(x)

Carding == CardFrames /\ TabInStep /\ \A x \in RunId : Whole(x) => Carded(x)

-----------------------------------------------------------------------------
(***************************************************************************)
(* Open gates.                                                             *)
(***************************************************************************)
AgreeUpTo(e, d, k) == \A n \in 1 .. k : e[n].event = d[n].event

LEMMA PendingAgrees ==
  ASSUME NEW e, NEW d, NEW k \in Nat, AgreeUpTo(e, d, k)
  PROVE  /\ \A g : Pending(e, k, g) <=> Pending(d, k, g)
         /\ OneAtATime(e, k) <=> OneAtATime(d, k)
<1>1. \A n \in 1 .. k : (Asks(e, n) <=> Asks(d, n)) /\ (IsGate(e, n) <=> IsGate(d, n))
  BY DEF AgreeUpTo, Asks, IsGate
<1>2. \A m, n \in 1 .. k : \A l \in m + 1 .. n - 1 : l \in 1 .. k
  OBVIOUS
<1>3. \A g \in 1 .. k : \A n \in g + 1 .. k : n \in 1 .. k
  OBVIOUS
<1> QED
  BY <1>1, <1>2, <1>3 DEF Pending, OneAtATime

LEMMA PendingIsUnique ==
  ASSUME NEW e, NEW k \in Nat, NEW g, NEW h, Pending(e, k, g), Pending(e, k, h)
  PROVE  g = h
<1>1. g \in 1 .. k /\ h \in 1 .. k /\ IsGate(e, g) /\ IsGate(e, h)
  BY DEF Pending, Asks, IsGate
<1>2. ~(g < h)
  BY <1>1 DEF Pending
<1>3. ~(h < g)
  BY <1>1 DEF Pending
<1> QED
  BY <1>1, <1>2, <1>3

\* One event more: it opens a gate, closes the one that is open, or is no gate.
LEMMA PendingMoves ==
  ASSUME NEW e, NEW k \in Nat
  PROVE  /\ ~IsGate(e, k + 1) => \A g : Pending(e, k + 1, g) <=> Pending(e, k, g)
         /\ Asks(e, k + 1) => \A g : Pending(e, k + 1, g) <=> g = k + 1
         /\ IsGate(e, k + 1) /\ ~Asks(e, k + 1) => \A g : ~Pending(e, k + 1, g)
<1>1. ASSUME NEW g, Pending(e, k + 1, g), g # k + 1
      PROVE  ~IsGate(e, k + 1) /\ Pending(e, k, g)
  <2>1. k + 1 \in g + 1 .. k + 1 /\ g \in 1 .. k
    BY <1>1 DEF Pending
  <2>2. \A n \in g + 1 .. k : n \in g + 1 .. k + 1
    BY <2>1
  <2> QED
    BY <1>1, <2>1, <2>2 DEF Pending
<1>2. ASSUME NEW g, Pending(e, k, g), ~IsGate(e, k + 1)
      PROVE  Pending(e, k + 1, g)
  <2>1. g \in 1 .. k
    BY <1>2 DEF Pending
  <2>2. \A n \in g + 1 .. k + 1 : n \in g + 1 .. k \/ n = k + 1
    BY <2>1
  <2> QED
    BY <1>2, <2>1, <2>2 DEF Pending
<1>3. ASSUME Pending(e, k + 1, k + 1)
      PROVE  Asks(e, k + 1) /\ IsGate(e, k + 1)
  BY <1>3 DEF Pending, Asks, IsGate
<1>4. ASSUME Asks(e, k + 1)
      PROVE  IsGate(e, k + 1) /\ Pending(e, k + 1, k + 1)
  <2>1. \A n \in (k + 1) + 1 .. k + 1 : FALSE
    OBVIOUS
  <2>2. k + 1 \in 1 .. k + 1
    OBVIOUS
  <2> QED
    BY <1>4, <2>1, <2>2 DEF Pending, Asks, IsGate
<1> QED
  BY <1>1, <1>2, <1>3, <1>4

LEMMA OneAtATimeMoves ==
  ASSUME NEW e, NEW k \in Nat, OneAtATime(e, k + 1)
  PROVE  /\ OneAtATime(e, k)
         /\ Asks(e, k + 1) => \A g : ~Pending(e, k, g)
<1>1. \A n \in 1 .. k : n \in 1 .. k + 1
  OBVIOUS
<1>2. OneAtATime(e, k)
  BY <1>1 DEF OneAtATime
<1>3. ASSUME Asks(e, k + 1), NEW g, Pending(e, k, g)
      PROVE  FALSE
  <2>1. g \in 1 .. k + 1 /\ k + 1 \in 1 .. k + 1 /\ g < k + 1 /\ Asks(e, g)
    BY <1>3 DEF Pending
  <2>2. PICK l \in g + 1 .. (k + 1) - 1 : IsGate(e, l)
    BY <1>3, <2>1 DEF OneAtATime
  <2>3. l \in g + 1 .. k
    BY <2>1, <2>2
  <2> QED
    BY <1>3, <2>2, <2>3 DEF Pending
<1> QED
  BY <1>2, <1>3

\* Nothing but gates moves an open gate.
LEMMA PendingStays ==
  ASSUME NEW e, NEW j \in Nat, NEW k \in Nat, j <= k, NEW g,
         \A n \in j + 1 .. k : ~IsGate(e, n)
  PROVE  Pending(e, j, g) => Pending(e, k, g)
<1> SUFFICES ASSUME Pending(e, j, g) PROVE Pending(e, k, g)
  OBVIOUS
<1>1. g \in 1 .. j /\ \A n \in g + 1 .. k : n \in g + 1 .. j \/ n \in j + 1 .. k
  BY DEF Pending
<1>2. g \in 1 .. k
  BY <1>1
<1> QED
  BY <1>1, <1>2 DEF Pending

-----------------------------------------------------------------------------
(***************************************************************************)
(* The gates of a log.                                                     *)
(***************************************************************************)
LEMMA RanksIncrease ==
  ASSUME NEW n \in Nat, NEW I \in SUBSET (1 .. n), NEW i \in I, NEW j \in I
  PROVE  Rank(i, I) < Rank(j, I) <=> i < j
<1> DEFINE Upto(k) == {l \in I : l <= k}
<1>0. \A k \in I : k \in Int
  OBVIOUS
<1>1. \A k \in I : IsFiniteSet(Upto(k)) /\ Cardinality(Upto(k)) \in Nat
  BY RanksAreOnto, FS_Subset, FS_CardinalityType
<1>2. ASSUME NEW k \in I, NEW l \in I, k < l
      PROVE  Rank(k, I) < Rank(l, I)
  <2>1. Upto(k) \subseteq Upto(l)
    <3> SUFFICES ASSUME NEW m \in I, m <= k PROVE m <= l
      OBVIOUS
    <3> QED
      BY <1>0, <1>2
  <2>2. l \in Upto(l) /\ l \notin Upto(k)
    BY <1>0, <1>2
  <2>3. Cardinality(Upto(k)) <= Cardinality(Upto(l)) /\ Cardinality(Upto(k)) # Cardinality(Upto(l))
    BY <1>1, <2>1, <2>2, FS_Subset
  <2> QED
    BY <1>1, <2>3 DEF Rank
<1>3. Rank(i, I) \in Int /\ Rank(j, I) \in Int
  BY <1>1 DEF Rank
<1> QED
  BY <1>0, <1>2, <1>3

GatesOf(e) == {i \in DOMAIN e : IsGate(e, i)}

LEMMA GatesAre ==
  ASSUME NEW e \in Seq(Event)
  PROVE  /\ Len(e) \in Nat
         /\ GatesOf(e) = {i \in 1 .. Len(e) : IsGate(e, i)}
         /\ GatesOf(e) \in SUBSET (1 .. Len(e))
         /\ Cardinality(GatesOf(e)) \in Nat
         /\ Gates(e) \in Seq(Event)
         /\ DOMAIN Gates(e) = 1 .. Cardinality(GatesOf(e))
         /\ Len(Gates(e)) = Cardinality(GatesOf(e))
         /\ \A i \in GatesOf(e) : /\ Rank(i, GatesOf(e)) \in DOMAIN Gates(e)
                                  /\ Gates(e)[Rank(i, GatesOf(e))] = e[i]
<1> DEFINE I == GatesOf(e)
<1>1. Len(e) \in Nat /\ DOMAIN e = 1 .. Len(e)
  BY LenProperties
<1>2. I = {i \in 1 .. Len(e) : IsGate(e, i)} /\ I \in SUBSET (1 .. Len(e)) /\ I \in SUBSET DOMAIN e
  BY <1>1 DEF GatesOf
<1>3. Gates(e) = Subsequence(e, I)
  BY DEF Gates, GatesOf, IsGate
<1> HIDE DEF I
<1>4. Gates(e) \in Seq(Event) /\ Len(Gates(e)) = Cardinality(I)
  BY <1>2, <1>3, SubsequenceOf
<1>5. DOMAIN Gates(e) = 1 .. Cardinality(I)
  BY <1>4, LenProperties
<1>6. ASSUME NEW i \in I
      PROVE  Rank(i, I) \in 1 .. Cardinality(I) /\ Gates(e)[Rank(i, I)] = e[i]
  <2>0. PICK n \in Nat : n = Len(e)
    BY <1>1
  <2>1. Rank(i, I) \in 1 .. Cardinality(I) /\ \A j \in I : Rank(j, I) = Rank(i, I) => j = i
    <3>1. I \in SUBSET (1 .. n)
      BY <1>2, <2>0
    <3> QED
      BY <3>1, RanksAreOnto
  <2>2. (CHOOSE j \in I : Rank(j, I) = Rank(i, I)) = i
    BY <2>1
  <2> QED
    BY <1>3, <2>1, <2>2 DEF Subsequence
<1>7. Cardinality(I) \in Nat
  BY <1>1, <1>2, RanksAreOnto
<1> QED
  BY <1>1, <1>2, <1>4, <1>5, <1>6, <1>7 DEF I

(* The pending gate is the one that is open after all the events.          *)
LEMMA PendingGateIs ==
  ASSUME NEW e \in Seq(Event), \A n \in 1 .. Len(e) : e[n].cursor = n
  PROVE  /\ PendingGate(e) # 0 => Pending(e, Len(e), PendingGate(e))
         /\ \A g : Pending(e, Len(e), g) => PendingGate(e) = g
<1> DEFINE I == GatesOf(e)
           c == Cardinality(I)
           gates == Gates(e)
<1>1. /\ Len(e) \in Nat
      /\ I = {i \in 1 .. Len(e) : IsGate(e, i)}
      /\ I \in SUBSET (1 .. Len(e)) /\ c \in Nat
      /\ gates \in Seq(Event) /\ DOMAIN gates = 1 .. c /\ Len(gates) = c
      /\ \A i \in I : Rank(i, I) \in 1 .. c /\ gates[Rank(i, I)] = e[i]
  BY GatesAre
<1>2. PendingGate(e) = IF gates # << >> /\ gates[c].event = "approval.request"
                       THEN gates[c].cursor ELSE 0
  BY <1>1 DEF PendingGate, Last
<1>3. \A k \in 1 .. c : \E i \in I : Rank(i, I) = k
  BY <1>1, RanksAreOnto
<1>4. gates # << >> <=> c # 0
  BY <1>1, EmptySeq
<1> HIDE DEF I, c, gates
<1>r. \A i, j \in I : Rank(i, I) < Rank(j, I) <=> i < j
  <2>1. PICK n \in Nat : n = Len(e)
    BY <1>1
  <2> QED
    BY <1>1, <2>1, RanksIncrease
<1>5. ASSUME NEW m \in I, Rank(m, I) = c
      PROVE  \A n \in m + 1 .. Len(e) : ~IsGate(e, n)
  <2> SUFFICES ASSUME NEW n \in m + 1 .. Len(e), IsGate(e, n) PROVE FALSE
    OBVIOUS
  <2>1. n \in I /\ m < n
    BY <1>1
  <2>2. Rank(m, I) < Rank(n, I) /\ Rank(n, I) \in 1 .. c
    BY <1>1, <1>r, <2>1
  <2> QED
    BY <1>1, <1>5, <2>2
<1>6. ASSUME PendingGate(e) # 0
      PROVE  Pending(e, Len(e), PendingGate(e))
  <2>1. c \in 1 .. c /\ gates[c].event = "approval.request" /\ PendingGate(e) = gates[c].cursor
    BY <1>1, <1>2, <1>4, <1>6
  <2>2. PICK m \in I : Rank(m, I) = c
    BY <1>3, <2>1
  <2>3. gates[c] = e[m] /\ m \in 1 .. Len(e)
    BY <1>1, <2>2
  <2>4. PendingGate(e) = m /\ Asks(e, m)
    BY <2>1, <2>3 DEF Asks
  <2> QED
    BY <1>5, <2>2, <2>3, <2>4 DEF Pending
<1>7. ASSUME NEW g, Pending(e, Len(e), g)
      PROVE  PendingGate(e) = g
  <2>1. g \in 1 .. Len(e) /\ e[g].event = "approval.request" /\ g \in I
    BY <1>1, <1>7 DEF Pending, Asks, IsGate
  <2>2. Rank(g, I) \in 1 .. c /\ gates[Rank(g, I)] = e[g]
    BY <1>1, <2>1
  <2>3. ~(Rank(g, I) < c)
    <3> SUFFICES ASSUME Rank(g, I) < c PROVE FALSE
      OBVIOUS
    <3>1. c \in 1 .. c
      BY <1>1, <2>2
    <3>2. PICK m \in I : Rank(m, I) = c
      BY <1>3, <3>1
    <3>3. g < m
      BY <1>r, <2>1, <3>1, <3>2
    <3>4. m \in g + 1 .. Len(e) /\ IsGate(e, m)
      BY <1>1, <2>1, <3>2, <3>3
    <3> QED
      BY <1>7, <3>4 DEF Pending
  <2>4. Rank(g, I) = c /\ c # 0
    BY <1>1, <2>2, <2>3
  <2> QED
    BY <1>2, <1>4, <2>1, <2>2, <2>4
<1> QED
  BY <1>6, <1>7

(* Of gates that alternate no two are open at a time.                      *)
LEMMA AlternatingGates ==
  ASSUME NEW e \in Seq(Event), GatesAlternate(e)
  PROVE  OneAtATime(e, Len(e))
<1> DEFINE I == GatesOf(e)
           c == Cardinality(I)
           gates == Gates(e)
<1>1. /\ Len(e) \in Nat
      /\ I = {i \in 1 .. Len(e) : IsGate(e, i)}
      /\ I \in SUBSET (1 .. Len(e)) /\ c \in Nat
      /\ DOMAIN gates = 1 .. c
      /\ \A i \in I : Rank(i, I) \in 1 .. c /\ gates[Rank(i, I)] = e[i]
  BY GatesAre
<1>2. \A k \in 1 .. c : \E i \in I : Rank(i, I) = k
  BY <1>1, RanksAreOnto
<1>3. \A k \in 1 .. c : (k % 2 = 1) = (gates[k].event = "approval.request")
  BY <1>1 DEF GatesAlternate
<1> HIDE DEF I, c, gates
<1>r. \A i, j \in I : Rank(i, I) < Rank(j, I) <=> i < j
  <2>1. PICK n \in Nat : n = Len(e)
    BY <1>1
  <2> QED
    BY <1>1, <2>1, RanksIncrease
<1> SUFFICES ASSUME NEW m \in 1 .. Len(e), NEW n \in 1 .. Len(e), m < n, Asks(e, m), Asks(e, n)
             PROVE  \E l \in m + 1 .. n - 1 : IsGate(e, l) /\ ~Asks(e, l)
  BY DEF OneAtATime
<1>4. m \in I /\ n \in I
  BY <1>1 DEF Asks, IsGate
<1> DEFINE a == Rank(m, I)
           b == Rank(n, I)
<1>5. a \in 1 .. c /\ b \in 1 .. c /\ a < b /\ a % 2 = 1 /\ b % 2 = 1
  <2>1. a < b
    BY <1>4, <1>r
  <2>2. a \in 1 .. c /\ gates[a] = e[m] /\ b \in 1 .. c /\ gates[b] = e[n]
    BY <1>1, <1>4
  <2> QED
    BY <1>3, <2>1, <2>2 DEF Asks
<1> HIDE DEF a, b
<1>6. a + 1 \in 1 .. c /\ a + 1 < b /\ (a + 1) % 2 # 1
  BY <1>1, <1>5
<1>7. PICK l \in I : Rank(l, I) = a + 1
  BY <1>2, <1>6
<1>8. m < l /\ l < n
  <2>1. Rank(m, I) < Rank(l, I) /\ Rank(l, I) < Rank(n, I)
    BY <1>5, <1>6, <1>7 DEF a, b
  <2> QED
    BY <1>4, <1>7, <1>r, <2>1
<1>9. gates[a + 1] = e[l] /\ l \in 1 .. Len(e) /\ IsGate(e, l)
  BY <1>1, <1>7
<1>10. ~Asks(e, l)
  BY <1>3, <1>6, <1>9 DEF Asks
<1>11. l \in m + 1 .. n - 1
  BY <1>1, <1>8, <1>9
<1> QED
  BY <1>9, <1>10, <1>11

-----------------------------------------------------------------------------
(***************************************************************************)
(* What a frame does to the cards of a tab.                                *)
(***************************************************************************)
\* The card and the status after a frame that the store has taken.
Acts(t, f, u) ==
  /\ f.event = "run.started" => u.card = NoCard
  /\ f.event \in {"message.delta", "run.stopping"} =>
       u.card = t.card /\ (u.status = "idle" <=> t.status = "idle")
  /\ f.event = "approval.request" => u.card = CardOf(f.run, f.gate) /\ u.status = t.status
  /\ f.event = "approval.responded" => u.card = NoCard /\ u.status = t.status
  /\ f.event \in TerminalEvents => u.card = NoCard /\ u.status = "idle"
  /\ u.shown \in {None, f.run}

LEMMA ShownActs ==
  ASSUME NEW t \in NamedTab, NEW f \in RunFrames,
         f.event = "run.started" \/ t.shown \in {None, f.run}, NEW u, u = Shown(t, f)
  PROVE  Acts(t, f, u) /\ u.cleared = t.cleared
<1>0. t \in TabState
  BY DEF NamedTab
<1> USE <1>0 DEF TabState
<1>1. CASE f.event = "run.started"
  <2>1. u = [t EXCEPT !.shown = f.run, !.status = "running", !.card = NoCard]
    BY <1>1 DEF Shown
  <2> QED
    BY <1>1, <2>1 DEF Acts, TerminalEvents
<1>2. CASE f.event = "message.delta"
  <2>1. u = [t EXCEPT !.working = TRUE]
    BY <1>2 DEF Shown, TerminalEvents
  <2> QED
    BY <1>2, <2>1 DEF Acts, TerminalEvents
<1>3. CASE f.event = "approval.request"
  <2>1. u = [t EXCEPT !.card = [run |-> f.run, gate |-> f.gate]]
    BY <1>3 DEF Shown, TerminalEvents
  <2> QED
    BY <1>3, <2>1 DEF Acts, TerminalEvents, CardOf
<1>4. CASE f.event = "approval.responded"
  <2>1. u = [t EXCEPT !.card = NoCard]
    BY <1>4 DEF Shown, TerminalEvents
  <2> QED
    BY <1>4, <2>1 DEF Acts, TerminalEvents
<1>5. CASE f.event = "run.stopping"
  <2>1. u = [t EXCEPT !.status = IF t.status = "idle" THEN t.status ELSE "stopping"]
    BY <1>5 DEF Shown, TerminalEvents
  <2> QED
    BY <1>5, <2>1 DEF Acts, TerminalEvents
<1>6. CASE f.event \in TerminalEvents
  <2>1. u = [t EXCEPT !.status = "idle", !.working = FALSE, !.card = NoCard]
    BY <1>6 DEF Shown, TerminalEvents
  <2> QED
    BY <1>6, <2>1 DEF Acts, TerminalEvents
<1> QED
  BY <1>1, <1>2, <1>3, <1>4, <1>5, <1>6 DEF RunFrames, LogEvents

LEMMA AppliedActs ==
  ASSUME NEW t \in NamedTab, NEW f \in RunFrames,
         f.event = "run.started" \/ t.shown \in {None, f.run}, NEW u, u = Applied(t, f)
  PROVE  /\ Acts(t, f, u)
         /\ u.cleared = IF f.event = "approval.responded" THEN NoCard ELSE t.cleared
<1> DEFINE over == f.event \in TerminalEvents
           c == IF f.cursor = 0 THEN t.cursor ELSE f.cursor
           a == IF f.cursor = 0 THEN t.applied ELSE Append(t.applied, <<f.run, f.cursor>>)
           d == t.done \/ over
           w == IF over THEN None ELSE t.run
           l == IF f.event = "approval.responded" THEN NoCard ELSE t.cleared
           kept == [t EXCEPT !.cursor = c, !.applied = a, !.done = d, !.saved = w, !.cleared = l]
<1>1. c \in Nat /\ w \in RunId \cup {None} /\ l \in NamedCard
  BY NoCardIsNamed DEF NamedTab, TabState, RunFrames, WireFrame
<1>2. a \in Seq(RunId \X Nat)
  <2>1. t.applied \in Seq(RunId \X Nat) /\ <<f.run, f.cursor>> \in RunId \X Nat
    BY DEF NamedTab, TabState, RunFrames, WireFrame
  <2> QED
    BY <2>1, AppendProperties
<1>3. d \in BOOLEAN
  BY Zenon DEF NamedTab, TabState
<1>4. u = Shown(kept, f)
  BY DEF Applied
<1> HIDE DEF c, a, d, w, l
<1>5. kept \in NamedTab
  BY <1>1, <1>2, <1>3 DEF NamedTab, TabState, NamedCard
<1>6. /\ kept.card = t.card /\ kept.status = t.status /\ kept.shown = t.shown
      /\ kept.cleared = l
  BY DEF NamedTab, TabState
<1> HIDE DEF kept
<1>7. Acts(kept, f, u) /\ u.cleared = l
  BY <1>4, <1>5, <1>6, ShownActs
<1>8. Acts(t, f, u)
  BY <1>6, <1>7 DEF Acts
<1> QED
  BY <1>7, <1>8 DEF l

\* The tab stays where it is in its run.
Stays(t, u) == u.run = t.run /\ u.cursor = t.cursor /\ u.shown = t.shown

\* A rejection takes the tab to idle.
Settled(t, u) ==
  Stays(t, u) /\ u.cleared = t.cleared /\ u.card = NoCard /\ u.status = "idle"

\* A rejected answer brings its card back.
Restored(t, f, u) ==
  /\ Stays(t, u) /\ u.done = t.done /\ u.status = t.status
  /\ f.event = "respond rejected"
  /\ t.cleared # NoCard /\ u.card = t.cleared /\ u.cleared = NoCard

\* A frame that is not for this tab, or that it has seen.
Ignored(t, f, u) ==
  /\ Stays(t, u) /\ (u.done => t.done) /\ u.status = t.status
  /\ u.card = t.card /\ u.cleared = t.cleared
  /\ f.event # "respond rejected"
  /\ ~(f.run = t.run /\ Fresh(t, f) /\ f \in RunFrames)

\* A frame of the tab's run, or of the run that becomes it.
Taken(t, f, u) ==
  /\ f \in RunFrames /\ Fresh(t, f)
  /\ \/ f.run = t.run
     \/ t.expecting /\ f.event = "run.started"
  /\ u.run = f.run
  /\ u.cursor = IF f.cursor = 0 THEN t.cursor ELSE f.cursor
  /\ u.cleared = IF f.event = "approval.responded" THEN NoCard ELSE t.cleared
  /\ Acts(t, f, u)
  /\ u.done => f.event \in TerminalEvents \/ (t.done /\ f.event # "run.started")

LEMMA ReceivedActs ==
  ASSUME NEW t \in NamedTab, NEW f \in NamedFrame, SoundFrame(f),
         t.expecting => t.cursor = 0,
         t.run # None => t.shown \in {None, t.run},
         NEW u, u = Received(t, f)
  PROVE  Settled(t, u) \/ Restored(t, f, u) \/ Ignored(t, f, u) \/ Taken(t, f, u)
<1>0. /\ f \in WireFrame /\ (f.event \in Rejections \/ f.run \in RunId) /\ f.cursor \in Nat
      /\ t \in TabState /\ t.cursor \in Nat /\ None \notin RunId
  BY RunIdAssumption DEF NamedFrame, NamedTab, TabState, WireFrame, RunIdAssumption
<1>1. CASE f.event \in {"approval.pending", "approval.cleared"}
  <2>1. f \notin RunFrames
    BY <1>1 DEF RunFrames, LogEvents, TerminalEvents
  <2>2. Ignored(t, f, t)
    BY <1>1, <2>1 DEF Ignored, Stays
  <2>3. \A v : Ignored(t, f, [t EXCEPT !.inbox = v])
    BY <1>0, <1>1, <2>1 DEF Ignored, Stays, TabState
  <2>4. u = t \/ \E v : u = [t EXCEPT !.inbox = v]
    <3>1. CASE f.event = "approval.pending"
      <4>1. u = t \/ u = [t EXCEPT !.inbox = t.inbox \cup {f.run}]
        BY <3>1 DEF Received
      <4> QED
        BY <4>1
    <3>2. CASE f.event = "approval.cleared"
      <4>1. u = [t EXCEPT !.inbox = t.inbox \ {f.run}]
        BY <3>2 DEF Received
      <4> QED
        BY <4>1
    <3> QED
      BY <1>1, <3>1, <3>2
  <2> QED
    BY <2>2, <2>3, <2>4
<1>2. CASE f.event \in Rejections
  <2>1. /\ f.event \in {"run rejected", "resume rejected", "abort rejected", "respond rejected"}
        /\ f.event # "approval.pending" /\ f.event # "approval.cleared"
    BY <1>2, RejectionsAreFour
  <2>2. u = Failed(t, f.event)
    BY <2>1 DEF Received
  <2>3. CASE f.event = "respond rejected" /\ t.cleared # NoCard
    <3>1. u = [t EXCEPT !.card = t.cleared, !.cleared = NoCard]
      BY <2>2, <2>3 DEF Failed
    <3> QED
      BY <1>0, <2>3, <3>1 DEF Restored, Stays, TabState
  <2>4. CASE ~(f.event = "respond rejected" /\ t.cleared # NoCard)
    <3>1. u = [t EXCEPT !.status = "idle", !.working = FALSE, !.card = NoCard]
      BY <2>2, <2>4 DEF Failed
    <3> QED
      BY <1>0, <3>1 DEF Settled, Stays, TabState
  <2> QED
    BY <2>3, <2>4
<1>3. CASE f.event \notin Rejections /\ f.event \notin {"approval.pending", "approval.cleared"}
  <2>1. f \in RunFrames /\ f.event # "respond rejected" /\ f.run \in RunId
    BY <1>0, <1>3, RejectionsAreFour DEF RunFrames, WireFrame
  <2>2. u = RunFrame(t, f)
    BY <1>3, RejectionsAreFour DEF Received
  <2>3. CASE f.event = "run.started" /\ (f.run = t.run \/ t.expecting)
    <3> DEFINE own == [t EXCEPT !.run = f.run, !.done = FALSE, !.expecting = FALSE]
    <3>1. u = IF Fresh(own, f) THEN Applied(own, f) ELSE own
      BY <2>2, <2>3 DEF RunFrame
    <3>2. /\ own \in NamedTab
          /\ own.run = f.run /\ own.cursor = t.cursor /\ own.done = FALSE
          /\ own.card = t.card /\ own.cleared = t.cleared /\ own.status = t.status
          /\ own.shown = t.shown
      BY <1>0, <2>1 DEF NamedTab, TabState
    <3> HIDE DEF own
    <3>3. Fresh(own, f) <=> Fresh(t, f)
      BY <3>2 DEF Fresh
    <3>4. CASE Fresh(t, f)
      <4>1. u = Applied(own, f)
        BY <3>1, <3>3, <3>4
      <4>2. /\ u.run = own.run
            /\ u.cursor = IF f.cursor = 0 THEN own.cursor ELSE f.cursor
        BY <2>1, <3>2, <4>1, AppliedMovesPlace
      <4>3. /\ Acts(own, f, u)
            /\ u.cleared = IF f.event = "approval.responded" THEN NoCard ELSE own.cleared
        BY <2>1, <2>3, <3>2, <4>1, AppliedActs
      <4>4. u.done <=> own.done \/ f.event \in TerminalEvents
        <5>1. own \in NamedTab
          BY <3>2
        <5>2. Applied(own, f).done <=> own.done \/ f.event \in TerminalEvents
          BY <2>1, <5>1, AppliedEnds
        <5> QED
          BY <4>1, <5>2, Zenon
      <4>5. Acts(t, f, u)
        BY <3>2, <4>3 DEF Acts
      <4>6. u.done => f.event \in TerminalEvents
        <5>1. ~own.done
          BY <3>2
        <5> QED
          BY <4>4, <5>1, Zenon
      <4>7. /\ u.run = f.run
            /\ u.cursor = IF f.cursor = 0 THEN t.cursor ELSE f.cursor
            /\ u.cleared = IF f.event = "approval.responded" THEN NoCard ELSE t.cleared
        BY <3>2, <4>2, <4>3
      <4>8. f.run = t.run \/ (t.expecting /\ f.event = "run.started")
        BY <2>3
      <4> QED
        BY <2>1, <3>4, <4>5, <4>6, <4>7, <4>8 DEF Taken
    <3>5. CASE ~Fresh(t, f)
      <4>1. u = own
        BY <3>1, <3>3, <3>5
      <4>2. f.cursor > 0 /\ ~(f.cursor > t.cursor)
        BY <1>0, <3>5 DEF Fresh
      <4>3. f.run = t.run
        BY <1>0, <2>3, <4>2
      <4> QED
        BY <2>1, <3>2, <3>5, <4>1, <4>3 DEF Ignored, Stays
    <3> QED
      BY <3>4, <3>5
  <2>4. CASE f.event # "run.started" /\ f.run = t.run /\ Fresh(t, f)
    <3>1. u = Applied(t, f)
      BY <2>2, <2>4 DEF RunFrame
    <3>2. t.shown \in {None, f.run}
      BY <1>0, <2>1, <2>4
    <3>3. /\ u.run = t.run
          /\ u.cursor = IF f.cursor = 0 THEN t.cursor ELSE f.cursor
      BY <2>1, <3>1, AppliedMovesPlace
    <3>4. /\ Acts(t, f, u)
          /\ u.cleared = IF f.event = "approval.responded" THEN NoCard ELSE t.cleared
      BY <2>1, <3>1, <3>2, AppliedActs
    <3>5. u.done <=> t.done \/ f.event \in TerminalEvents
      BY <2>1, <3>1, AppliedEnds
    <3>6. f.run = t.run /\ Fresh(t, f) /\ f.event # "run.started" /\ u.run = f.run
      BY <2>4, <3>3
    <3>7. u.done => f.event \in TerminalEvents \/ (t.done /\ f.event # "run.started")
      BY <3>5, <3>6, Zenon
    <3>8. f \in RunFrames
      BY <2>1
    <3> QED
      BY <3>3, <3>4, <3>6, <3>7, <3>8 DEF Taken
  <2>5. CASE /\ ~(f.event = "run.started" /\ (f.run = t.run \/ t.expecting))
             /\ ~(f.event # "run.started" /\ f.run = t.run /\ Fresh(t, f))
    <3>1. u = t
      BY <2>2, <2>5 DEF RunFrame
    <3> QED
      BY <2>1, <2>5, <3>1 DEF Ignored, Stays
  <2> QED
    BY <2>3, <2>4, <2>5
<1> QED
  BY <1>1, <1>2, <1>3

-----------------------------------------------------------------------------
(***************************************************************************)
(* What the server sends.                                                  *)
(***************************************************************************)
\* Frames e show no open gate again but those of runs R.
ShowsOnly(e, R) == \A i \in 1 .. Len(e) : Plain(e[i]) \/ \E x \in R : Reshows(e[i], x)

\* What was in flight is, and so is what comes behind it.
AddsOnly(R) ==
  /\ \A i \in 1 .. Len(down) : i \in 1 .. Len(down') /\ down'[i] = down[i]
  /\ \A i \in 1 .. Len(down') :
       \/ i \in 1 .. Len(down) /\ down'[i] = down[i]
       \/ Plain(down'[i])
       \/ \E x \in R : Reshows(down'[i], x)

LEMMA ShowsJoined ==
  ASSUME NEW d \in Seq(NamedFrame), NEW e \in Seq(NamedFrame), NEW R,
         ShowsOnly(d, R), ShowsOnly(e, R)
  PROVE  ShowsOnly(d \o e, R)
<1> SUFFICES ASSUME NEW i \in 1 .. Len(d \o e)
             PROVE  Plain((d \o e)[i]) \/ \E x \in R : Reshows((d \o e)[i], x)
  BY DEF ShowsOnly
<1>1. \/ i \in 1 .. Len(d) /\ (d \o e)[i] = d[i]
      \/ i - Len(d) \in 1 .. Len(e) /\ (d \o e)[i] = e[i - Len(d)]
  BY JoinedFrames
<1> QED
  BY <1>1 DEF ShowsOnly

ShowsFrom(d, g, R) == \E w \in Seq(NamedFrame) : ShowsOnly(w, R) /\ g = d \o w

LEMMA ShowsNext ==
  ASSUME NEW d \in Seq(NamedFrame), NEW g, NEW R, ShowsFrom(d, g, R),
         NEW e \in Seq(NamedFrame), ShowsOnly(e, R), NEW h, h = g \o e
  PROVE  ShowsFrom(d, h, R)
<1>1. PICK w \in Seq(NamedFrame) : ShowsOnly(w, R) /\ g = d \o w
  BY DEF ShowsFrom
<1>2. PICK v \in Seq(NamedFrame) : ShowsOnly(v, R) /\ v = w \o e
  BY <1>1, JoinedFrames, ShowsJoined
<1>3. (d \o w) \o e = d \o (w \o e)
  BY ConcatAssociative
<1> QED
  BY <1>1, <1>2, <1>3 DEF ShowsFrom

LEMMA ShownFrames ==
  ASSUME down \in Seq(NamedFrame), NEW e \in Seq(NamedFrame), NEW R, ShowsOnly(e, R),
         down' = down \/ down' = down \o e
  PROVE  AddsOnly(R)
<1>1. CASE down' = down
  BY <1>1 DEF AddsOnly
<1>2. CASE down' = down \o e
  <2>1. \A i \in 1 .. Len(down) : i \in 1 .. Len(down') /\ down'[i] = down[i]
    BY <1>2, JoinedFrames
  <2>2. ASSUME NEW i \in 1 .. Len(down')
        PROVE  \/ i \in 1 .. Len(down) /\ down'[i] = down[i]
               \/ Plain(down'[i])
               \/ \E x \in R : Reshows(down'[i], x)
    <3>1. \/ i \in 1 .. Len(down) /\ down'[i] = down[i]
          \/ i - Len(down) \in 1 .. Len(e) /\ down'[i] = e[i - Len(down)]
      BY <1>2, JoinedFrames
    <3> QED
      BY <3>1 DEF ShowsOnly
  <2> QED
    BY <2>1, <2>2 DEF AddsOnly
<1> QED
  BY <1>1, <1>2

LEMMA TransientsArePlain ==
  /\ \A r \in RunId : \A R : /\ ShowsOnly(Transient("run.stopping", r), R)
                            /\ ShowsOnly(Announcements(r), R)
  /\ \A R : ShowsOnly(<< >>, R)
  /\ \A c \in DOMAIN Rejection : \A R : ShowsOnly(Transient(Rejection[c], "none"), R)
<1>1. \A e, r, R : e \notin LogEvents => ShowsOnly(Transient(e, r), R)
  <2> SUFFICES ASSUME NEW e, e \notin LogEvents, NEW r, NEW R
               PROVE  ShowsOnly(Transient(e, r), R)
    OBVIOUS
  <2>1. e # "approval.request"
    BY DEF LogEvents
  <2>2. Plain(Transient(e, r)[1]) /\ Len(Transient(e, r)) = 1
    BY <2>1 DEF Plain, Transient
  <2> QED
    BY <2>2 DEF ShowsOnly
<1>2. \A R : ShowsOnly(<< >>, R)
  BY EmptySeq DEF ShowsOnly
<1>3. \A c \in DOMAIN Rejection : Rejection[c] \notin LogEvents
  BY RejectionsAreFour DEF Rejections, LogEvents, TerminalEvents
<1>4. "run.stopping" \notin LogEvents /\ "approval.pending" \notin LogEvents
      /\ "approval.cleared" \notin LogEvents
  BY DEF LogEvents, TerminalEvents
<1> QED
  BY <1>1, <1>2, <1>3, <1>4 DEF Announcements

LEMMA ForwardedIsPlain ==
  ASSUME NEW r \in RunId, NEW events \in Seq(Event), NEW k \in Nat, NEW R
  PROVE  ShowsOnly(Forwarded(r, After(events, k)), R)
<1> DEFINE I == {i \in DOMAIN events : events[i].cursor > k}
           es == After(events, k)
<1>1. I \in SUBSET DOMAIN events /\ es = Subsequence(events, I)
  BY DEF After
<1>2. \A i \in I : events[i].cursor > k
  OBVIOUS
<1> HIDE DEF I, es
<1>3. /\ es \in Seq(Event)
      /\ \A i \in 1 .. Len(es) : \E j \in I : es[i] = events[j]
  BY <1>1, SubsequenceOf
<1>4. \A i \in 1 .. Len(es) : es[i].cursor > k /\ es[i].cursor \in Nat
  <2>1. \A i \in 1 .. Len(es) : es[i] \in Event
    BY <1>3, ElementOfSeq
  <2> QED
    BY <1>2, <1>3, <2>1 DEF Event
<1>5. /\ Len(Forwarded(r, es)) = Len(es) /\ DOMAIN es = 1 .. Len(es)
  BY <1>3, ForwardedIsNamed, LenProperties
<1>6. \A i \in 1 .. Len(es) :
        /\ Forwarded(r, es)[i].event = es[i].event
        /\ Forwarded(r, es)[i].cursor = es[i].cursor
        /\ es[i].event = "approval.request" => Forwarded(r, es)[i].gate = es[i].cursor
  BY <1>5 DEF Forwarded
<1>7. \A i \in 1 .. Len(es) : Plain(Forwarded(r, es)[i])
  BY <1>4, <1>6 DEF Plain
<1> QED
  BY <1>5, <1>7 DEF ShowsOnly, es

LEMMA HeardIsPlain ==
  ASSUME StoreTypeOK', NEW s, tails[s] \in Seq(TailState), NEW r \in RunId, NEW R
  PROVE  ShowsOnly(Heard(s, r), R)
<1>1. CASE ~Follows(s, r)
  BY <1>1, TransientsArePlain DEF Heard
<1>2. CASE Follows(s, r)
  <2>1. PICK i \in LiveTails(s, r) : Heard(s, r) = Forwarded(r, After(News(r), tails[s][i].gate))
    BY <1>2 DEF Heard, Follows
  <2>2. tails[s][i].gate \in Nat
    <3>1. i \in 1 .. Len(tails[s])
      BY <2>1, LenProperties DEF LiveTails
    <3>2. tails[s][i] \in TailState
      BY <3>1, ElementOfSeq
    <3> QED
      BY <3>2 DEF TailState
  <2> QED
    BY <2>1, <2>2, NewsIsTyped, ForwardedIsPlain
<1> QED
  BY <1>1, <1>2

LEMMA EmitShows ==
  ASSUME down \in Seq(NamedFrame), NEW s, NEW e \in Seq(NamedFrame), NEW R, ShowsOnly(e, R),
         Emit(s, e)
  PROVE  AddsOnly(R)
BY ShownFrames DEF Emit

LEMMA NotifyShows ==
  ASSUME StoreTypeOK', tails \in [Socket -> Seq(TailState)], down \in Seq(NamedFrame),
         NEW r \in RunId, NEW t, NEW early \in Seq(NamedFrame), NEW R, ShowsOnly(early, R),
         Notify(r, t, early)
  PROVE  AddsOnly(R)
<1>1. CASE ~Online
  <2>1. down' = down
    BY <1>1 DEF Notify, Online
  <2> QED
    BY <2>1 DEF AddsOnly
<1>2. CASE Online
  <2>1. PICK s \in Socket : IsOpen(s) /\ s = CHOOSE x \in Socket : IsOpen(x)
    BY <1>2 DEF Online
  <2>2. PICK e \in Seq(NamedFrame) : ShowsOnly(e, R) /\ e = IF s = t THEN early ELSE << >>
    BY TransientsArePlain, EmptySeq
  <2>3. PICK n \in Seq(NamedFrame) : ShowsOnly(n, R) /\ n = Announcements(r)
    <3>1. Announcements(r) \in Seq(NamedFrame)
      BY TransientIsNamed, EmptySeq DEF Announcements
    <3> QED
      BY <3>1, TransientsArePlain
  <2>4. PICK h \in Seq(NamedFrame) : ShowsOnly(h, R) /\ h = Heard(s, r)
    BY HeardIsNamed, HeardIsPlain
  <2>5. down' = ((down \o e) \o n) \o h
    BY <1>2, <2>1, <2>2, <2>3, <2>4 DEF Notify, Online
  <2>6. PICK d \in Seq(NamedFrame) : d = down
    OBVIOUS
  <2>7. PICK g1, g2, g3 : g1 = d \o e /\ g2 = g1 \o n /\ g3 = g2 \o h
    OBVIOUS
  <2>8. ShowsFrom(d, g1, R)
    BY <2>2, <2>7 DEF ShowsFrom
  <2>9. ShowsFrom(d, g2, R)
    BY <2>3, <2>7, <2>8, ShowsNext
  <2>10. ShowsFrom(d, g3, R)
    BY <2>4, <2>7, <2>9, ShowsNext
  <2>11. down' = g3
    BY <2>5, <2>6, <2>7
  <2> QED
    BY <2>6, <2>10, <2>11, ShownFrames DEF ShowsFrom
<1> QED
  BY <1>1, <1>2

\* The frame that shows the open gate of a log again, for a tab that has come to k.
Again(r, log, k) == IF log.done THEN << >> ELSE PendingApprovalBefore(r, log.events, k)

LEMMA AgainShows ==
  ASSUME NEW r \in RunId, NEW log, log.events \in Seq(Event), NEW k \in Nat,
         NEW e, e = Again(r, log, k)
  PROVE  /\ e \in Seq(NamedFrame)
         /\ e # << >> => k # 0
         /\ \A i \in 1 .. Len(e) : /\ Reshows(e[i], r)
                                   /\ e[i].gate = PendingGate(log.events)
                                   /\ e[i].gate \in 1 .. k
         /\ ~log.done /\ PendingGate(log.events) \in 1 .. k => 1 \in 1 .. Len(e)
<1> DEFINE f == [event |-> "approval.request", run |-> r, cursor |-> 0,
                 gate |-> PendingGate(log.events)]
<1>1. PendingApprovalBefore(r, log.events, k) \in Seq(NamedFrame) /\ << >> \in Seq(NamedFrame)
  BY PendingApprovalIsNamed, EmptySeq
<1>2. Len(<<f>>) = 1 /\ <<f>>[1] = f /\ \A i \in 1 .. Len(<<f>>) : i = 1
  OBVIOUS
<1>3. CASE ~log.done /\ PendingGate(log.events) \in 1 .. k
  <2>1. e = <<f>>
    BY <1>3 DEF Again, PendingApprovalBefore
  <2>2. e \in Seq(NamedFrame)
    BY <1>1, <1>3 DEF Again
  <2>3. k # 0
    BY <1>3
  <2>4. Reshows(f, r) /\ f.gate = PendingGate(log.events)
    BY DEF Reshows
  <2> HIDE DEF f
  <2>5. Len(e) = 1 /\ e[1] = f /\ \A i \in 1 .. Len(e) : i = 1
    BY <1>2, <2>1
  <2> QED
    BY <1>3, <2>2, <2>3, <2>4, <2>5
<1>4. CASE ~(~log.done /\ PendingGate(log.events) \in 1 .. k)
  <2>1. e = << >>
    BY <1>4 DEF Again, PendingApprovalBefore
  <2>2. \A i \in 1 .. Len(e) : FALSE
    BY <2>1, EmptySeq
  <2> QED
    BY <1>1, <1>4, <2>1, <2>2
<1> QED
  BY <1>3, <1>4

LEMMA AttachShows ==
  ASSUME StoreTypeOK', down \in Seq(NamedFrame), NEW s, NEW r \in RunId, r \in DOMAIN runs',
         NEW k \in Nat, Attach(s, r, k)
  PROVE  AddsOnly({r}) /\ (k = 0 => AddsOnly({}))
<1>1. runs'[r].events \in Seq(Event)
  BY DEF StoreTypeOK, RunState, Event
<1>2. PICK log : log = runs'[r] /\ log.events \in Seq(Event)
  BY <1>1
<1>3. PICK f \in Seq(NamedFrame) :
        f = Forwarded(r, After(runs'[r].events, k)) /\ ShowsOnly(f, {r}) /\ ShowsOnly(f, {})
  BY <1>1, AfterIsTyped, ForwardedIsNamed, ForwardedIsPlain
<1>4. PICK e : e = Again(r, log, k)
  OBVIOUS
<1>5. /\ e \in Seq(NamedFrame) /\ (k = 0 => e = << >>)
      /\ \A i \in 1 .. Len(e) : Reshows(e[i], r)
  BY <1>2, <1>4, AgainShows
<1>6. ShowsOnly(e, {r}) /\ (k = 0 => ShowsOnly(e, {}))
  BY <1>5, EmptySeq DEF ShowsOnly
<1>7. Emit(s, f \o e)
  BY <1>2, <1>3, <1>4 DEF Attach, Again
<1>8. f \o e \in Seq(NamedFrame) /\ ShowsOnly(f \o e, {r}) /\ (k = 0 => ShowsOnly(f \o e, {}))
  BY <1>3, <1>5, <1>6, JoinedFrames, ShowsJoined
<1> QED
  BY <1>7, <1>8, EmitShows

\* A log that is known stays known.
LEMMA ManagerLoses ==
  ASSUME Inductive, KnownLogs, [ManagerNext]_managerVars
  PROVE  LostLogs
<1>0. StoreTypeOK
  BY StoreOfInductive DEF StoreInv
<1>1. CASE UNCHANGED managerVars
  BY <1>1, SameManagerMoves DEF LogsKept
<1>2. ASSUME NEW r \in RunId, Start(r) \/ Rebegin(r)
      PROVE  LostLogs
  BY <1>2, StartMoves, RebeginMoves DEF OnlyLog
<1>3. ASSUME NEW r \in RunId, Abort(r) \/ Reap(r)
      PROVE  LostLogs
  BY <1>3, CancelMoves DEF LogsKept, OnlyLog
<1>4. ASSUME NEW r \in RunId, ClearApproval(r)
      PROVE  LostLogs
  BY <1>4, SameStoreMoves DEF ClearApproval, LogsKept, storeVars
<1>5. ASSUME NEW p \in PumpId, PumpStep(p)
      PROVE  LostLogs
  BY <1>5, PumpMoves DEF LogsKept, OnlyLog
<1>6. CASE StoreTimer \/ Tick
  BY <1>0, <1>6, TimeMoves DEF LogsKept
<1>7. CASE Crash
  BY <1>7, CrashKeepsKnown DEF LogsKept
<1> QED
  BY <1>1, <1>2, <1>3, <1>4, <1>5, <1>6, <1>7 DEF ManagerNext

LEMMA StepKeepsRunsKnown ==
  ASSUME ChatInductive, KnownLogs, [SystemNext]_vars
  PROVE  \A x : Known(x) => Known(x)'
BY StepMaps, ManagerLoses, KnownStays DEF ChatInductive

-----------------------------------------------------------------------------
(***************************************************************************)
(* What the steps of the server send.                                      *)
(***************************************************************************)
LEMMA SameAdds == down' = down => AddsOnly({})
BY DEF AddsOnly

LEMMA CommandAdds ==
  ASSUME ChatInductive, ChatInductive', NEW s \in Socket, NEW r \in RunId,
         NEW k \in Nat, RunCommand(s, r) \/ AbortCommand(s, r) \/ RespondCommand(s, r, k)
  PROVE  AddsOnly({})
<1>0. /\ StoreTypeOK' /\ down \in Seq(NamedFrame) /\ tails \in [Socket -> Seq(TailState)]
  BY DEF ChatInductive, TypeInv, TypeOK
<1>1. CASE RunCommand(s, r) \/ RespondCommand(s, r, k)
  BY <1>1, SameAdds DEF RunCommand, RespondCommand
<1>2. CASE AbortCommand(s, r)
  <2>1. /\ Transient("run.stopping", r) \in Seq(NamedFrame)
        /\ ShowsOnly(Transient("run.stopping", r), {})
    BY TransientIsNamed, TransientsArePlain
  <2>2. Notify(r, s, Transient("run.stopping", r))
    BY <1>2 DEF AbortCommand
  <2> QED
    BY <1>0, <2>1, <2>2, NotifyShows
<1> QED
  BY <1>1, <1>2

LEMMA ResumeAdds ==
  ASSUME ChatInductive, ChatInductive', NEW s \in Socket, NEW r \in RunId,
         NEW k \in Nat, ResumeCommand(s, r, k)
  PROVE  \/ AddsOnly({})
         \/ AddsOnly({r}) /\ Known(r)'
<1>0. StoreTypeOK' /\ down \in Seq(NamedFrame)
  BY DEF ChatInductive, TypeInv, TypeOK
<1>1. CASE Emit(s, Transient(Rejection.resume, "none"))
  <2>1. "resume" \in DOMAIN Rejection /\ Rejection.resume = Rejection["resume"]
    BY DEF Rejection
  <2>2. /\ Transient(Rejection.resume, "none") \in Seq(NamedFrame)
        /\ ShowsOnly(Transient(Rejection.resume, "none"), {})
    BY <2>1, RejectionIsNamed, TransientsArePlain
  <2> QED
    BY <1>0, <1>1, <2>2, EmitShows
<1>2. CASE Attach(s, r, k) /\ r \in DOMAIN runs'
  BY <1>0, <1>2, AttachShows DEF Known, Has
<1>3. Has(r) /\ UNCHANGED managerVars => r \in DOMAIN runs'
  BY DEF Has, managerVars
<1>4. Rebegin(r) => r \in DOMAIN runs'
  BY RebeginMoves
<1> QED
  BY <1>1, <1>2, <1>3, <1>4 DEF ResumeCommand

LEMMA AnswerAdds ==
  ASSUME ChatInductive, ChatInductive', GatewayAnswers
  PROVE  AddsOnly({})
<1>0. /\ StoreTypeOK' /\ down \in Seq(NamedFrame) /\ tails \in [Socket -> Seq(TailState)]
  BY DEF ChatInductive, TypeInv, TypeOK
<1>1. PICK c \in calls :
        RespondAccepted(c) \/ RunAccepted(c) \/ AbortAccepted(c) \/ Rejected(c)
  BY DEF GatewayAnswers
<1>2. c.run \in RunId /\ c.do \in {"run", "abort", "respond"}
  BY DEF ChatInductive, TypeInv, Call
<1>3. CASE RespondAccepted(c)
  <2>1. Notify(c.run, c.socket, << >>) /\ << >> \in Seq(NamedFrame) /\ ShowsOnly(<< >>, {})
    BY <1>3, EmptySeq, TransientsArePlain DEF RespondAccepted
  <2> QED
    BY <1>0, <1>2, <2>1, NotifyShows
<1>4. CASE RunAccepted(c)
  <2>1. Start(c.run) /\ Attach(c.socket, c.run, 0)
    BY <1>4 DEF RunAccepted
  <2>2. c.run \in DOMAIN runs'
    BY <2>1, StartMoves
  <2> QED
    BY <1>0, <1>2, <2>1, <2>2, AttachShows
<1>5. CASE AbortAccepted(c)
  BY <1>5, SameAdds DEF AbortAccepted
<1>6. CASE Rejected(c)
  <2>1. c.do \in DOMAIN Rejection
    BY <1>2 DEF Rejection
  <2>2. /\ Transient(Rejection[c.do], "none") \in Seq(NamedFrame)
        /\ ShowsOnly(Transient(Rejection[c.do], "none"), {})
    BY <2>1, RejectionIsNamed, TransientsArePlain
  <2>3. Emit(c.socket, Transient(Rejection[c.do], "none"))
    BY <1>6 DEF Rejected
  <2> QED
    BY <1>0, <2>2, <2>3, EmitShows
<1> QED
  BY <1>1, <1>3, <1>4, <1>5, <1>6

LEMMA BackgroundAdds ==
  ASSUME ChatInductive, ChatInductive', Background
  PROVE  AddsOnly({})
<1>0. /\ StoreTypeOK' /\ down \in Seq(NamedFrame) /\ tails \in [Socket -> Seq(TailState)]
      /\ << >> \in Seq(NamedFrame) /\ ShowsOnly(<< >>, {})
  BY EmptySeq, TransientsArePlain DEF ChatInductive, TypeInv, TypeOK
<1>1. ASSUME NEW s \in Socket, Disconnect(s)
      PROVE  AddsOnly({})
  BY <1>1, SameAdds DEF Disconnect
<1>2. ASSUME NEW p \in PumpId, Pumped(p)
      PROVE  AddsOnly({})
  <2>1. PumpStep(p) /\ Notify(stream[p].run, "none", << >>)
    BY <1>2 DEF Pumped
  <2>2. stream[p].run \in RunId
    BY <2>1, PumpedRunIsARun DEF ChatInductive
  <2> QED
    BY <1>0, <2>1, <2>2, NotifyShows
<1>3. ASSUME NEW r \in RunId, Reaped(r)
      PROVE  AddsOnly({})
  BY <1>0, <1>3, NotifyShows DEF Reaped
<1>4. CASE TimePasses
  BY <1>4, SameAdds DEF TimePasses
<1> QED
  BY <1>1, <1>2, <1>3, <1>4 DEF Background

-----------------------------------------------------------------------------
(***************************************************************************)
(* Steps that leave the tab and pass a run by.                             *)
(***************************************************************************)
LEMMA CardFramesStay ==
  ASSUME CardFrames, NEW R \in SUBSET RunId, AddsOnly(R),
         \A x : Known(x) => Known(x)', \A r \in R : Known(r)'
  PROVE  CardFrames'
BY DEF CardFrames, AddsOnly, Plain, Reshows

LEMMA TabStaysInStep ==
  ASSUME TabInStep, tab' = tab, \A x : Known(x) => Known(x)'
  PROVE  TabInStep'
BY DEF TabInStep

LEMMA AgreeingEvents ==
  ASSUME NEW x, SameEvents(x), NEW k \in Nat, k <= runs[x].cursor
  PROVE  AgreeUpTo(runs[x].events, runs'[x].events, k)
<1>1. \A n \in 1 .. k : n \in 1 .. runs[x].cursor
  BY DEF SameEvents
<1> QED
  BY <1>1 DEF SameEvents, AgreeUpTo, EventAt

\* A resume of x that is on its way was before, or is from k on.
ResumesFrom(x, k) ==
  \A i \in 1 .. Len(up') : IsResume(i)' /\ up'[i].run = x =>
    (\E j \in 1 .. Len(up) : up'[i] = up[j]) \/ k <= up'[i].cursor

LEMMA SeenStays ==
  ASSUME NEW x, NEW k \in Nat, NEW c, c.gate \in Nat, SeenCard(c, x), SameEvents(x), Adds(x, k),
         down' \in Seq(NamedFrame), ResumesFrom(x, c.gate),
         c.run = x => c.gate <= k,
         c.run = x /\ tab'.run = x => c.gate <= tab'.cursor
  PROVE  SeenCard(c, x)'
<1> SUFFICES ASSUME c.run = x
             PROVE  /\ c.gate > 0 /\ c.gate <= runs'[x].cursor
                    /\ \A i \in 1 .. Len(down') : Holds(down', i, x) => c.gate < down'[i].cursor
                    /\ \A i \in 1 .. Len(up') :
                         IsResume(i)' /\ up'[i].run = x => c.gate <= up'[i].cursor
                    /\ tab'.run = x => c.gate <= tab'.cursor
  BY DEF SeenCard, Holds
<1>1. c.gate > 0 /\ c.gate <= runs'[x].cursor
  BY DEF SeenCard, SameEvents
<1>2. ASSUME NEW i \in 1 .. Len(down'), Holds(down', i, x)
      PROVE  c.gate < down'[i].cursor
  <2>1. down'[i].cursor \in Nat
    BY NamedFramesCount
  <2>2. CASE i \in 1 .. Len(down) /\ down'[i] = down[i]
    BY <1>2, <2>2 DEF SeenCard, Holds
  <2>3. CASE k < down'[i].cursor
    BY <2>1, <2>3
  <2> QED
    BY <1>2, <2>2, <2>3 DEF Adds
<1>3. ASSUME NEW i \in 1 .. Len(up'), IsResume(i)', up'[i].run = x
      PROVE  c.gate <= up'[i].cursor
  BY <1>3 DEF ResumesFrom, SeenCard, IsResume
<1> QED
  BY <1>1, <1>2, <1>3

LEMMA InStepAgrees ==
  ASSUME NEW t, t.cursor \in Nat, NEW e, NEW d, AgreeUpTo(e, d, t.cursor), NEW x
  PROVE  /\ Shows(t, e, x) <=> Shows(t, d, x)
         /\ InStep(t, e, x) <=> InStep(t, d, x)
<1>1. /\ \A g : Pending(e, t.cursor, g) <=> Pending(d, t.cursor, g)
      /\ OneAtATime(e, t.cursor) <=> OneAtATime(d, t.cursor)
  BY PendingAgrees
<1> QED
  BY <1>1 DEF Shows, InStep

LEMMA MovesOnStays ==
  ASSUME NEW x, SameEvents(x), tab.cursor \in Nat, tab'.cursor = tab.cursor, MovesOn(x)
  PROVE  MovesOn(x)'
<1>1. PICK n \in tab.cursor + 1 .. runs[x].cursor : IsGate(runs[x].events, n) \/ EndsAt(x, n)
  BY DEF MovesOn
<1>2. n \in 1 .. runs[x].cursor /\ n \in tab.cursor + 1 .. runs'[x].cursor
  BY <1>1 DEF SameEvents
<1>3. runs'[x].events[n].event = runs[x].events[n].event
  BY <1>2 DEF SameEvents, EventAt
<1> QED
  BY <1>1, <1>2, <1>3 DEF MovesOn, IsGate, EndsAt, EventAt

LEMMA ReshownStays ==
  ASSUME NEW x, Reshown(x), TrueFrames(x), SameEvents(x), Adds(x, runs[x].cursor),
         NEW R, AddsOnly(R), x \notin R,
         down \in Seq(NamedFrame), down' \in Seq(NamedFrame), tab.cursor \in Nat,
         Resumes(x)' => Resumes(x),
         tab'.run = x => tab.run = x /\ tab'.cursor = tab.cursor /\ tab.cursor <= runs[x].cursor
  PROVE  Reshown(x)'
<1> SUFFICES ASSUME NEW i \in 1 .. Len(down'), Reshows(down'[i], x)
             PROVE  /\ ~Resumes(x)'
                    /\ down'[i].gate > 0 /\ down'[i].gate <= runs'[x].cursor
                    /\ \A j \in 1 .. Len(down') :
                         Holds(down', j, x) => down'[i].gate < down'[j].cursor
                    /\ \A j \in 1 .. i :
                         Holds(down', j, x) => ~IsGate(runs'[x].events, down'[j].cursor)
                    /\ tab'.run = x => Pending(runs'[x].events, tab'.cursor, down'[i].gate)
  BY DEF Reshown, Reshows, Holds
<1>1. i \in 1 .. Len(down) /\ down'[i] = down[i]
  <2>1. ~Plain(down'[i])
    BY DEF Plain, Reshows, LogEvents
  <2>2. \A y \in R : ~Reshows(down'[i], y)
    BY DEF Reshows
  <2> QED
    BY <2>1, <2>2 DEF AddsOnly
<1>2. PICK g \in Nat : g = down[i].gate
  <2>1. down[i] \in NamedFrame
    BY <1>1, ElementOfSeq
  <2> QED
    BY <2>1 DEF NamedFrame, WireFrame
<1>3. /\ ~Resumes(x)
      /\ g > 0 /\ g <= runs[x].cursor
      /\ \A j \in 1 .. Len(down) : Holds(down, j, x) => g < down[j].cursor
      /\ \A j \in 1 .. i : Holds(down, j, x) => ~IsGate(runs[x].events, down[j].cursor)
      /\ tab.run = x => Pending(runs[x].events, tab.cursor, g)
  BY <1>1, <1>2 DEF Reshown
<1>4. ASSUME NEW j \in 1 .. Len(down'), Holds(down', j, x)
      PROVE  g < down'[j].cursor
  <2>1. down'[j].cursor \in Nat
    BY NamedFramesCount
  <2>2. CASE j \in 1 .. Len(down) /\ down'[j] = down[j]
    BY <1>3, <1>4, <2>2 DEF Holds
  <2>3. CASE runs[x].cursor < down'[j].cursor
    BY <1>3, <2>1, <2>3 DEF SameEvents
  <2> QED
    BY <1>4, <2>2, <2>3 DEF Adds
<1>5. ASSUME NEW j \in 1 .. i, Holds(down', j, x)
      PROVE  ~IsGate(runs'[x].events, down'[j].cursor)
  <2>1. j \in 1 .. Len(down)
    BY <1>1, LenProperties
  <2>2. down'[j] = down[j] /\ Holds(down, j, x)
    BY <1>5, <2>1 DEF AddsOnly, Holds
  <2>3. down[j].cursor \in Nat
    BY <2>1, NamedFramesCount
  <2>4. down[j].cursor \in 1 .. runs[x].cursor
    BY <2>1, <2>2, <2>3 DEF TrueFrames, Holds, SameEvents
  <2>5. runs'[x].events[down[j].cursor].event = runs[x].events[down[j].cursor].event
    BY <2>4 DEF SameEvents, EventAt
  <2> QED
    BY <1>3, <2>2, <2>5 DEF IsGate
<1>6. ASSUME tab'.run = x
      PROVE  Pending(runs'[x].events, tab'.cursor, g)
  <2>1. AgreeUpTo(runs[x].events, runs'[x].events, tab.cursor)
    BY <1>6, AgreeingEvents
  <2> QED
    BY <1>3, <1>6, <2>1, PendingAgrees
<1> QED
  BY <1>1, <1>2, <1>3, <1>4, <1>5, <1>6 DEF SameEvents

LEMMA DueStays ==
  ASSUME NEW x, CardIsDue(x), SameEvents(x), tab' = tab, tab.cursor \in Nat,
         tab.run = x => tab.cursor <= runs[x].cursor, Online' => Online,
         NEW R, AddsOnly(R), Resumes(x) => Resumes(x)',
         tab.run = x /\ tab.status # "idle" =>
           \A g : BeingAnswered(x, g) => BeingAnswered(x, g)' \/ MovesOn(x)'
  PROVE  CardIsDue(x)'
<1> SUFFICES ASSUME Online', Shows(tab, runs'[x].events, x), tab.card = NoCard,
                    NEW g \in 1 .. tab.cursor, Pending(runs'[x].events, tab.cursor, g)
             PROVE  BeingAnswered(x, g)' \/ BeingShown(x, g)' \/ MovesOn(x)'
  BY DEF CardIsDue
<1>1. tab.run = x /\ tab.status # "idle"
  BY DEF Shows
<1>2. AgreeUpTo(runs[x].events, runs'[x].events, tab.cursor)
  BY <1>1, AgreeingEvents
<1>3. Shows(tab, runs[x].events, x) /\ Pending(runs[x].events, tab.cursor, g)
  BY <1>2, InStepAgrees, PendingAgrees
<1>4. BeingAnswered(x, g) \/ BeingShown(x, g) \/ MovesOn(x)
  BY <1>3 DEF CardIsDue
<1>5. BeingShown(x, g) => BeingShown(x, g)'
  BY DEF BeingShown, AddsOnly, Reshows
<1>6. MovesOn(x) => MovesOn(x)'
  BY MovesOnStays
<1>7. BeingAnswered(x, g) => BeingAnswered(x, g)' \/ MovesOn(x)'
  BY <1>1
<1> QED
  BY <1>4, <1>5, <1>6, <1>7

(* A step that passes x by, and leaves the tab, keeps the cards of x.      *)
LEMMA PassingCards ==
  ASSUME down \in Seq(NamedFrame), down' \in Seq(NamedFrame), tab \in NamedTab, tab' = tab,
         StoreInv, NEW x, Whole(x)', Passes(x), Carded(x), TrueFrames(x),
         tab.run = x => tab.cursor <= runs[x].cursor, Online' => Online,
         NEW R, AddsOnly(R), x \notin R,
         \A i \in 1 .. Len(up') : IsResume(i)' => \E j \in 1 .. Len(up) : up'[i] = up[j],
         Resumes(x) => Resumes(x)',
         tab.run = x /\ tab.status # "idle" =>
           \A g : BeingAnswered(x, g) => BeingAnswered(x, g)' \/ MovesOn(x)'
  PROVE  Carded(x)'
<1>1. SameEvents(x) /\ Adds(x, runs[x].cursor) /\ Whole(x)
  BY DEF Passes
<1>2. /\ tab.cursor \in Nat /\ runs[x].cursor \in Nat
      /\ tab.card.gate \in Nat /\ tab.cleared.gate \in Nat
  BY <1>1 DEF NamedTab, TabState, SameEvents
<1>3. \A k : ResumesFrom(x, k)
  BY DEF ResumesFrom
<1>4. Resumes(x)' => Resumes(x)
  BY DEF Resumes, IsResume
<1>5. ASSUME NEW c, c.gate \in Nat, SeenCard(c, x)
      PROVE  SeenCard(c, x)'
  <2>1. c.run = x => c.gate <= runs[x].cursor /\ (tab.run = x => c.gate <= tab.cursor)
    BY <1>5 DEF SeenCard
  <2> QED
    BY <1>1, <1>2, <1>3, <1>5, <2>1, SeenStays
<1>6. SeenCard(tab.card, x)' /\ SeenCard(tab.cleared, x)'
  <2>1. PICK c, d : c = tab.card /\ d = tab.cleared
    OBVIOUS
  <2>2. SeenCard(c, x)' /\ SeenCard(d, x)'
    BY <1>2, <1>5, <2>1 DEF Carded
  <2> QED
    BY <2>1, <2>2 DEF SeenCard, Holds
<1>7. Reshown(x)'
  BY <1>1, <1>2, <1>4, ReshownStays DEF Carded
<1>8. InStep(tab, runs[x].events, x)'
  <2>1. CASE tab.run = x
    <3>1. AgreeUpTo(runs[x].events, runs'[x].events, tab.cursor)
      BY <1>1, <1>2, <2>1, AgreeingEvents
    <3>2. InStep(tab, runs'[x].events, x)
      BY <1>2, <3>1, InStepAgrees DEF Carded
    <3> QED
      BY <3>2
  <2>2. CASE tab.run # x
    BY <2>2 DEF InStep, Shows
  <2> QED
    BY <2>1, <2>2
<1>9. CardIsDue(x)'
  BY <1>1, <1>2, DueStays DEF Carded
<1> QED
  BY <1>6, <1>7, <1>8, <1>9 DEF Carded

-----------------------------------------------------------------------------
(***************************************************************************)
(* The steps of the server.                                                *)
(***************************************************************************)
LEMMA PassedCards ==
  ASSUME ChatInductive, ChatInductive', Delivery, Serving, Carding, tab' = tab, Online' => Online,
         NEW x \in RunId, Whole(x)', Passes(x), NEW R, AddsOnly(R), x \notin R,
         \A i \in 1 .. Len(up') : IsResume(i)' => \E j \in 1 .. Len(up) : up'[i] = up[j],
         Resumes(x) => Resumes(x)',
         tab.run = x /\ tab.status # "idle" =>
           \A g : BeingAnswered(x, g) => BeingAnswered(x, g)' \/ MovesOn(x)'
  PROVE  Carded(x)'
<1>1. /\ down \in Seq(NamedFrame) /\ down' \in Seq(NamedFrame) /\ tab \in NamedTab /\ StoreInv
  BY StoreOfInductive DEF ChatInductive, TypeInv
<1>2. Whole(x) /\ TrueFrames(x) /\ Carded(x)
  BY DEF Passes, Serving, Serves, Carding
<1>3. tab.run = x => tab.cursor <= runs[x].cursor
  BY <1>2, RunIdAssumption DEF Delivery, SoundTab, RunIdAssumption
<1> QED
  BY <1>1, <1>2, <1>3, PassingCards

(* What nobody takes back keeps an answer under way.                       *)
LEMMA AnsweringStays ==
  ASSUME calls \subseteq Call, NEW R, AddsOnly(R), NEW x, NEW g, BeingAnswered(x, g),
         \A i \in 1 .. Len(up) : up[i].do = "respond" => \E j \in 1 .. Len(up') : up'[j] = up[i],
         \A c \in calls : c.do = "respond" => c \in calls' \/ <<c.run, c.gate>> \in answered',
         answered \subseteq answered', \A s \in Socket : IsOpen(s) => IsOpen(s)'
  PROVE  BeingAnswered(x, g)'
<1>1. CASE \E i \in 1 .. Len(up) : up[i].do = "respond" /\ up[i].run = x /\ up[i].cursor = g
  BY <1>1 DEF BeingAnswered
<1>2. CASE \E c \in calls : c.do = "respond" /\ c.run = x /\ c.gate = g /\ IsOpen(c.socket)
  BY <1>2 DEF BeingAnswered, Call
<1>3. CASE <<x, g>> \in answered
  BY <1>3 DEF BeingAnswered
<1>4. CASE \E i \in 1 .. Len(down) : down[i].event = "respond rejected"
  BY <1>4 DEF BeingAnswered, AddsOnly
<1> QED
  BY <1>1, <1>2, <1>3, <1>4 DEF BeingAnswered

LEMMA BackgroundCards ==
  ASSUME ChatInductive, ChatInductive', Delivery, Serving, Carding, Background,
         NEW x \in RunId, Whole(x)'
  PROVE  Carded(x)'
<1>1. up' = up /\ tab' = tab /\ answered' = answered
  BY DEF Background, tabVars
<1>2. Passes(x) /\ (Online' => Online) /\ AddsOnly({})
  BY BackgroundPasses, BackgroundAdds
<1>3. calls' = calls /\ \A z \in Socket : IsOpen(z) => IsOpen(z)'
  <2>1. ASSUME NEW s \in Socket, Disconnect(s)
        PROVE  calls' = calls /\ \A z \in Socket : IsOpen(z) => IsOpen(z)'
    <3>1. link \in [Socket -> {"unused", "open", "gone", "closed"}]
      BY DEF ChatInductive, TypeInv
    <3> QED
      BY <2>1, <3>1 DEF Disconnect, IsOpen
  <2> QED
    BY <2>1 DEF Background, Pumped, Reaped, TimePasses, IsOpen
<1>4. \A g : BeingAnswered(x, g) => BeingAnswered(x, g)'
  <2>1. calls \subseteq Call
    BY DEF ChatInductive, TypeInv
  <2> QED
    BY <1>1, <1>2, <1>3, <2>1, AnsweringStays
<1>5. Resumes(x) => Resumes(x)'
  BY <1>1 DEF Resumes, IsResume
<1>6. \A i \in 1 .. Len(up') : IsResume(i)' => \E j \in 1 .. Len(up) : up'[i] = up[j]
  BY <1>1
<1>7. PICK R : R = {}
  OBVIOUS
<1> QED
  BY <1>1, <1>2, <1>4, <1>5, <1>6, <1>7, PassedCards

(* Of a run that nobody knows there is no card.                            *)
LEMMA UnknownCards ==
  ASSUME CardFrames, TabInStep, SoundTab, NEW x \in RunId, ~Known(x), tab' = tab, AddsOnly({})
  PROVE  Carded(x)'
<1>1. tab.run # x /\ tab.card.run # x /\ tab.cleared.run # x
  BY RunIdAssumption DEF TabInStep, SoundTab, NoCard, RunIdAssumption
<1>2. \A i \in 1 .. Len(down') : ~Reshows(down'[i], x)
  <2> SUFFICES ASSUME NEW i \in 1 .. Len(down'), Reshows(down'[i], x) PROVE FALSE
    OBVIOUS
  <2>1. ~Plain(down'[i])
    BY DEF Plain, Reshows, LogEvents
  <2>2. i \in 1 .. Len(down) /\ down'[i] = down[i]
    BY <2>1 DEF AddsOnly
  <2>3. PICK y \in RunId : Reshows(down[i], y) /\ Known(y)
    BY <2>1, <2>2 DEF CardFrames
  <2> QED
    BY <2>2, <2>3 DEF Reshows
<1> QED
  BY <1>1, <1>2 DEF Carded, SeenCard, Reshown, InStep, CardIsDue, Shows, Reshows

LEMMA TransientIsOne == \A e, r : 1 \in 1 .. Len(Transient(e, r)) /\ Transient(e, r)[1].event = e
BY DEF Transient

LEMMA AnswerCards ==
  ASSUME ChatInductive, ChatInductive', Delivery, Serving, Carding, RoomForTails,
         GatewayAnswers, NEW x \in RunId, Whole(x)'
  PROVE  Carded(x)'
<1>1. PICK c \in calls :
        \/ RespondAccepted(c) /\ answered' = answered \cup {<<c.run, c.gate>>}
        \/ RunAccepted(c) /\ UNCHANGED answered
        \/ AbortAccepted(c) /\ UNCHANGED answered
        \/ Rejected(c) /\ UNCHANGED answered
  BY DEF GatewayAnswers
<1>2. /\ c.socket \in Socket /\ c.run \in RunId /\ c.do \in {"run", "abort", "respond"}
      /\ calls \subseteq Call
  BY DEF ChatInductive, TypeInv, Call
<1>3. up' = up /\ tab' = tab /\ link' = link /\ calls' = calls \ {c}
  BY <1>1 DEF GatewayAnswers, RespondAccepted, RunAccepted, AbortAccepted, Rejected
<1>4. /\ Online' => Online
      /\ Resumes(x) => Resumes(x)'
      /\ AddsOnly({})
      /\ \A i \in 1 .. Len(up') : IsResume(i)' => \E j \in 1 .. Len(up) : up'[i] = up[j]
      /\ \A z \in Socket : IsOpen(z) => IsOpen(z)'
  BY <1>3, AnswerAdds DEF Online, IsOpen, Resumes, IsResume
<1>5. CASE RunAccepted(c) /\ x = c.run
  <2>1. ~Known(x)
    BY <1>5, StartMoves DEF RunAccepted, Known
  <2> QED
    BY <1>3, <1>4, <2>1, UnknownCards DEF Carding, Delivery
<1>6. CASE RunAccepted(c) => x # c.run
  <2>1. Passes(x)
    BY <1>1, <1>6, AnswerPasses
  <2>2. ASSUME NEW g, BeingAnswered(x, g)
        PROVE  BeingAnswered(x, g)'
    <3>1. CASE Rejected(c) /\ c.do = "respond" /\ IsOpen(c.socket)
      <4>1. "respond" \in DOMAIN Rejection /\ Rejection["respond"] = "respond rejected"
        BY DEF Rejection
      <4>2. PICK e \in Seq(NamedFrame) : e = Transient(Rejection["respond"], "none")
        BY <4>1, RejectionIsNamed
      <4>3. 1 \in 1 .. Len(e) /\ e[1].event = "respond rejected"
        BY <4>1, <4>2, TransientIsOne
      <4>4. down \in Seq(NamedFrame) /\ down' = down \o e
        BY <3>1, <4>2 DEF ChatInductive, TypeInv, Rejected, Emit
      <4>5. Len(down) + 1 \in 1 .. Len(down') /\ down'[Len(down) + 1] = e[1]
        BY <4>2, <4>3, <4>4, JoinedFrames
      <4> QED
        BY <4>3, <4>5 DEF BeingAnswered
    <3>2. CASE Rejected(c) /\ c.do = "respond" /\ ~IsOpen(c.socket)
      <4>1. CASE \E d \in calls : d.do = "respond" /\ d.run = x /\ d.gate = g /\ IsOpen(d.socket)
        <5>1. PICK d \in calls : d.do = "respond" /\ d.run = x /\ d.gate = g /\ IsOpen(d.socket)
          BY <4>1
        <5>2. d \in calls' /\ IsOpen(d.socket)'
          BY <1>2, <1>3, <3>2, <5>1 DEF IsOpen
        <5> QED
          BY <5>1, <5>2 DEF BeingAnswered
      <4>2. CASE ~\E d \in calls : d.do = "respond" /\ d.run = x /\ d.gate = g /\ IsOpen(d.socket)
        BY <1>1, <1>3, <1>4, <2>2, <3>2, <4>2 DEF BeingAnswered, AddsOnly, RespondAccepted,
           RunAccepted, AbortAccepted
      <4> QED
        BY <4>1, <4>2
    <3>3. CASE ~(Rejected(c) /\ c.do = "respond")
      <4>1. \A d \in calls : d.do = "respond" => d \in calls' \/ <<d.run, d.gate>> \in answered'
        <5> SUFFICES ASSUME c.do = "respond" PROVE <<c.run, c.gate>> \in answered'
          BY <1>3
        <5> QED
          BY <1>1, <3>3 DEF RunAccepted, AbortAccepted
      <4>2. answered \subseteq answered'
        BY <1>1
      <4>3. \A i \in 1 .. Len(up) : up[i].do = "respond" => \E j \in 1 .. Len(up') : up'[j] = up[i]
        BY <1>3
      <4> QED
        BY <1>2, <1>4, <2>2, <4>1, <4>2, <4>3, AnsweringStays
    <3> QED
      BY <3>1, <3>2, <3>3
  <2>3. PICK R : R = {}
    OBVIOUS
  <2> QED
    BY <1>3, <1>4, <2>1, <2>2, <2>3, PassedCards
<1> QED
  BY <1>5, <1>6

-----------------------------------------------------------------------------
(***************************************************************************)
(* The steps of the user and of the connection.                            *)
(***************************************************************************)
LEMMA UserCards ==
  ASSUME ChatInductive, ChatInductive', Delivery, Serving, Carding,
         (\E r \in RunId : Send(r)) \/ Stop \/ Respond \/ NewChat,
         NEW x \in RunId, Whole(x)'
  PROVE  Carded(x)'
<1>0. /\ tab \in NamedTab /\ tab \in TabState /\ up \in Seq(Command) /\ down \in Seq(NamedFrame)
      /\ tab.card \in NamedCard /\ tab.cleared \in NamedCard /\ tab.cursor \in Nat
      /\ StoreInv /\ TypeInv /\ None \notin RunId /\ NoCard.run = None /\ NoCard.gate = 0
  BY StoreOfInductive, RunIdAssumption
     DEF ChatInductive, TypeInv, NamedTab, RunIdAssumption, TabState, NoCard
<1>1. /\ UNCHANGED <<runs, lost, link, tails, down, calls, answered>>
      /\ \A i \in 1 .. Len(up') : IsResume(i)' => \E j \in 1 .. Len(up) : up'[i] = up[j]
  BY <1>0, UserResumesNothing DEF Send, Stop, Respond, NewChat, managerVars, storeVars, wireVars
<1>2. /\ Whole(x) /\ SameEvents(x) /\ Adds(x, runs[x].cursor) /\ AddsOnly({})
      /\ TrueFrames(x) /\ Carded(x) /\ runs[x].cursor \in Nat /\ runs' = runs
  <2>1. Whole(x)
    BY <1>1 DEF Whole, Has
  <2>2. runs[x].cursor \in Nat
    BY <1>0, <2>1, WholeLog
  <2> QED
    BY <1>1, <2>1, <2>2, AddsNothing, SameAdds DEF SameEvents, EventAt, Serving, Serves, Carding
<1>3. tab.run = x => tab.cursor <= runs[x].cursor
  BY <1>0, <1>2 DEF Delivery, SoundTab
<1>4. /\ tab'.run = x => tab.run = x /\ tab'.cursor = tab.cursor
      /\ tab'.card \in {tab.card, NoCard}
      /\ tab'.cleared \in {tab.cleared, tab.card}
      /\ Respond \/ tab'.run = None \/ tab' = tab
  <2>1. CASE \E r \in RunId : Send(r)
    <3>1. tab' = Issued(tab)
      BY <2>1 DEF Send
    <3> QED
      BY <1>0, <3>1 DEF Issued, TabState
  <2>2. CASE Stop
    BY <2>2 DEF Stop
  <2>3. CASE Respond
    <3>1. tab' = Responded(tab)
      BY <2>3 DEF Respond
    <3> QED
      BY <1>0, <2>3, <3>1 DEF Responded, TabState
  <2>4. CASE NewChat
    <3>1. tab' = Detached(tab)
      BY <2>4 DEF NewChat
    <3> QED
      BY <1>0, <3>1 DEF Detached, TabState
  <2> QED
    BY <2>1, <2>2, <2>3, <2>4
<1>5. \A k : ResumesFrom(x, k)
  BY <1>1 DEF ResumesFrom
<1>6. ASSUME NEW c \in NamedCard, SeenCard(c, x)
      PROVE  SeenCard(c, x)'
  <2>1. /\ c.gate \in Nat
        /\ c.run = x => c.gate <= runs[x].cursor /\ (tab'.run = x => c.gate <= tab'.cursor)
    BY <1>4, <1>6 DEF SeenCard, NamedCard
  <2> QED
    BY <1>0, <1>1, <1>2, <1>5, <1>6, <2>1, SeenStays
<1>7. SeenCard(tab.card, x)' /\ SeenCard(tab.cleared, x)'
  <2>1. PICK c, d : c = tab'.card /\ d = tab'.cleared
    OBVIOUS
  <2>2. SeenCard(NoCard, x) /\ NoCard \in NamedCard
    BY <1>0, NoCardIsNamed DEF SeenCard
  <2>3. c \in NamedCard /\ d \in NamedCard /\ SeenCard(c, x) /\ SeenCard(d, x)
    BY <1>0, <1>2, <1>4, <2>1, <2>2 DEF Carded
  <2>4. SeenCard(c, x)' /\ SeenCard(d, x)'
    BY <1>6, <2>3
  <2> QED
    BY <2>1, <2>4 DEF SeenCard, Holds
<1>8. Resumes(x)' => Resumes(x)
  BY <1>1 DEF Resumes, IsResume
<1>9. Reshown(x)'
  <2>1. PICK R : R = {}
    OBVIOUS
  <2> QED
    BY <1>0, <1>1, <1>2, <1>3, <1>4, <1>8, <2>1, ReshownStays DEF Carded
<1>10. CASE tab'.run = None
  BY <1>0, <1>7, <1>9, <1>10 DEF Carded, InStep, CardIsDue, Shows
<1>11. \A i \in 1 .. Len(up) : i \in 1 .. Len(up') /\ up'[i] = up[i]
  BY <1>0, UserAddsCommands
<1>12. CASE tab' = tab
  <2>1. InStep(tab, runs[x].events, x)'
    BY <1>2, <1>12 DEF Carded
  <2>2. \A g : BeingAnswered(x, g) => BeingAnswered(x, g)'
    BY <1>1, <1>11 DEF BeingAnswered, IsOpen
  <2>3. Resumes(x) => Resumes(x)'
    BY <1>11 DEF Resumes, IsResume
  <2>4. Online' => Online
    BY <1>1 DEF Online, IsOpen
  <2>5. PICK R : R = {}
    OBVIOUS
  <2>6. CardIsDue(x)'
    BY <1>0, <1>2, <1>3, <1>12, <2>2, <2>3, <2>4, <2>5, DueStays DEF Carded
  <2> QED
    BY <1>7, <1>9, <2>1, <2>6 DEF Carded
<1>13. CASE Respond
  <2>1. tab' = Responded(tab) /\ tab.card # NoCard /\ Emits("respond", tab.card.run, tab.card.gate)
    BY <1>13 DEF Respond
  <2>2. PICK t \in NamedTab : t = tab
    BY <1>0
  <2>3. PICK u : u = tab'
    OBVIOUS
  <2>4. /\ u.run = t.run /\ u.cursor = t.cursor /\ u.status = t.status
        /\ u.card = NoCard /\ u.cleared = t.card /\ t.card # NoCard
    BY <1>0, <2>1, <2>2, <2>3 DEF Responded, TabState
  <2>5. PICK e : e = runs[x].events
    OBVIOUS
  <2>6. InStep(t, e, x)
    BY <1>2, <2>2, <2>5 DEF Carded
  <2>7. LastCard(u) = t.card /\ LastCard(t) = t.card /\ (Shows(u, e, x) <=> Shows(t, e, x))
    BY <2>4 DEF LastCard, Shows
  <2>8. InStep(u, e, x)
    BY <1>0, <2>4, <2>6, <2>7 DEF InStep
  <2>9. CardIsDue(x)'
    <3> SUFFICES ASSUME Shows(u, e, x), NEW g \in 1 .. u.cursor, Pending(e, u.cursor, g)
                 PROVE  BeingAnswered(x, g)'
      BY <1>2, <2>3, <2>5 DEF CardIsDue
    <3>1. t.card = CardOf(x, g)
      BY <2>4, <2>6, <2>7 DEF InStep
    <3> DEFINE c == [do |-> "respond", run |-> tab.card.run, cursor |-> tab.card.gate]
    <3>2. c \in Command /\ c.do = "respond" /\ c.run = x /\ c.cursor = g
      BY <1>0, <2>2, <3>1 DEF CardOf, NamedCard, Command
    <3>3. up' = Append(up, c)
      BY <2>1 DEF Emits
    <3> HIDE DEF c
    <3>4. Len(up) \in Nat /\ Len(up') = Len(up) + 1 /\ up'[Len(up) + 1] = c
      BY <1>0, <3>2, <3>3, AppendedCommand
    <3>5. Len(up) + 1 \in 1 .. Len(up')
      BY <3>4
    <3> QED
      BY <3>2, <3>4, <3>5 DEF BeingAnswered
  <2>10. InStep(tab, runs[x].events, x)'
    BY <1>2, <2>3, <2>5, <2>8
  <2> QED
    BY <1>7, <1>9, <2>9, <2>10 DEF Carded
<1> QED
  BY <1>4, <1>10, <1>12, <1>13

\* Without a connection nothing is in flight and nobody waits.
LEMMA BreakUnfolded ==
  ASSUME ChatInductive, Delivery, Lose \/ Reload \/ ServerDies
  PROVE  /\ down' = << >> /\ ~Online'
         /\ tab' = tab \/ tab' = Reloaded(tab)
         /\ (\E x : Whole(x)') => UNCHANGED <<runs, lost>> /\ up' = << >>
<1>0. /\ KnownLogs /\ Connections
      /\ link \in [Socket -> {"unused", "open", "gone", "closed"}]
  BY DEF ChatInductive, TypeInv, Delivery
<1>1. ASSUME NEW s \in Socket, LinkLost(s)
      PROVE  down' = << >> /\ ~Online' /\ UNCHANGED <<runs, lost>>
  <2>1. /\ IsOpen(s) /\ link' = [link EXCEPT ![s] = "gone"] /\ down' = << >>
        /\ UNCHANGED managerVars
    BY <1>1 DEF LinkLost
  <2>2. ~Online'
    BY <1>0, <2>1 DEF Online, IsOpen, Connections
  <2> QED
    BY <2>1, <2>2 DEF managerVars, storeVars
<1>2. CASE Lose
  BY <1>1, <1>2 DEF Lose
<1>3. CASE Reload
  <2>1. up' = << >> /\ tab' = Reloaded(tab)
    BY <1>3 DEF Reload
  <2>2. CASE ~Online /\ UNCHANGED managerVars /\ UNCHANGED wireVars
    <3>1. down = << >> /\ UNCHANGED <<down, link, runs, lost>>
      BY <1>0, <2>2 DEF Connections, Online, wireVars, managerVars, storeVars
    <3> QED
      BY <2>1, <2>2, <3>1 DEF Online, IsOpen
  <2> QED
    BY <1>1, <1>3, <2>1, <2>2 DEF Reload
<1>4. CASE ServerDies
  <2>1. /\ Crash /\ down' = << >> /\ tab' = tab
        /\ link' = [s \in Socket |-> IF link[s] = "unused" THEN "unused" ELSE "closed"]
    BY <1>4 DEF ServerDies, ServerCrash
  <2>2. DOMAIN runs' = {}
    BY <1>0, <2>1, CrashKeepsKnown DEF ChatInductive
  <2> QED
    BY <2>1, <2>2 DEF Whole, Has, Online, IsOpen
<1> QED
  BY <1>2, <1>3, <1>4

LEMMA BreakCards ==
  ASSUME ChatInductive, ChatInductive', Delivery, Carding, Lose \/ Reload \/ ServerDies,
         NEW x \in RunId, Whole(x)'
  PROVE  Carded(x)'
<1>1. /\ down' = << >> /\ up' = << >> /\ ~Online'
      /\ UNCHANGED <<runs, lost>>
      /\ tab' = tab \/ tab' = Reloaded(tab)
  BY BreakUnfolded
<1>2. Carded(x)
  BY <1>1 DEF Whole, Has, Carding
<1>3. Len(<< >>) = 0 /\ None \notin RunId
  BY EmptySeq, RunIdAssumption DEF RunIdAssumption
<1>4. Reshown(x)' /\ CardIsDue(x)'
  BY <1>1, <1>3 DEF Reshown, CardIsDue
<1>5. CASE tab' = tab
  BY <1>1, <1>2, <1>3, <1>4, <1>5 DEF Carded, SeenCard
<1>6. CASE tab' = Reloaded(tab)
  <2>1. PICK u : u = tab'
    OBVIOUS
  <2>2. u.card = NoCard /\ u.cleared = NoCard /\ u.status = "idle" /\ NoCard.run # x
    BY <1>3, <1>6, <2>1 DEF Reloaded, NewTab, NoCard
  <2>3. InStep(u, runs'[x].events, x)
    BY <2>2 DEF InStep, Shows
  <2> QED
    BY <1>4, <2>1, <2>2, <2>3 DEF Carded, SeenCard
<1> QED
  BY <1>1, <1>5, <1>6

LEMMA ConnectCards ==
  ASSUME ChatInductive, ChatInductive', Delivery, Carding, Connect, NEW x \in RunId, Whole(x)'
  PROVE  Carded(x)'
<1>0. tab \in NamedTab /\ up \in Seq(Command) /\ TypeInv /\ Connections
  BY DEF ChatInductive, TypeInv, Delivery
<1>1. /\ down' = << >> /\ down = << >> /\ UNCHANGED <<tab, runs, lost>> /\ Len(<< >>) = 0
      /\ \A i \in 1 .. Len(up') : IsResume(i)' => up'[i].run = tab.run /\ up'[i].cursor = tab.cursor
  BY <1>0, ConnectUnfolded, EmptySeq DEF managerVars, storeVars
<1>2. Whole(x) /\ Carded(x)
  BY <1>1 DEF Whole, Has, Carding
<1>3. SeenCard(tab.card, x)' /\ SeenCard(tab.cleared, x)' /\ Reshown(x)'
  BY <1>1, <1>2 DEF Carded, SeenCard, Reshown
<1>4. InStep(tab, runs[x].events, x)'
  BY <1>1, <1>2 DEF Carded
<1>5. ASSUME tab.run = x, ~tab.done
      PROVE  Resumes(x)'
  BY <1>5, ConnectResumes
<1>6. CardIsDue(x)'
  <2> SUFFICES ASSUME tab.run = x, tab.status # "idle" PROVE \A g : BeingShown(x, g)'
    BY <1>1 DEF CardIsDue, Shows
  <2>1. Resumes(x)'
    BY <1>5 DEF Carding, TabInStep
  <2> QED
    BY <2>1 DEF BeingShown
<1> QED
  BY <1>3, <1>4, <1>6 DEF Carded

\* What a log holds to the end, it holds before.
LEMMA PendingBefore ==
  ASSUME NEW e, NEW k \in Nat, NEW n \in Nat, k <= n, NEW g, g <= k, Pending(e, n, g)
  PROVE  Pending(e, k, g)
<1>1. g \in 1 .. n /\ \A m \in g + 1 .. k : m \in g + 1 .. n
  BY DEF Pending
<1>2. g \in 1 .. k
  BY <1>1
<1> QED
  BY <1>1, <1>2 DEF Pending

(* A subscription shows the open gate that its replay skips, and no other. *)
LEMMA AttachAgain ==
  ASSUME StoreTypeOK', down \in Seq(NamedFrame), NEW s, IsOpen(s), NEW r \in RunId,
         r \in DOMAIN runs', NEW k \in Nat, Attach(s, r, k),
         NEW p, p = PendingGate(runs'[r].events)
  PROVE  /\ \A i \in 1 .. Len(down') : Reshows(down'[i], r) =>
              \/ i \in 1 .. Len(down) /\ down'[i] = down[i]
              \/ down'[i].gate = p /\ p \in 1 .. k
         /\ ~runs'[r].done /\ p \in 1 .. k =>
              \E i \in 1 .. Len(down') : Reshows(down'[i], r) /\ down'[i].gate = p
<1>1. runs'[r].events \in Seq(Event)
  BY DEF StoreTypeOK, RunState, Event
<1>2. PICK log : log = runs'[r] /\ log.events \in Seq(Event)
  BY <1>1
<1>3. PICK f \in Seq(NamedFrame) :
        f = Forwarded(r, After(runs'[r].events, k)) /\ ShowsOnly(f, {})
  BY <1>1, AfterIsTyped, ForwardedIsNamed, ForwardedIsPlain
<1>4. PICK e : e = Again(r, log, k)
  OBVIOUS
<1>5. /\ e \in Seq(NamedFrame)
      /\ \A i \in 1 .. Len(e) : Reshows(e[i], r) /\ e[i].gate = p /\ p \in 1 .. k
      /\ ~log.done /\ p \in 1 .. k => 1 \in 1 .. Len(e)
  BY <1>2, <1>4, AgainShows
<1>6. down' = down \o (f \o e)
  BY <1>2, <1>3, <1>4 DEF Attach, Again, Emit
<1>7. PICK w \in Seq(NamedFrame) : w = f \o e
  BY <1>3, <1>5, JoinedFrames
<1>8. /\ Len(f) \in Nat /\ Len(e) \in Nat
      /\ \A i \in 1 .. Len(w) : \/ i \in 1 .. Len(f) /\ w[i] = f[i]
                                \/ i - Len(f) \in 1 .. Len(e) /\ w[i] = e[i - Len(f)]
      /\ \A i \in 1 .. Len(e) : Len(f) + i \in 1 .. Len(w) /\ w[Len(f) + i] = e[i]
  <2>1. /\ Len(w) = Len(f) + Len(e) /\ Len(f) \in Nat /\ Len(e) \in Nat
        /\ \A i \in 1 .. Len(f) : w[i] = f[i]
    BY <1>3, <1>5, <1>7, JoinedFrames
  <2>2. \A i \in 1 .. Len(e) : Len(f) + i \in 1 .. Len(w) /\ w[Len(f) + i] = e[i]
    BY <1>3, <1>5, <1>7, JoinedFrames
  <2>3. \A i \in 1 .. Len(w) : i > Len(f) => i - Len(f) \in 1 .. Len(e) /\ w[i] = e[i - Len(f)]
    BY <1>3, <1>5, <1>7, JoinedFrames
  <2>4. \A i \in 1 .. Len(w) : i > Len(f) \/ i \in 1 .. Len(f)
    BY <2>1
  <2> QED
    BY <2>1, <2>2, <2>3, <2>4
<1>9. \A i \in 1 .. Len(w) : Reshows(w[i], r) => w[i].gate = p /\ p \in 1 .. k
  <2> SUFFICES ASSUME NEW i \in 1 .. Len(w), Reshows(w[i], r)
               PROVE  w[i].gate = p /\ p \in 1 .. k
    OBVIOUS
  <2>1. CASE i \in 1 .. Len(f) /\ w[i] = f[i]
    BY <1>3, <2>1 DEF ShowsOnly, Plain, Reshows, LogEvents
  <2>2. CASE i - Len(f) \in 1 .. Len(e) /\ w[i] = e[i - Len(f)]
    BY <1>5, <2>2
  <2> QED
    BY <1>8, <2>1, <2>2
<1>10. /\ Len(down) \in Nat /\ Len(down') = Len(down) + Len(w)
       /\ \A i \in 1 .. Len(down) : down'[i] = down[i]
       /\ \A i \in 1 .. Len(w) : Len(down) + i \in 1 .. Len(down') /\ down'[Len(down) + i] = w[i]
       /\ \A i \in 1 .. Len(down') : i > Len(down) => i - Len(down) \in 1 .. Len(w)
                                                      /\ down'[i] = w[i - Len(down)]
  BY <1>6, <1>7, JoinedFrames
<1>11. ASSUME NEW i \in 1 .. Len(down'), Reshows(down'[i], r)
       PROVE  \/ i \in 1 .. Len(down) /\ down'[i] = down[i]
              \/ down'[i].gate = p /\ p \in 1 .. k
  <2>1. i \in 1 .. Len(down) \/ i > Len(down)
    BY <1>10
  <2> QED
    BY <1>9, <1>10, <1>11, <2>1
<1>12. ASSUME ~runs'[r].done, p \in 1 .. k
       PROVE  \E i \in 1 .. Len(down') : Reshows(down'[i], r) /\ down'[i].gate = p
  <2>1. 1 \in 1 .. Len(e) /\ Reshows(e[1], r) /\ e[1].gate = p
    BY <1>2, <1>5, <1>12
  <2>2. PICK i \in 1 .. Len(w) : w[i] = e[1]
    BY <1>8, <2>1
  <2>3. Len(down) + i \in 1 .. Len(down') /\ down'[Len(down) + i] = e[1]
    BY <1>10, <2>2
  <2>4. PICK j \in 1 .. Len(down') : down'[j] = e[1]
    BY <2>3
  <2>5. Reshows(down'[j], r) /\ down'[j].gate = p
    BY <2>1, <2>4
  <2> QED
    BY <2>5
<1> QED
  BY <1>11, <1>12

(* A tab that shows a run in flight whose log has ended has yet to hear of *)
(* the end.                                                                *)
LEMMA EndedMovesOn ==
  ASSUME ChatInductive, Delivery, Serving, Carding, NEW x \in RunId, Whole(x), runs[x].done,
         tab.run = x, tab.status # "idle"
  PROVE  MovesOn(x)
<1>1. /\ runs[x].events \in Seq(Event) /\ runs[x].cursor \in Nat
      /\ Len(runs[x].events) = runs[x].cursor
  BY StoreOfInductive, WholeLog DEF ChatInductive
<1>2. PICK n \in 1 .. runs[x].cursor : EndsAt(x, n)
  BY <1>1 DEF Serving, EndedLogs, EndedLog, Whole, Has, EndsAt, EventAt
<1>3. ~tab.done /\ tab.cursor \in Nat
  BY DEF Carding, TabInStep, ChatInductive, TypeInv, NamedTab, TabState
<1>4. \A m \in 1 .. tab.cursor : ~EndsAt(x, m)
  BY <1>3 DEF Serving, Serves, FollowsWell
<1>5. n \in tab.cursor + 1 .. runs[x].cursor
  BY <1>1, <1>2, <1>3, <1>4
<1> QED
  BY <1>2, <1>5 DEF MovesOn

LEMMA ResumedCards ==
  ASSUME ChatInductive, ChatInductive', Delivery, Serving, Carding, EndedLogs',
         NEW s \in Socket, IsOpen(s), NEW r \in RunId, NEW k \in Nat, ResumeCommand(s, r, k),
         SoundResume(r, k),
         \E i \in 1 .. Len(up) : IsResume(i) /\ up[i].run = r /\ up[i].cursor = k,
         Len(WithoutTail(tails[s], r)) < MaxTails, tab' = tab, Whole(r)', ~Resumes(r)'
  PROVE  Carded(r)'
<1>0. /\ StoreInv /\ StoreTypeOK' /\ KnownLogs
      /\ down \in Seq(NamedFrame) /\ down' \in Seq(NamedFrame) /\ tab \in NamedTab
      /\ tab.card \in NamedCard /\ tab.cleared \in NamedCard /\ tab.cursor \in Nat
  BY StoreOfInductive DEF ChatInductive, TypeInv, TypeOK, Delivery, NamedTab, TabState
<1>1. Has(r) /\ UNCHANGED managerVars /\ Attach(s, r, k) /\ UNCHANGED <<link, calls>>
  <2>1. CASE Rebegin(r)
    <3>1. r \in lost'
      BY <2>1, RebeginKeepsKnown, <1>0 DEF ChatInductive
    <3> QED
      BY <3>1 DEF Whole
  <2>2. CASE ~Has(r) /\ UNCHANGED managerVars
    BY <2>2 DEF Whole, Has, managerVars, storeVars
  <2> QED
    BY <2>1, <2>2 DEF ResumeCommand
<1>2. /\ runs' = runs /\ lost' = lost /\ link' = link /\ Whole(r) /\ r \in DOMAIN runs'
  BY <1>1 DEF Whole, Has, managerVars, storeVars
<1>3. k <= runs[r].cursor /\ Lacks(down, r) /\ (tab.run = r => k = tab.cursor)
  BY <1>2 DEF SoundResume
<1>4. PICK e \in Seq(Event) : e = runs[r].events
  BY <1>0, <1>2, WholeLog
<1>5. /\ runs[r].cursor \in Nat /\ Len(e) = runs[r].cursor
      /\ \A n \in 1 .. Len(e) : e[n].cursor = n
  BY <1>0, <1>2, <1>4, WholeLog
<1>6. SameEvents(r) /\ Carded(r) /\ Adds(r, k)
  <2>1. Adds(r, k)
    BY <1>1, <1>2, <1>3, AttachServes
  <2> QED
    BY <1>2, <1>5, <2>1 DEF SameEvents, EventAt, Carding
<1>7. ASSUME NEW c \in NamedCard, SeenCard(c, r)
      PROVE  SeenCard(c, r)'
  <2>1. ResumesFrom(r, c.gate)
    BY DEF ResumesFrom, Resumes
  <2>2. c.gate \in Nat /\ (c.run = r => c.gate <= k)
    BY <1>7 DEF SeenCard, NamedCard
  <2>3. c.run = r /\ tab'.run = r => c.gate <= tab'.cursor
    BY <1>7 DEF SeenCard
  <2> QED
    BY <1>0, <1>6, <1>7, <2>1, <2>2, <2>3, SeenStays
<1>8. SeenCard(tab.card, r)' /\ SeenCard(tab.cleared, r)'
  <2>1. PICK c, d : c = tab.card /\ d = tab.cleared
    OBVIOUS
  <2>2. SeenCard(c, r)' /\ SeenCard(d, r)'
    BY <1>0, <1>6, <1>7, <2>1 DEF Carded
  <2> QED
    BY <2>1, <2>2 DEF SeenCard, Holds
<1>9. PICK p : p = PendingGate(runs'[r].events)
  OBVIOUS
<1>10. /\ \A i \in 1 .. Len(down') : Reshows(down'[i], r) =>
            \/ i \in 1 .. Len(down) /\ down'[i] = down[i]
            \/ down'[i].gate = p /\ p \in 1 .. k
       /\ ~runs'[r].done /\ p \in 1 .. k =>
            \E i \in 1 .. Len(down') : Reshows(down'[i], r) /\ down'[i].gate = p
  BY <1>0, <1>1, <1>2, <1>9, AttachAgain
<1>11. /\ p # 0 => Pending(e, Len(e), p)
       /\ \A g : Pending(e, Len(e), g) => p = g
  BY <1>2, <1>4, <1>5, <1>9, PendingGateIs
<1>12. \A j \in 1 .. Len(down') : Holds(down', j, r) =>
         down'[j].cursor \in k + 1 .. runs[r].cursor
  <2> SUFFICES ASSUME NEW j \in 1 .. Len(down'), Holds(down', j, r)
               PROVE  down'[j].cursor \in k + 1 .. runs[r].cursor
    OBVIOUS
  <2>1. down'[j].cursor \in Nat
    BY <1>0, NamedFramesCount
  <2>2. ~(j \in 1 .. Len(down) /\ down'[j] = down[j])
    BY <1>3 DEF Lacks, Holds
  <2> QED
    BY <1>2, <1>5, <1>6, <2>1, <2>2 DEF Adds
<1>13. Reshown(r)'
  <2> SUFFICES ASSUME NEW i \in 1 .. Len(down'), Reshows(down'[i], r)
               PROVE  /\ ~Resumes(r)'
                      /\ down'[i].gate > 0 /\ down'[i].gate <= runs'[r].cursor
                      /\ \A j \in 1 .. Len(down') :
                           Holds(down', j, r) => down'[i].gate < down'[j].cursor
                      /\ \A j \in 1 .. i :
                           Holds(down', j, r) => ~IsGate(runs'[r].events, down'[j].cursor)
                      /\ tab'.run = r => Pending(runs'[r].events, tab'.cursor, down'[i].gate)
    BY DEF Reshown, Reshows, Holds
  <2>1. Resumes(r)
    BY DEF Resumes
  <2>2. ~(i \in 1 .. Len(down) /\ down'[i] = down[i])
    BY <1>6, <2>1 DEF Carded, Reshown
  <2>3. down'[i].gate = p /\ p \in 1 .. k
    BY <1>10, <2>2
  <2>4. Pending(e, Len(e), p)
    BY <1>11, <2>3
  <2>5. Pending(e, k, p)
    BY <1>3, <1>5, <2>3, <2>4, PendingBefore
  <2>6. \A n \in k + 1 .. Len(e) : ~IsGate(e, n)
    <3>1. \A n \in k + 1 .. Len(e) : n \in p + 1 .. Len(e)
      BY <2>3
    <3> QED
      BY <2>4, <3>1 DEF Pending
  <2>7. \A j \in 1 .. i : Holds(down', j, r) => ~IsGate(runs'[r].events, down'[j].cursor)
    <3>1. \A j \in 1 .. i : j \in 1 .. Len(down')
      BY <1>0, LenProperties
    <3> QED
      BY <1>2, <1>4, <1>5, <1>12, <2>6, <3>1
  <2>8. \A j \in 1 .. Len(down') : Holds(down', j, r) => p < down'[j].cursor
    <3> SUFFICES ASSUME NEW j \in 1 .. Len(down'), Holds(down', j, r) PROVE p < down'[j].cursor
      OBVIOUS
    <3>1. down'[j].cursor \in k + 1 .. runs[r].cursor
      BY <1>12
    <3> QED
      BY <1>5, <2>3, <3>1
  <2>9. p > 0 /\ p <= runs'[r].cursor
    BY <1>2, <1>3, <1>5, <2>3
  <2> QED
    BY <1>2, <1>3, <1>4, <2>3, <2>5, <2>7, <2>8, <2>9
<1>14. InStep(tab, runs[r].events, r)'
  BY <1>2, <1>6 DEF Carded
<1>15. CardIsDue(r)'
  <2> SUFFICES ASSUME Shows(tab, e, r), NEW g \in 1 .. tab.cursor, Pending(e, tab.cursor, g)
               PROVE  BeingShown(r, g)' \/ MovesOn(r)'
    BY <1>2, <1>4 DEF CardIsDue
  <2>1. tab.run = r /\ tab.status # "idle" /\ k = tab.cursor
    BY <1>3 DEF Shows
  <2>2. MovesOn(r) => MovesOn(r)'
    BY <1>0, <1>6, MovesOnStays
  <2>3. CASE runs[r].done
    BY <1>2, <2>1, <2>2, <2>3, EndedMovesOn
  <2>4. CASE \E n \in k + 1 .. Len(e) : IsGate(e, n)
    BY <1>4, <1>5, <2>1, <2>2, <2>4 DEF MovesOn
  <2>5. CASE ~runs[r].done /\ \A n \in k + 1 .. Len(e) : ~IsGate(e, n)
    <3>1. Pending(e, Len(e), g)
      BY <1>3, <1>5, <2>1, <2>5, PendingStays
    <3>2. p = g /\ p \in 1 .. k
      BY <1>11, <2>1, <3>1
    <3> QED
      BY <1>2, <1>10, <2>5, <3>2 DEF BeingShown, Reshows
  <2> QED
    BY <2>3, <2>4, <2>5
<1> QED
  BY <1>8, <1>13, <1>14, <1>15 DEF Carded
(* A command is taken: a response is passed on, or comes after the run.    *)
LEMMA DeliverCards ==
  ASSUME ChatInductive, ChatInductive', Delivery, Serving, Carding, EndedLogs', RoomForTails,
         Deliver, NEW x \in RunId, Whole(x)'
  PROVE  Carded(x)'
<1>0. up \in Seq(Command) /\ up # << >> /\ up' = Tail(up) /\ tab' = tab /\ answered' = answered
  BY DEF Deliver, ChatInductive, TypeInv
<1>1. /\ Len(up) \in Nat \ {0} /\ Head(up) = up[1] /\ Head(up) \in Command
      /\ Len(up') = Len(up) - 1
      /\ \A i \in 1 .. Len(up') : up'[i] = up[i + 1]
  <2>1. /\ Head(up) \in Command /\ Len(Tail(up)) = Len(up) - 1
        /\ \A i \in 1 .. Len(Tail(up)) : Tail(up)[i] = up[i + 1]
    BY <1>0, HeadTailProperties
  <2>2. Len(up) \in Nat \ {0}
    BY <1>0, EmptySeq, LenProperties
  <2> QED
    BY <1>0, <2>1, <2>2
<1>2. PICK s \in Socket, r \in RunId :
        /\ IsOpen(s)
        /\ r = up[1].run
        /\ \/ up[1].do = "run" /\ RunCommand(s, r)
           \/ up[1].do = "resume" /\ ResumeCommand(s, r, up[1].cursor)
           \/ up[1].do = "abort" /\ AbortCommand(s, r)
           \/ up[1].do = "respond" /\ RespondCommand(s, r, up[1].cursor)
  BY <1>1 DEF Deliver
<1>3. PICK k \in Nat : k = up[1].cursor
  BY <1>1 DEF Command
<1>4. /\ \A i \in 1 .. Len(up') : i + 1 \in 1 .. Len(up) /\ up'[i] = up[i + 1] /\ i + 1 # 1
      /\ \A i \in 1 .. Len(up) : i # 1 => i - 1 \in 1 .. Len(up') /\ up'[i - 1] = up[i]
      /\ 1 \in 1 .. Len(up)
  <2>1. \A i \in 1 .. Len(up') : i + 1 \in 1 .. Len(up) /\ up'[i] = up[i + 1] /\ i + 1 # 1
    BY <1>1
  <2>2. ASSUME NEW i \in 1 .. Len(up), i # 1
        PROVE  i - 1 \in 1 .. Len(up') /\ up'[i - 1] = up[i]
    <3>1. i - 1 \in 1 .. Len(up') /\ (i - 1) + 1 = i
      BY <1>1, <2>2
    <3> QED
      BY <1>1, <3>1
  <2> QED
    BY <1>1, <2>1, <2>2
<1>5. up[1].do # "resume" \/ x # r => (Resumes(x) => Resumes(x)')
  BY <1>2, <1>4 DEF Resumes, IsResume
<1>6. \A i \in 1 .. Len(up') : IsResume(i)' => \E j \in 1 .. Len(up) : up'[i] = up[j]
  BY <1>4
<1>7. Online
  BY <1>2 DEF Online
<1>8. CASE up[1].do # "resume" /\
             (RunCommand(s, r) \/ AbortCommand(s, r) \/ RespondCommand(s, r, k))
  <2>1. Passes(x) /\ link' = link /\ AddsOnly({})
    BY <1>8, CommandPasses, CommandAdds DEF Delivery
  <2>2. calls \subseteq calls' /\ calls \subseteq Call /\ \A z \in Socket : IsOpen(z) => IsOpen(z)'
    BY <1>8, <2>1 DEF RunCommand, AbortCommand, RespondCommand, IsOpen, ChatInductive, TypeInv
  <2>3. Whole(x) /\ SameEvents(x)
    BY <2>1 DEF Passes
  <2>4. CASE up[1].do = "respond" /\ ~IsActive(r) /\ x = r
    <3>1. runs[x].done
      BY <2>3, <2>4 DEF Whole, Has, ChatInductive, Inductive, OpenRunIsDrained,
         EveryPumpIsWatched, Drains
    <3>2. ASSUME tab.run = x, tab.status # "idle"
          PROVE  MovesOn(x)'
      <4>1. tab.cursor \in Nat
        BY DEF ChatInductive, TypeInv, NamedTab, TabState
      <4>2. MovesOn(x)
        BY <2>3, <3>1, <3>2, EndedMovesOn
      <4> QED
        BY <1>0, <2>3, <4>1, <4>2, MovesOnStays
    <3>3. PICK R : R = {}
      OBVIOUS
    <3> QED
      BY <1>0, <1>5, <1>6, <1>7, <1>8, <2>1, <3>2, <3>3, PassedCards
  <2>5. CASE ~(up[1].do = "respond" /\ ~IsActive(r) /\ x = r)
    <3>1. ASSUME NEW g, BeingAnswered(x, g)
          PROVE  BeingAnswered(x, g)'
      <4>1. CASE up[1].do = "respond" /\ up[1].run = x /\ up[1].cursor = g
        <5> DEFINE c == [do |-> "respond", socket |-> s, run |-> r, gate |-> k]
        <5>1. RespondCommand(s, r, k) /\ IsActive(r) /\ x = r /\ k = g
          BY <1>2, <1>3, <2>5, <4>1
        <5>2. c \in calls'
          BY <5>1 DEF RespondCommand
        <5>3. c.do = "respond" /\ c.run = x /\ c.gate = g /\ c.socket = s
          BY <5>1
        <5>4. IsOpen(s)'
          BY <1>2, <2>2
        <5> QED
          BY <5>2, <5>3, <5>4 DEF BeingAnswered, IsOpen
      <4>2. CASE \E i \in 1 .. Len(up) :
                   i # 1 /\ up[i].do = "respond" /\ up[i].run = x /\ up[i].cursor = g
        <5>1. PICK i \in 1 .. Len(up) :
                i # 1 /\ up[i].do = "respond" /\ up[i].run = x /\ up[i].cursor = g
          BY <4>2
        <5>2. i - 1 \in 1 .. Len(up') /\ up'[i - 1] = up[i]
          BY <1>4, <5>1
        <5> QED
          BY <5>1, <5>2 DEF BeingAnswered
      <4>3. CASE \E c \in calls : c.do = "respond" /\ c.run = x /\ c.gate = g /\ IsOpen(c.socket)
        <5>1. PICK c \in calls : c.do = "respond" /\ c.run = x /\ c.gate = g /\ IsOpen(c.socket)
          BY <4>3
        <5>2. c \in calls' /\ IsOpen(c.socket)'
          BY <2>2, <5>1 DEF Call
        <5> QED
          BY <5>1, <5>2 DEF BeingAnswered
      <4>4. CASE \/ <<x, g>> \in answered
                 \/ \E i \in 1 .. Len(down) : down[i].event = "respond rejected"
        BY <1>0, <2>1, <4>4 DEF BeingAnswered, AddsOnly
      <4> QED
        BY <3>1, <4>1, <4>2, <4>3, <4>4 DEF BeingAnswered
    <3>2. PICK R : R = {}
      OBVIOUS
    <3> QED
      BY <1>0, <1>5, <1>6, <1>7, <1>8, <2>1, <3>1, <3>2, PassedCards
  <2> QED
    BY <2>4, <2>5
<1>9. CASE up[1].do = "resume" /\ ResumeCommand(s, r, k)
  <2>0. Len(WithoutTail(tails[s], r)) < MaxTails
    BY DEF RoomForTails
  <2>1. CASE x # r
    <3>1. Passes(x)
      BY <1>9, <2>0, <2>1, ResumePasses
    <3>2. PICK R : x \notin R /\ AddsOnly(R)
      <4>1. x \notin {} /\ x \notin {r}
        BY <2>1
      <4> QED
        BY <1>9, <4>1, ResumeAdds
    <3>3. calls' = calls /\ calls \subseteq Call /\ link' = link
      BY <1>9 DEF ResumeCommand, ChatInductive, TypeInv
    <3>4. ASSUME NEW g, BeingAnswered(x, g)
          PROVE  BeingAnswered(x, g)'
      <4>1. \A i \in 1 .. Len(up) : up[i].do = "respond" => \E j \in 1 .. Len(up') : up'[j] = up[i]
        BY <1>4, <1>9
      <4> QED
        BY <1>0, <3>2, <3>3, <3>4, <4>1, AnsweringStays DEF IsOpen
    <3> QED
      BY <1>0, <1>5, <1>6, <1>7, <2>1, <3>1, <3>2, <3>4, PassedCards
  <2>2. CASE x = r
    <3>1. 1 \in 1 .. Len(up) /\ IsResume(1) /\ up[1].run = r /\ up[1].cursor = k
      BY <1>2, <1>3, <1>4, <1>9 DEF IsResume
    <3>2. SoundResume(r, k)
      BY <3>1 DEF Delivery, SoundResumes
    <3>3. ~Resumes(r)'
      <4> SUFFICES ASSUME NEW i \in 1 .. Len(up'), IsResume(i)' PROVE FALSE
        BY DEF Resumes
      <4>1. i + 1 \in 1 .. Len(up) /\ IsResume(i + 1) /\ i + 1 # 1
        BY <1>4 DEF IsResume
      <4> QED
        BY <3>1, <4>1 DEF Delivery, Connections
    <3> QED
      BY <1>0, <1>2, <1>9, <2>0, <2>2, <3>1, <3>2, <3>3, ResumedCards
  <2> QED
    BY <2>1, <2>2
<1> QED
  BY <1>2, <1>3, <1>8, <1>9

-----------------------------------------------------------------------------
(***************************************************************************)
(* A frame is read.                                                        *)
(***************************************************************************)
(* The next event of the tab's run, or the first one of a run that it has  *)
(* waited for, keeps the cards in step.                                    *)
LEMMA TakenInStep ==
  ASSUME NEW t \in NamedTab, NEW f \in NamedFrame, NEW u \in NamedTab, Taken(t, f, u),
         NEW x \in RunId, f.run = x, f.cursor > 0, SoundFrame(f),
         NEW e, f.event = e[f.cursor].event,
         f.event = "approval.request" => f.gate = f.cursor,
         t.run = x => f.cursor = t.cursor + 1,
         f.event = "run.started" => t.cleared.run # x,
         InStep(t, e, x)
  PROVE  /\ InStep(u, e, x)
         /\ \A g : Shows(u, e, x) /\ u.card = NoCard /\ Pending(e, u.cursor, g) =>
              /\ f.event = "message.delta"
              /\ t.run = x
              /\ Shows(t, e, x) /\ t.card = NoCard /\ Pending(e, t.cursor, g)
<1>0. /\ t.cursor \in Nat /\ f.cursor \in Nat /\ None \notin RunId /\ NoCard.run = None
      /\ f.event \in LogEvents /\ t.card \in NamedCard /\ t.cleared \in NamedCard
  BY RunIdAssumption
     DEF NamedTab, TabState, NamedFrame, WireFrame, SoundFrame, NoCard, RunIdAssumption
<1>1. /\ u.run = x /\ u.cursor = f.cursor /\ Acts(t, f, u)
      /\ u.cleared = IF f.event = "approval.responded" THEN NoCard ELSE t.cleared
      /\ t.run = x \/ f.event = "run.started"
  BY DEF Taken
<1>2. CASE f.event = "run.started"
  <2>1. u.cursor = 1 /\ u.card = NoCard /\ u.cleared.run # x /\ ~Asks(e, 1)
    BY <1>1, <1>2 DEF SoundFrame, Acts, Asks
  <2>2. \A g : ~Pending(e, u.cursor, g)
    <3> SUFFICES ASSUME NEW g, Pending(e, 1, g) PROVE FALSE
      BY <2>1
    <3>1. g \in 1 .. 1 /\ Asks(e, g)
      BY DEF Pending
    <3> QED
      BY <2>1, <3>1
  <2> QED
    BY <1>0, <2>1, <2>2 DEF InStep
<1>3. CASE f.event # "run.started"
  <2>0. PICK k \in Nat : k = t.cursor
    BY <1>0
  <2>1. /\ t.run = x /\ u.cursor = k + 1 /\ e[k + 1].event = f.event /\ f.cursor = k + 1
    BY <1>1, <1>3, <2>0
  <2>2. OneAtATime(e, k + 1) => OneAtATime(e, k) /\ (Asks(e, k + 1) => \A g : ~Pending(e, k, g))
    BY <2>0, OneAtATimeMoves
  <2>3. /\ ~IsGate(e, k + 1) => \A g : Pending(e, k + 1, g) <=> Pending(e, k, g)
        /\ Asks(e, k + 1) => \A g : Pending(e, k + 1, g) <=> g = k + 1
        /\ IsGate(e, k + 1) /\ ~Asks(e, k + 1) => \A g : ~Pending(e, k + 1, g)
    BY <2>0, PendingMoves
  <2>4. OneAtATime(e, k) =>
          /\ t.card.run = x => Pending(e, k, t.card.gate)
          /\ t.cleared.run = x => Pending(e, k, t.cleared.gate)
    BY <2>0, <2>1 DEF InStep
  <2>5. CASE f.event = "message.delta"
    <3>1. /\ u.card = t.card /\ (u.status = "idle" <=> t.status = "idle") /\ u.cleared = t.cleared
          /\ ~IsGate(e, k + 1)
      BY <1>1, <2>1, <2>5 DEF Acts, IsGate
    <3>2. LastCard(u) = LastCard(t)
      BY <3>1 DEF LastCard
    <3>3. Shows(u, e, x) => Shows(t, e, x)
      BY <2>0, <2>1, <2>2, <3>1, <3>2 DEF Shows
    <3>4. \A g \in 1 .. u.cursor : Pending(e, u.cursor, g) => g \in 1 .. k /\ Pending(e, k, g)
      BY <2>1, <2>3, <3>1 DEF Pending
    <3>5. Shows(u, e, x) =>
            \A g \in 1 .. u.cursor : Pending(e, u.cursor, g) => LastCard(u) = CardOf(x, g)
      BY <2>0, <3>2, <3>3, <3>4 DEF InStep
    <3>6. OneAtATime(e, u.cursor) =>
            /\ u.card.run = x => Pending(e, u.cursor, u.card.gate)
            /\ u.cleared.run = x => Pending(e, u.cursor, u.cleared.gate)
      BY <2>1, <2>2, <2>3, <2>4, <3>1
    <3>7. InStep(u, e, x)
      BY <3>5, <3>6 DEF InStep
    <3> QED
      BY <2>0, <2>1, <2>3, <2>5, <3>1, <3>3, <3>7
  <2>6. CASE f.event = "approval.request"
    <3>1. u.card = CardOf(x, k + 1) /\ u.cleared = t.cleared /\ Asks(e, k + 1)
      BY <1>1, <2>1, <2>6 DEF Acts, Asks
    <3>2. u.card # NoCard /\ u.card.gate = k + 1 /\ LastCard(u) = u.card
      BY <1>0, <3>1 DEF CardOf, LastCard
    <3> QED
      BY <2>1, <2>2, <2>3, <2>4, <3>1, <3>2 DEF InStep
  <2>7. CASE f.event = "approval.responded"
    <3>1. u.card = NoCard /\ u.cleared = NoCard /\ IsGate(e, k + 1) /\ ~Asks(e, k + 1)
      BY <1>1, <2>1, <2>7 DEF Acts, IsGate, Asks
    <3> QED
      BY <1>0, <2>1, <2>3, <3>1 DEF InStep
  <2>8. CASE f.event \in TerminalEvents
    <3>1. /\ u.card = NoCard /\ u.status = "idle" /\ u.cleared = t.cleared /\ ~IsGate(e, k + 1)
      BY <1>1, <2>1, <2>8 DEF Acts, IsGate, TerminalEvents
    <3> QED
      BY <1>0, <2>1, <2>2, <2>3, <2>4, <3>1 DEF InStep, Shows
  <2> QED
    BY <1>0, <1>3, <2>5, <2>6, <2>7, <2>8 DEF LogEvents
<1> QED
  BY <1>2, <1>3
\* A tab that stays where it is, and shows the same cards.
LEMMA SameInStep ==
  ASSUME NEW t, NEW u, u.run = t.run, u.cursor = t.cursor, u.card = t.card, u.cleared = t.cleared,
         u.status = "idle" <=> t.status = "idle", NEW e, NEW x
  PROVE  (InStep(u, e, x) <=> InStep(t, e, x)) /\ (Shows(u, e, x) <=> Shows(t, e, x))
BY DEF InStep, Shows, LastCard

(* A rejected answer brings the card of the open gate back.                *)
LEMMA RestoredInStep ==
  ASSUME NEW t \in NamedTab, NEW f, NEW u \in NamedTab, Restored(t, f, u), NEW e, NEW x \in RunId,
         InStep(t, e, x)
  PROVE  InStep(u, e, x) /\ u.card # NoCard
<1>0. /\ t.cursor \in Nat /\ None \notin RunId /\ NoCard.run = None
      /\ u.run = t.run /\ u.cursor = t.cursor /\ u.card = t.cleared /\ u.cleared = NoCard
      /\ u.card # NoCard /\ u.card \in NamedCard
  BY RunIdAssumption DEF NamedTab, TabState, NoCard, Restored, Stays, RunIdAssumption
<1>1. u.run = x /\ OneAtATime(e, u.cursor) =>
        /\ u.card.run = x => Pending(e, u.cursor, u.card.gate)
        /\ u.cleared.run = x => Pending(e, u.cursor, u.cleared.gate)
  BY <1>0 DEF InStep
<1>2. ASSUME Shows(u, e, x), NEW g \in 1 .. u.cursor, Pending(e, u.cursor, g)
      PROVE  LastCard(u) = CardOf(x, g)
  <2>1. LastCard(u) = u.card /\ u.card.run = x /\ u.card = CardOf(x, u.card.gate)
    BY <1>0, <1>2 DEF LastCard, Shows, NamedCard, CardOf
  <2>2. Pending(e, u.cursor, u.card.gate)
    BY <1>1, <1>2, <2>1 DEF Shows
  <2>3. u.card.gate = g
    BY <1>0, <1>2, <2>2, PendingIsUnique
  <2> QED
    BY <2>1, <2>3
<1> QED
  BY <1>0, <1>1, <1>2 DEF InStep

(* A card that is shown again is the one of the open gate.                 *)
LEMMA ReshownInStep ==
  ASSUME NEW t \in NamedTab, NEW f \in NamedFrame, NEW u \in NamedTab, Taken(t, f, u),
         NEW e, NEW x \in RunId, Reshows(f, x), t.run = x, Pending(e, t.cursor, f.gate),
         InStep(t, e, x)
  PROVE  InStep(u, e, x) /\ u.card # NoCard
<1>0. /\ t.cursor \in Nat /\ None \notin RunId /\ NoCard.run = None
      /\ u.run = x /\ u.cursor = t.cursor /\ u.card = CardOf(x, f.gate) /\ u.cleared = t.cleared
  BY RunIdAssumption DEF NamedTab, TabState, NoCard, Taken, Acts, Reshows, RunIdAssumption
<1>1. u.card # NoCard /\ u.card.gate = f.gate /\ LastCard(u) = u.card
  BY <1>0 DEF CardOf, LastCard
<1>2. \A g : Pending(e, t.cursor, g) => g = f.gate
  BY <1>0, PendingIsUnique
<1> QED
  BY <1>0, <1>1, <1>2 DEF InStep

LEMMA ReceiveCards ==
  ASSUME ChatInductive, ChatInductive', Delivery, Serving, Carding, Receive,
         NEW x \in RunId, Whole(x)'
  PROVE  Carded(x)'
<1>0. /\ tab \in NamedTab /\ tab' \in NamedTab /\ down \in Seq(NamedFrame)
      /\ StoreInv /\ SoundTab /\ SoundFrames /\ None \notin RunId /\ NoCard.run = None
  BY StoreOfInductive, RunIdAssumption
     DEF ChatInductive, TypeInv, Delivery, NoCard, RunIdAssumption
<1>1. /\ down # << >> /\ down' = Tail(down)
      /\ UNCHANGED <<runs, lost, link, tails, up, calls, answered>>
      /\ tab' = Received(tab, Head(down))
  BY DEF Receive, managerVars, storeVars
<1>2. PICK f \in NamedFrame : f = down[1] /\ f = Head(down)
  BY <1>0, <1>1, TailFrames
<1>3. /\ Len(down) \in Nat /\ 1 \in 1 .. Len(down)
      /\ \A i \in 1 .. Len(down') : i + 1 \in 1 .. Len(down) /\ down'[i] = down[i + 1]
      /\ \A i \in 1 .. Len(down) : i > 1 => i - 1 \in 1 .. Len(down') /\ down'[i - 1] = down[i]
      /\ \A i \in 1 .. Len(down) : down[i].cursor \in Nat
      /\ f.cursor \in Nat
  BY <1>0, <1>1, <1>2, TailFrames
<1>4. SoundFrame(f)
  BY <1>0, <1>2, <1>3 DEF SoundFrames
<1>5. PICK t \in NamedTab : t = tab
  BY <1>0
<1>6. PICK u \in NamedTab : u = tab' /\ u = Received(t, f)
  BY <1>0, <1>1, <1>2, <1>5
<1>7. /\ t.cursor \in Nat /\ u.cursor \in Nat
      /\ t.card \in NamedCard /\ t.cleared \in NamedCard
      /\ u.card \in NamedCard /\ u.cleared \in NamedCard
  BY DEF NamedTab, TabState
<1>8. Settled(t, u) \/ Restored(t, f, u) \/ Ignored(t, f, u) \/ Taken(t, f, u)
  <2>1. t.expecting => t.cursor = 0
    BY <1>0, <1>5 DEF SoundTab
  <2>2. t.run # None => t.shown \in {None, t.run}
    BY <1>5 DEF Carding, TabInStep
  <2> QED
    BY <1>4, <1>6, <2>1, <2>2, ReceivedActs
<1>9. Whole(x) /\ Serves(x) /\ Delivered(x) /\ Carded(x)
  BY <1>1 DEF Whole, Has, Serving, Delivery, Carding
<1>10. PICK e : e = runs[x].events
  OBVIOUS
<1>11. runs[x].cursor \in Nat /\ runs' = runs
  BY <1>0, <1>1, <1>9, WholeLog
<1>12. /\ SeenCard(t.card, x) /\ SeenCard(t.cleared, x) /\ SeenCard(NoCard, x)
       /\ InStep(t, e, x)
  BY <1>0, <1>5, <1>9, <1>10 DEF Carded, SeenCard
<1>13. Plain(f) \/ \E y \in RunId : Reshows(f, y)
  BY <1>2, <1>3 DEF Carding, CardFrames
<1>14. ASSUME NEW c \in NamedCard, SeenCard(c, x), c.run = x /\ u.run = x => c.gate <= u.cursor
       PROVE  SeenCard(c, x)'
  BY <1>1, <1>3, <1>6, <1>14 DEF SeenCard, Holds, IsResume
<1>15. ASSUME NEW c, NEW d, c = u.card, d = u.cleared, SeenCard(c, x)', SeenCard(d, x)'
       PROVE  SeenCard(tab.card, x)' /\ SeenCard(tab.cleared, x)'
  BY <1>6, <1>15 DEF SeenCard, Holds
<1>16. ASSUME u.run = x => \A i \in 2 .. Len(down) :
                Reshows(down[i], x) => Pending(e, u.cursor, down[i].gate)
       PROVE  Reshown(x)'
  <2> SUFFICES ASSUME NEW i \in 1 .. Len(down'), Reshows(down'[i], x)
               PROVE  /\ ~Resumes(x)'
                      /\ down'[i].gate > 0 /\ down'[i].gate <= runs'[x].cursor
                      /\ \A j \in 1 .. Len(down') :
                           Holds(down', j, x) => down'[i].gate < down'[j].cursor
                      /\ \A j \in 1 .. i :
                           Holds(down', j, x) => ~IsGate(runs'[x].events, down'[j].cursor)
                      /\ tab'.run = x => Pending(runs'[x].events, tab'.cursor, down'[i].gate)
    BY DEF Reshown, Reshows, Holds
  <2>1. /\ i + 1 \in 2 .. Len(down) /\ i + 1 \in 1 .. Len(down)
        /\ down'[i] = down[i + 1] /\ Reshows(down[i + 1], x)
    <3>1. i + 1 \in 1 .. Len(down) /\ down'[i] = down[i + 1]
      BY <1>3
    <3> QED
      BY <1>3, <3>1
  <2>2. /\ ~Resumes(x)
        /\ down[i + 1].gate > 0 /\ down[i + 1].gate <= runs[x].cursor
        /\ \A j \in 1 .. Len(down) : Holds(down, j, x) => down[i + 1].gate < down[j].cursor
        /\ \A j \in 1 .. i + 1 : Holds(down, j, x) => ~IsGate(runs[x].events, down[j].cursor)
    BY <1>9, <2>1 DEF Carded, Reshown
  <2>3. ~Resumes(x)'
    BY <1>1, <2>2 DEF Resumes, IsResume
  <2>4. \A j \in 1 .. Len(down') : Holds(down', j, x) => down'[i].gate < down'[j].cursor
    BY <1>3, <2>1, <2>2 DEF Holds
  <2>5. \A j \in 1 .. i : Holds(down', j, x) => ~IsGate(runs'[x].events, down'[j].cursor)
    <3>1. \A j \in 1 .. i : j \in 1 .. Len(down') /\ j + 1 \in 1 .. i + 1
      BY <1>3, <2>1
    <3> QED
      BY <1>1, <1>3, <2>2, <3>1 DEF Holds
  <2>6. tab'.run = x => Pending(runs'[x].events, tab'.cursor, down'[i].gate)
    BY <1>1, <1>6, <1>10, <1>16, <2>1
  <2> QED
    BY <1>1, <2>1, <2>2, <2>3, <2>4, <2>5, <2>6
<1>17. ASSUME u.run = t.run, u.cursor = t.cursor
       PROVE  Reshown(x)'
  <2>1. \A i \in 2 .. Len(down) : i \in 1 .. Len(down)
    OBVIOUS
  <2>2. u.run = x => \A i \in 2 .. Len(down) :
          Reshows(down[i], x) => Pending(e, u.cursor, down[i].gate)
    BY <1>5, <1>9, <1>10, <1>17, <2>1 DEF Carded, Reshown
  <2> QED
    BY <1>16, <2>2
<1>18. ASSUME InStep(u, e, x) PROVE InStep(tab, runs[x].events, x)'
  BY <1>1, <1>6, <1>10, <1>18
<1>19. ASSUME ~Shows(u, e, x) \/ u.card # NoCard PROVE CardIsDue(x)'
  BY <1>1, <1>6, <1>10, <1>19 DEF CardIsDue
<1>20. ASSUME f.event # "respond rejected", NEW g, BeingAnswered(x, g)
       PROVE  BeingAnswered(x, g)'
  <2>1. CASE \E i \in 1 .. Len(down) : down[i].event = "respond rejected"
    <3>1. PICK i \in 1 .. Len(down) : down[i].event = "respond rejected"
      BY <2>1
    <3>2. down[1].event # "respond rejected"
      BY <1>2, <1>20
    <3>3. i # 1
      BY <3>1, <3>2
    <3>4. i > 1
      BY <1>3, <3>3
    <3>5. i - 1 \in 1 .. Len(down') /\ down'[i - 1] = down[i]
      BY <1>3, <3>1, <3>4
    <3> QED
      BY <3>1, <3>5 DEF BeingAnswered
  <2> QED
    BY <1>1, <1>20, <2>1 DEF BeingAnswered, IsOpen
<1>21. ASSUME ~Reshows(f, x), NEW g, BeingShown(x, g)
       PROVE  BeingShown(x, g)'
  <2>1. CASE \E i \in 1 .. Len(down) : Reshows(down[i], x) /\ down[i].gate = g
    <3>1. PICK i \in 1 .. Len(down) : Reshows(down[i], x) /\ down[i].gate = g
      BY <2>1
    <3>2. i > 1
      BY <1>2, <1>21, <3>1
    <3>3. i - 1 \in 1 .. Len(down') /\ down'[i - 1] = down[i]
      BY <1>3, <3>1, <3>2
    <3> QED
      BY <3>1, <3>3 DEF BeingShown, Reshows
  <2>2. CASE Resumes(x)
    BY <1>1, <2>2 DEF BeingShown, Resumes, IsResume
  <2> QED
    BY <1>21, <2>1, <2>2 DEF BeingShown
<1>22. ASSUME u.run = t.run, u.cursor = t.cursor, u.card = t.card, u.cleared = t.cleared,
              u.status = "idle" <=> t.status = "idle",
              f.event # "respond rejected", t.run = x => ~Reshows(f, x)
       PROVE  Carded(x)'
  <2>1. InStep(u, e, x) /\ (Shows(u, e, x) <=> Shows(t, e, x))
    BY <1>12, <1>22, SameInStep
  <2>2. SeenCard(u.card, x)' /\ SeenCard(u.cleared, x)'
    <3>1. /\ u.card.run = x /\ u.run = x => u.card.gate <= u.cursor
          /\ u.cleared.run = x /\ u.run = x => u.cleared.gate <= u.cursor
      BY <1>5, <1>12, <1>22 DEF SeenCard
    <3>2. SeenCard(u.card, x) /\ SeenCard(u.cleared, x)
      BY <1>12, <1>22
    <3> QED
      BY <1>7, <1>14, <3>1, <3>2
  <2>3. CardIsDue(x)'
    <3> SUFFICES ASSUME Online, Shows(u, e, x), u.card = NoCard,
                        NEW g \in 1 .. u.cursor, Pending(e, u.cursor, g)
                 PROVE  BeingAnswered(x, g)' \/ BeingShown(x, g)' \/ MovesOn(x)'
      BY <1>1, <1>6, <1>10 DEF CardIsDue, Online, IsOpen
    <3>1. BeingAnswered(x, g) \/ BeingShown(x, g) \/ MovesOn(x)
      BY <1>5, <1>9, <1>10, <1>22, <2>1 DEF Carded, CardIsDue
    <3>2. t.run = x
      BY <1>22 DEF Shows
    <3>3. MovesOn(x) => MovesOn(x)'
      BY <1>1, <1>5, <1>6, <1>22 DEF MovesOn, EndsAt, EventAt
    <3> QED
      BY <1>20, <1>21, <1>22, <3>1, <3>2, <3>3
  <2>4. PICK c, d : c = u.card /\ d = u.cleared
    OBVIOUS
  <2>5. SeenCard(c, x)' /\ SeenCard(d, x)'
    BY <2>2, <2>4 DEF SeenCard, Holds
  <2> QED
    BY <1>15, <1>17, <1>18, <1>22, <2>1, <2>3, <2>4, <2>5 DEF Carded
<1>23. CASE Settled(t, u)
  <2>1. /\ u.run = t.run /\ u.cursor = t.cursor /\ u.cleared = t.cleared
        /\ u.card = NoCard /\ u.status = "idle"
    BY <1>23 DEF Settled, Stays
  <2>2. InStep(u, e, x) /\ ~Shows(u, e, x)
    BY <1>0, <1>12, <2>1 DEF InStep, Shows
  <2>3. PICK c, d : c = u.card /\ d = u.cleared
    OBVIOUS
  <2>4. d.run = x /\ u.run = x => d.gate <= u.cursor
    BY <1>5, <1>12, <2>1, <2>3 DEF SeenCard
  <2>5. SeenCard(c, x)' /\ SeenCard(d, x)'
    BY <1>0, <1>7, <1>12, <1>14, <2>1, <2>3, <2>4
  <2> QED
    BY <1>15, <1>17, <1>18, <1>19, <2>1, <2>2, <2>3, <2>5 DEF Carded
<1>24. CASE Restored(t, f, u)
  <2>1. /\ u.run = t.run /\ u.cursor = t.cursor /\ u.card = t.cleared /\ u.cleared = NoCard
    BY <1>24 DEF Restored, Stays
  <2>2. InStep(u, e, x) /\ u.card # NoCard
    BY <1>12, <1>24, RestoredInStep
  <2>3. PICK c, d : c = u.card /\ d = u.cleared
    OBVIOUS
  <2>4. c.run = x /\ u.run = x => c.gate <= u.cursor
    BY <1>5, <1>12, <2>1, <2>3 DEF SeenCard
  <2>5. SeenCard(c, x)' /\ SeenCard(d, x)'
    BY <1>0, <1>7, <1>12, <1>14, <2>1, <2>3, <2>4
  <2> QED
    BY <1>15, <1>17, <1>18, <1>19, <2>1, <2>2, <2>3, <2>5 DEF Carded
<1>25. CASE Ignored(t, f, u)
  <2>1. t.run = x => ~Reshows(f, x)
    BY <1>25 DEF Ignored, Reshows, Fresh, RunFrames, LogEvents, NamedFrame
  <2> QED
    BY <1>22, <1>25, <2>1 DEF Ignored, Stays
<1>26. ASSUME Taken(t, f, u), u.run # x
       PROVE  Carded(x)'
  <2>1. /\ u.card \in {NoCard, t.card} \/ u.card.run # x
        /\ u.cleared \in {NoCard, t.cleared}
    BY <1>26 DEF Taken, Acts, RunFrames, LogEvents, CardOf
  <2>2. InStep(u, e, x) /\ ~Shows(u, e, x)
    BY <1>26 DEF InStep, Shows
  <2>3. Reshown(x)'
    BY <1>16, <1>26
  <2>4. PICK c, d : c = u.card /\ d = u.cleared
    OBVIOUS
  <2>5. SeenCard(c, x) /\ SeenCard(d, x)
    BY <1>12, <2>1, <2>4 DEF SeenCard
  <2>6. SeenCard(c, x)' /\ SeenCard(d, x)'
    BY <1>7, <1>14, <1>26, <2>4, <2>5
  <2> QED
    BY <1>15, <1>18, <1>19, <2>2, <2>3, <2>4, <2>6 DEF Carded
<1>27. ASSUME Taken(t, f, u), f.cursor = 0, u.run = x
       PROVE  Carded(x)'
  <2>0. f.event # "run.started"
    BY <1>4, <1>27 DEF SoundFrame
  <2>1. /\ f.run = x /\ t.run = x /\ u.cursor = t.cursor
        /\ f.event = "approval.responded" \/ u.cleared = t.cleared
    BY <1>27, <2>0 DEF Taken
  <2>2. CASE f.event = "run.stopping"
    <3>1. u.card = t.card /\ (u.status = "idle" <=> t.status = "idle") /\ u.cleared = t.cleared
      BY <1>27, <2>1, <2>2 DEF Taken, Acts
    <3> QED
      BY <1>22, <1>27, <2>1, <2>2, <3>1 DEF Reshows
  <2>3. CASE Reshows(f, x)
    <3>1. /\ ~Resumes(x)
          /\ f.gate > 0 /\ f.gate <= runs[x].cursor
          /\ \A j \in 1 .. Len(down) : Holds(down, j, x) => f.gate < down[j].cursor
          /\ Pending(e, t.cursor, f.gate)
      BY <1>2, <1>3, <1>5, <1>9, <1>10, <2>1, <2>3 DEF Carded, Reshown
    <3>2. InStep(u, e, x) /\ u.card # NoCard
      BY <1>12, <1>27, <2>1, <2>3, <3>1, ReshownInStep
    <3>3. u.card = CardOf(x, f.gate) /\ u.cleared = t.cleared
      BY <1>27, <2>1, <2>3 DEF Taken, Acts, Reshows
    <3>4. f.gate <= t.cursor
      BY <3>1 DEF Pending
    <3>5. PICK c, d : c = u.card /\ d = u.cleared
      OBVIOUS
    <3>6. SeenCard(c, x) /\ SeenCard(d, x)
      <4>1. c.gate = f.gate
        BY <3>3, <3>5 DEF CardOf
      <4> QED
        BY <1>5, <1>12, <3>1, <3>3, <3>4, <3>5, <4>1 DEF SeenCard, Resumes
    <3>7. SeenCard(c, x)' /\ SeenCard(d, x)'
      <4>1. /\ c.run = x /\ u.run = x => c.gate <= u.cursor
            /\ d.run = x /\ u.run = x => d.gate <= u.cursor
        BY <1>5, <2>1, <3>6 DEF SeenCard
      <4> QED
        BY <1>7, <1>14, <3>5, <3>6, <4>1
    <3> QED
      BY <1>15, <1>17, <1>18, <1>19, <1>27, <2>1, <3>2, <3>5, <3>7 DEF Carded
  <2> QED
    BY <1>13, <1>27, <2>1, <2>2, <2>3 DEF Plain, Taken, RunFrames, Reshows
<1>28. ASSUME Taken(t, f, u), f.cursor > 0, u.run = x
       PROVE  Carded(x)'
  <2>1. /\ f.run = x /\ u.cursor = f.cursor /\ f.cursor > t.cursor
        /\ t.run = x \/ f.event = "run.started"
        /\ u.cleared \in {NoCard, t.cleared}
        /\ Acts(t, f, u) /\ f.event \in LogEvents
    BY <1>4, <1>28 DEF Taken, Fresh, SoundFrame
  <2>2. Holds(down, 1, x)
    BY <1>2, <1>28, <2>1 DEF Holds
  <2>3. /\ f.event = e[f.cursor].event /\ f.cursor <= runs[x].cursor
        /\ f.event = "approval.request" => f.gate = f.cursor
    BY <1>2, <1>3, <1>9, <1>10, <1>13, <1>28, <2>2 DEF Serves, TrueFrames, EventAt, Plain, Reshows
  <2>4. PICK a \in Nat, b \in Nat : Carries(down, x, a, b) /\ (tab.run = x => a <= tab.cursor)
    <3>1. \A b \in 0 .. runs[x].cursor : b \in Nat /\ \A a \in 0 .. b : a \in Nat
      BY <1>11
    <3> QED
      BY <1>9, <3>1 DEF Delivered
  <2>5. f.cursor = a + 1 /\ Carries(down', x, a + 1, b)
    BY <1>0, <1>1, <1>2, <2>2, <2>4, CarriesAfterOwn
  <2>6. t.run = x => f.cursor = t.cursor + 1
    BY <1>5, <1>7, <2>1, <2>4, <2>5
  <2>7. ASSUME NEW c \in NamedCard, SeenCard(c, x), c.run = x
        PROVE  c.gate < f.cursor /\ c.gate > 0
    BY <1>2, <1>3, <2>2, <2>7 DEF SeenCard
  <2>8. f.event = "run.started" => f.cursor = 1 /\ t.cleared.run # x
    <3>1. f.event = "run.started" => f.cursor = 1
      BY <1>4 DEF SoundFrame
    <3> QED
      BY <1>7, <1>12, <2>7, <3>1 DEF NamedCard
  <2>9. /\ InStep(u, e, x)
        /\ \A g : Shows(u, e, x) /\ u.card = NoCard /\ Pending(e, u.cursor, g) =>
             /\ f.event = "message.delta"
             /\ t.run = x
             /\ Shows(t, e, x) /\ t.card = NoCard /\ Pending(e, t.cursor, g)
    BY <1>4, <1>12, <1>28, <2>1, <2>3, <2>6, <2>8, TakenInStep
  <2>10. ASSUME NEW c \in NamedCard, c \in {NoCard, t.card, t.cleared}
         PROVE  SeenCard(c, x)'
    <3>1. SeenCard(c, x)
      BY <1>12, <2>10
    <3>2. c.run = x /\ u.run = x => c.gate <= u.cursor
      BY <1>7, <2>1, <2>7, <3>1 DEF NamedCard
    <3> QED
      BY <1>14, <3>1, <3>2
  <2>11. SeenCard(u.cleared, x)'
    <3>1. PICK d : d = u.cleared
      OBVIOUS
    <3>2. SeenCard(d, x)'
      BY <1>7, <2>1, <2>10, <3>1
    <3> QED
      BY <3>1, <3>2 DEF SeenCard, Holds
  <2>12. SeenCard(u.card, x)'
    <3>1. PICK c \in NamedCard : c = u.card
      BY <1>7
    <3>2. CASE f.event # "approval.request"
      <4>1. c \in {NoCard, t.card}
        BY <2>1, <3>1, <3>2 DEF Acts, LogEvents
      <4>2. SeenCard(c, x)'
        BY <2>10, <4>1
      <4> QED
        BY <3>1, <4>2 DEF SeenCard, Holds
    <3>3. CASE f.event = "approval.request"
      <4>1. c.gate = f.cursor
        BY <2>1, <2>3, <3>1, <3>3 DEF Acts, CardOf
      <4>2. \A i \in 1 .. Len(down') : Holds(down', i, x) => c.gate < down'[i].cursor
        BY <2>5, <4>1 DEF Carries
      <4>3. \A i \in 1 .. Len(up) : ~(IsResume(i) /\ up[i].run = x)
        BY <1>3, <1>9, <2>2 DEF Delivery, SoundResumes, SoundResume, Lacks
      <4>4. \A i \in 1 .. Len(up') : ~(IsResume(i)' /\ up'[i].run = x)
        BY <1>1, <4>3 DEF IsResume
      <4>5. c.gate > 0 /\ c.gate <= runs'[x].cursor /\ c.gate <= tab'.cursor
        BY <1>3, <1>6, <1>11, <1>28, <2>1, <2>3, <4>1
      <4>6. SeenCard(c, x)'
        BY <4>2, <4>4, <4>5 DEF SeenCard, Holds
      <4> QED
        BY <3>1, <4>6 DEF SeenCard, Holds
    <3> QED
      BY <3>2, <3>3
  <2>13. Reshown(x)'
    <3> SUFFICES ASSUME NEW i \in 2 .. Len(down), Reshows(down[i], x)
                 PROVE  Pending(e, u.cursor, down[i].gate)
      BY <1>16
    <3>1. i \in 1 .. Len(down) /\ 1 \in 1 .. i
      BY <1>3
    <3>2. PICK g \in Nat : g = down[i].gate
      BY <1>0, <3>1, ElementOfSeq DEF NamedFrame, WireFrame
    <3>3. /\ g > 0 /\ g < f.cursor /\ ~IsGate(e, f.cursor)
          /\ tab.run = x => Pending(e, tab.cursor, g)
      BY <1>2, <1>3, <1>9, <1>10, <2>2, <3>1, <3>2 DEF Carded, Reshown
    <3>4. t.run = x
      BY <2>1, <2>8, <3>2, <3>3
    <3>5. PICK k \in Nat : k = t.cursor
      BY <1>7
    <3>6. u.cursor = k + 1 /\ f.cursor = k + 1 /\ Pending(e, k, g)
      BY <1>5, <2>1, <2>6, <3>3, <3>4, <3>5
    <3>7. Pending(e, k + 1, g)
      BY <3>3, <3>6, PendingMoves
    <3> QED
      BY <3>2, <3>6, <3>7
  <2>14. CardIsDue(x)'
    <3> SUFFICES ASSUME Online, Shows(u, e, x), u.card = NoCard,
                        NEW g \in 1 .. u.cursor, Pending(e, u.cursor, g)
                 PROVE  BeingAnswered(x, g)' \/ BeingShown(x, g)' \/ MovesOn(x)'
      BY <1>1, <1>6, <1>10 DEF CardIsDue, Online, IsOpen
    <3>1. /\ f.event = "message.delta" /\ t.run = x
          /\ Shows(t, e, x) /\ t.card = NoCard /\ Pending(e, t.cursor, g)
      BY <2>9
    <3>2. g \in 1 .. t.cursor
      BY <3>1 DEF Pending
    <3>3. BeingAnswered(x, g) \/ BeingShown(x, g) \/ MovesOn(x)
      BY <1>5, <1>9, <1>10, <3>1, <3>2 DEF Carded, CardIsDue
    <3>4. ~Reshows(f, x)
      BY <3>1 DEF Reshows
    <3>5. ASSUME MovesOn(x)
          PROVE  MovesOn(x)'
      <4>1. PICK n \in tab.cursor + 1 .. runs[x].cursor :
              IsGate(e, n) \/ e[n].event \in TerminalEvents
        BY <1>10, <3>5 DEF MovesOn, EndsAt, EventAt
      <4>2. n # f.cursor
        BY <2>3, <3>1, <4>1 DEF IsGate, TerminalEvents
      <4>3. n \in tab'.cursor + 1 .. runs'[x].cursor
        BY <1>1, <1>5, <1>6, <1>7, <2>1, <2>6, <3>1, <4>1, <4>2
      <4> QED
        BY <1>1, <1>10, <4>1, <4>3 DEF MovesOn, EndsAt, EventAt
    <3> QED
      BY <1>20, <1>21, <3>1, <3>3, <3>4, <3>5
  <2>15. PICK c, d : c = u.card /\ d = u.cleared
    OBVIOUS
  <2>16. SeenCard(c, x)' /\ SeenCard(d, x)'
    BY <2>11, <2>12, <2>15 DEF SeenCard, Holds
  <2> QED
    BY <1>15, <1>18, <2>9, <2>13, <2>14, <2>15, <2>16 DEF Carded
<1> QED
  BY <1>3, <1>8, <1>23, <1>24, <1>25, <1>26, <1>27, <1>28

-----------------------------------------------------------------------------
(***************************************************************************)
(* Every step.                                                             *)
(***************************************************************************)
LEMMA DeliverAdds ==
  ASSUME ChatInductive, ChatInductive', Deliver
  PROVE  AddsOnly({}) \/ \E r \in RunId : AddsOnly({r}) /\ Known(r)'
<1>1. up \in Seq(Command) /\ up # << >> /\ Head(up) \in Command
  <2>1. up \in Seq(Command) /\ up # << >>
    BY DEF Deliver, ChatInductive, TypeInv
  <2> QED
    BY <2>1, HeadTailProperties
<1>2. PICK k \in Nat : k = Head(up).cursor
  BY <1>1 DEF Command
<1>3. PICK s \in Socket, r \in RunId :
        \/ RunCommand(s, r)
        \/ ResumeCommand(s, r, k)
        \/ AbortCommand(s, r)
        \/ RespondCommand(s, r, k)
  BY <1>2 DEF Deliver
<1> QED
  BY <1>3, CommandAdds, ResumeAdds

LEMMA StepKeepsCardFrames ==
  ASSUME ChatInductive, ChatInductive', Delivery, Carding, [SystemNext]_vars
  PROVE  CardFrames'
<1>0. /\ CardFrames /\ down \in Seq(NamedFrame) /\ TypeInv /\ Len(<< >>) = 0
      /\ \A x : Known(x) => Known(x)'
  BY StepKeepsRunsKnown, EmptySeq DEF Carding, ChatInductive, TypeInv, Delivery
<1>1. ASSUME NEW R \in SUBSET RunId, AddsOnly(R), \A r \in R : Known(r)'
      PROVE  CardFrames'
  BY <1>0, <1>1, CardFramesStay
<1>2. CASE UNCHANGED vars
  BY <1>1, <1>2, SameAdds DEF vars, wireVars
<1>3. CASE (\E r \in RunId : Send(r)) \/ Stop \/ Respond \/ NewChat
  BY <1>0, <1>1, <1>3, UserResumesNothing, SameAdds DEF wireVars
<1>4. CASE Lose \/ Reload \/ ServerDies
  BY <1>0, <1>4, BreakUnfolded DEF CardFrames
<1>5. CASE Connect
  BY <1>0, <1>5, ConnectUnfolded DEF CardFrames, Delivery
<1>6. CASE Deliver
  BY <1>1, <1>6, DeliverAdds
<1>7. CASE Receive
  <2>1. down # << >> /\ down' = Tail(down)
    BY <1>7 DEF Receive
  <2>2. \A i \in 1 .. Len(down') : i + 1 \in 1 .. Len(down) /\ down'[i] = down[i + 1]
    BY <1>0, <2>1, TailFrames
  <2> QED
    BY <1>0, <2>2 DEF CardFrames
<1>8. CASE GatewayAnswers
  BY <1>1, <1>8, AnswerAdds
<1>9. CASE Background
  BY <1>1, <1>9, BackgroundAdds
<1> QED
  BY <1>2, <1>3, <1>4, <1>5, <1>6, <1>7, <1>8, <1>9 DEF SystemNext

LEMMA ReceiveKeepsTabInStep ==
  ASSUME ChatInductive, ChatInductive', Delivery, Carding, Receive
  PROVE  TabInStep'
<1>0. /\ tab \in NamedTab /\ tab' \in NamedTab /\ down \in Seq(NamedFrame)
      /\ SoundTab /\ SoundFrames /\ TabInStep /\ None \notin RunId /\ NoCard.run = None
  BY RunIdAssumption DEF ChatInductive, TypeInv, Delivery, Carding, NoCard, RunIdAssumption
<1>1. /\ down # << >> /\ UNCHANGED <<runs, lost>> /\ tab' = Received(tab, Head(down))
  BY DEF Receive, managerVars, storeVars
<1>2. PICK f \in NamedFrame : f = down[1] /\ f = Head(down) /\ 1 \in 1 .. Len(down)
  BY <1>0, <1>1, TailFrames
<1>3. SoundFrame(f) /\ (f.cursor > 0 => Known(f.run)) /\ f.cursor \in Nat
  BY <1>0, <1>2 DEF SoundFrames, NamedFrame, WireFrame
<1>4. PICK t \in NamedTab : t = tab
  BY <1>0
<1>5. PICK u \in NamedTab : u = tab' /\ u = Received(t, f)
  BY <1>0, <1>1, <1>2, <1>4
<1>6. /\ t.run # None => t.shown \in {None, t.run}
      /\ t.done => t.status = "idle"
      /\ t.card # NoCard => Known(t.card.run)
      /\ t.cleared # NoCard => Known(t.cleared.run)
  BY <1>0, <1>4 DEF TabInStep
<1>7. Settled(t, u) \/ Restored(t, f, u) \/ Ignored(t, f, u) \/ Taken(t, f, u)
  <2>1. t.expecting => t.cursor = 0
    BY <1>0, <1>4 DEF SoundTab
  <2> QED
    BY <1>3, <1>5, <1>6, <2>1, ReceivedActs
<1>8. ASSUME u.run # None => u.shown \in {None, u.run},
             u.done => u.status = "idle",
             u.card # NoCard => Known(u.card.run),
             u.cleared # NoCard => Known(u.cleared.run)
      PROVE  TabInStep'
  BY <1>1, <1>5, <1>8 DEF TabInStep, Known, Has
<1>9. CASE Settled(t, u) \/ Restored(t, f, u) \/ Ignored(t, f, u)
  BY <1>6, <1>8, <1>9 DEF Settled, Restored, Ignored, Stays
<1>10. CASE Taken(t, f, u)
  <2>1. u.run = f.run /\ Acts(t, f, u) /\ u.cleared \in {NoCard, t.cleared}
    BY <1>10 DEF Taken
  <2>2. f.event = "approval.request" => Known(f.run)
    <3> SUFFICES ASSUME f.event = "approval.request", f.cursor = 0 PROVE Known(f.run)
      BY <1>3
    <3> QED
      BY <1>2 DEF Carding, CardFrames, Plain, Reshows, LogEvents
  <2>3. u.card \in {NoCard, t.card} \/ (f.event = "approval.request" /\ u.card.run = f.run)
    BY <1>10, <2>1 DEF Taken, Acts, RunFrames, LogEvents, CardOf
  <2>4. u.done => u.status = "idle"
    BY <1>6, <1>10, <2>1 DEF Taken, Acts, RunFrames, LogEvents
  <2>5. u.shown \in {None, u.run}
    BY <2>1 DEF Acts
  <2> QED
    BY <1>6, <1>8, <2>1, <2>2, <2>3, <2>4, <2>5
<1> QED
  BY <1>7, <1>9, <1>10

LEMMA StepKeepsTabInStep ==
  ASSUME ChatInductive, ChatInductive', Delivery, Carding, [SystemNext]_vars
  PROVE  TabInStep'
<1>0. /\ TabInStep /\ TypeInv /\ tab \in TabState /\ None \notin RunId
      /\ \A x : Known(x) => Known(x)'
  BY StepKeepsRunsKnown, RunIdAssumption
     DEF Carding, ChatInductive, TypeInv, Delivery, NamedTab, RunIdAssumption
<1>1. CASE tab' = tab
  BY <1>0, <1>1, TabStaysInStep
<1>2. CASE \E r \in RunId : Send(r)
  <2>1. tab' = Issued(tab)
    BY <1>2 DEF Send
  <2>2. tab'.run = None /\ ~tab'.done /\ tab'.card = tab.card /\ tab'.cleared = tab.cleared
    BY <1>0, <2>1 DEF Issued, TabState
  <2> QED
    BY <1>0, <2>2 DEF TabInStep
<1>3. CASE Respond
  <2>1. tab' = Responded(tab)
    BY <1>3 DEF Respond
  <2>2. /\ tab'.run = tab.run /\ tab'.shown = tab.shown /\ tab'.done = tab.done
        /\ tab'.status = tab.status /\ tab'.card = NoCard /\ tab'.cleared = tab.card
    BY <1>0, <2>1 DEF Responded, TabState
  <2> QED
    BY <1>0, <2>2 DEF TabInStep
<1>4. CASE NewChat
  <2>1. tab' = Detached(tab)
    BY <1>4 DEF NewChat
  <2>2. tab'.run = None /\ ~tab'.done /\ tab'.card = NoCard /\ tab'.cleared = tab.cleared
    BY <1>0, <2>1 DEF Detached, TabState
  <2> QED
    BY <1>0, <2>2 DEF TabInStep
<1>5. CASE Lose \/ Reload \/ ServerDies
  <2>1. CASE tab' = Reloaded(tab)
    <3>1. tab'.shown = None /\ ~tab'.done /\ tab'.card = NoCard /\ tab'.cleared = NoCard
      BY <2>1 DEF Reloaded, NewTab
    <3> QED
      BY <3>1 DEF TabInStep
  <2> QED
    BY <1>1, <1>5, <2>1, BreakUnfolded
<1>6. CASE Receive
  BY <1>6, ReceiveKeepsTabInStep
<1> QED
  BY <1>1, <1>2, <1>3, <1>4, <1>5, <1>6
     DEF SystemNext, Stop, Connect, Deliver, GatewayAnswers, Background, vars, tabVars

LEMMA StepKeepsCarding ==
  ASSUME ChatInductive, ChatInductive', Delivery, Serving, Carding, RoomForTails,
         [SystemNext]_vars
  PROVE  Carding'
<1>1. EndedLogs'
  BY StepMaps, ManagerKeepsEnds DEF ChatInductive, Serving
<1>2. ASSUME NEW x \in RunId, Whole(x)'
      PROVE  Carded(x)'
  <2>1. CASE UNCHANGED vars
    <3>1. UNCHANGED <<runs, lost, link, tails, calls, down, tab, up, answered>>
      BY <2>1 DEF vars, managerVars, storeVars, wireVars, tabVars
    <3>2. Whole(x) /\ Carded(x)
      BY <1>2, <3>1 DEF Whole, Has, Carding
    <3> QED
      BY <3>1, <3>2 DEF Carded, SeenCard, Reshown, CardIsDue, BeingAnswered, BeingShown, MovesOn,
                        EndsAt, EventAt, Holds, Resumes, IsResume, IsOpen, Online
  <2>2. CASE (\E r \in RunId : Send(r)) \/ Stop \/ Respond \/ NewChat
    BY <1>2, <2>2, UserCards
  <2>3. CASE Lose \/ Reload \/ ServerDies
    BY <1>2, <2>3, BreakCards
  <2>4. CASE Connect
    BY <1>2, <2>4, ConnectCards
  <2>5. CASE Deliver
    BY <1>1, <1>2, <2>5, DeliverCards
  <2>6. CASE Receive
    BY <1>2, <2>6, ReceiveCards
  <2>7. CASE GatewayAnswers
    BY <1>2, <2>7, AnswerCards
  <2>8. CASE Background
    BY <1>2, <2>8, BackgroundCards
  <2> QED
    BY <2>1, <2>2, <2>3, <2>4, <2>5, <2>6, <2>7, <2>8 DEF SystemNext
<1> QED
  BY <1>2, StepKeepsCardFrames, StepKeepsTabInStep DEF Carding

LEMMA InitCarding == SystemInit => Carding
<1> SUFFICES ASSUME SystemInit PROVE Carding
  OBVIOUS
<1>1. down = << >> /\ tab = NewTab /\ DOMAIN runs = {} /\ Len(<< >>) = 0
  BY EmptySeq DEF SystemInit, WireInit, ManagerInit, StoreInit, NoRuns
<1>2. CardFrames /\ TabInStep
  BY <1>1 DEF CardFrames, TabInStep, NewTab
<1> QED
  BY <1>1, <1>2 DEF Carding, Whole, Has

(* When the wire is quiet, the open gate of the run has its card.          *)
LEMMA CardingShowsTheCard ==
  ASSUME ChatInductive, Delivery, Serving, Carding
  PROVE  PausedRunShowsItsCard
<1> SUFFICES ASSUME Online, up = << >>, down = << >>, FollowsGatedRun, tab.status # "idle",
                    LastCard(tab).run \in {None, tab.run}
             PROVE  GateIsShown
  BY DEF PausedRunShowsItsCard, Quiet
<1>0. tab \in NamedTab /\ StoreInv /\ tab.card \in NamedCard
  BY StoreOfInductive DEF ChatInductive, TypeInv, NamedTab
<1>1. PICK x \in RunId : x = tab.run
  BY <1>0 DEF FollowsGatedRun, NamedTab, TabState
<1>2. ~tab.done /\ Whole(x) /\ GatesAlternate(runs[x].events)
  BY <1>1 DEF FollowsGatedRun
<1>3. PICK e \in Seq(Event) :
        e = runs[x].events /\ Len(e) = runs[x].cursor /\ \A n \in 1 .. Len(e) : e[n].cursor = n
  BY <1>0, <1>2, WholeLog
<1>4. tab.cursor = runs[x].cursor
  BY <1>1, <1>2, ServingIsCaughtUp DEF CaughtUp, Quiet, FollowsGatedRun
<1>5. Shows(tab, e, x)
  BY <1>1, <1>2, <1>3, <1>4, AlternatingGates DEF Shows
<1>6. PICK g : g = PendingGate(e)
  OBVIOUS
<1>7. CASE g = 0
  BY <1>1, <1>3, <1>6, <1>7 DEF GateIsShown
<1>8. CASE g # 0
  <2>1. Pending(e, tab.cursor, g) /\ g \in 1 .. tab.cursor
    BY <1>3, <1>4, <1>6, <1>8, PendingGateIs DEF Pending
  <2>2. Carded(x) /\ LastCard(tab) = CardOf(x, g)
    BY <1>1, <1>2, <1>3, <1>5, <2>1 DEF Carding, Carded, InStep
  <2>3. CASE tab.card # NoCard
    BY <1>1, <1>3, <1>6, <2>2, <2>3 DEF LastCard, CardOf, GateIsShown
  <2>4. CASE tab.card = NoCard
    <3>1. BeingAnswered(x, g) \/ BeingShown(x, g) \/ MovesOn(x)
      BY <1>3, <1>5, <2>1, <2>2, <2>4 DEF Carded, CardIsDue
    <3>2. Len(<< >>) = 0 /\ runs[x].cursor \in Nat
      BY <1>0, <1>2, EmptySeq, WholeLog
    <3>3. ~BeingShown(x, g) /\ ~MovesOn(x)
      BY <1>4, <3>2 DEF BeingShown, Resumes, MovesOn
    <3>4. <<x, g>> \in answered \/ \E c \in calls : c.do = "respond" /\ c.run = x /\ c.gate = g
      BY <3>1, <3>2, <3>3 DEF BeingAnswered
    <3> QED
      BY <1>1, <1>3, <1>6, <3>4 DEF GateIsShown
  <2> QED
    BY <2>3, <2>4
<1> QED
  BY <1>7, <1>8

-----------------------------------------------------------------------------
(***************************************************************************)
(* The theorems about cards.                                               *)
(***************************************************************************)
(* A paused run shows its card (chatRun.ts 51-59, 167-178; useChatRun.ts   *)
(* 167-182): as long as every socket has room for a subscription more      *)
(* (chatRun.ts 187), the gate that pauses the run a tab shows in flight is *)
(* on the screen or being answered whenever the wire is quiet, whatever    *)
(* connections, page loads, crashes and rejected answers came before.      *)
THEOREM PausedRunShowsItsCardWithinTheCap ==
  SystemSpec /\ []RoomForTails => []PausedRunShowsItsCard
<1> DEFINE Inv == ChatInductive /\ TailsOfOpenLogs /\ Delivery /\ Serving /\ Carding
<1>1. SystemInit => Inv
  BY InitTypes, InitTails, InitDelivery, InitServing, InitCarding
<1>2. Inv /\ [SystemNext]_vars /\ RoomForTails => Inv'
  BY StepKeepsInductive, StepKeepsOpen, StepKeepsDelivery, StepKeepsServing, StepKeepsCarding
<1>3. Inv => PausedRunShowsItsCard
  BY CardingShowsTheCard
<1> QED
  BY <1>1, <1>2, <1>3, PTL DEF SystemSpec

(* No card is lost, whatever happens, when there are no more runs than a   *)
(* socket may subscribe to (chatRun.ts 45, 187): the gate that pauses the  *)
(* run a tab shows in flight has its card, or an answer, whenever the wire *)
(* is quiet.                                                               *)
THEOREM NoCardIsLost ==
  ASSUME IsFiniteSet(RunId), Cardinality(RunId) <= MaxTails
  PROVE  SystemSpec => []PausedRunShowsItsCard
<1> DEFINE Inv == /\ ChatInductive /\ TailsOfOpenLogs /\ Delivery /\ Serving /\ Carding
                  /\ DistinctTails
<1>1. SystemInit => Inv
  BY InitTypes, InitTails, InitDelivery, InitServing, InitCarding, InitDistinct
<1>2. Inv /\ [SystemNext]_vars => Inv'
  <2> SUFFICES ASSUME Inv, [SystemNext]_vars PROVE Inv'
    OBVIOUS
  <2>1. ChatInductive' /\ TailsOfOpenLogs' /\ Delivery'
    BY StepKeepsInductive, StepKeepsOpen, StepKeepsDelivery
  <2>2. RoomForTails
    BY DistinctTailsLeaveRoom
  <2>3. Serving' /\ Carding' /\ DistinctTails'
    BY <2>1, <2>2, StepKeepsServing, StepKeepsCarding, StepKeepsDistinct
  <2> QED
    BY <2>1, <2>3
<1>3. Inv => PausedRunShowsItsCard
  BY CardingShowsTheCard
<1> QED
  BY <1>1, <1>2, <1>3, PTL DEF SystemSpec
=============================================================================
