-------------------------- MODULE RunManagerProofs --------------------------
(***************************************************************************)
(* Proofs about RunManager, for every number of runs and pumps and every   *)
(* value of the caps and windows.                                          *)
(***************************************************************************)
EXTENDS RunManager, SequenceTheorems, FiniteSetTheorems, TLAPS

USE RunStoreAssumption, RunManagerAssumption DEF RunStoreAssumption, RunManagerAssumption

-----------------------------------------------------------------------------
(***************************************************************************)
(* The operators of the store.                                             *)
(***************************************************************************)

(* What append does to one run state: it stays a run state whose retained  *)
(* events carry consecutive cursors, also when the cap drops the oldest.   *)
LEMMA LoggedIsGapFree ==
  ASSUME NEW s \in RunState, GapFree(s), NEW e \in LogEvents
  PROVE  /\ Logged(s, e) \in RunState
         /\ GapFree(Logged(s, e))
         /\ Logged(s, e).cursor > 0
         /\ e \in TerminalEvents => Logged(s, e).done
         /\ s.done => Logged(s, e).done
<1> DEFINE Item == [cursor : Nat, event : LogEvents]
           new == [cursor |-> s.cursor + 1, event |-> e]
           long == Append(s.events, new)
           short == Capped(long)
<1>1. /\ s.events \in Seq(Item)
      /\ s.cursor \in Nat
      /\ s.done \in BOOLEAN
  BY DEF RunState
<1>2. new \in Item
  BY <1>1
<1>3. /\ long \in Seq(Item)
      /\ Len(long) = Len(s.events) + 1
      /\ \A i \in 1 .. Len(s.events) : long[i] = s.events[i]
      /\ long[Len(s.events) + 1] = new
  BY <1>1, <1>2, AppendProperties
<1>0. /\ s.cursor + 1 \in Nat
      /\ new.cursor = s.cursor + 1
  BY <1>1
<1> HIDE DEF new, long
<1>4. \A i \in 1 .. Len(long) : long[i].cursor = s.cursor + 1 - Len(long) + i
  <2> SUFFICES ASSUME NEW i \in 1 .. Len(long)
               PROVE  long[i].cursor = s.cursor + 1 - Len(long) + i
    OBVIOUS
  <2>0. Len(s.events) \in Nat
    BY <1>1, LenProperties
  <2>1. CASE i = Len(s.events) + 1
    BY <2>0, <2>1, <1>0, <1>1, <1>3
  <2>2. CASE i # Len(s.events) + 1
    <3>1. i \in 1 .. Len(s.events)
      BY <2>0, <2>2, <1>3
    <3>2. s.events[i].cursor = s.cursor - Len(s.events) + i
      BY <3>1 DEF GapFree
    <3> QED
      BY <3>1, <3>2, <2>0, <1>1, <1>3
  <2> QED
    BY <2>1, <2>2
<1>5. /\ short \in Seq(Item)
      /\ Len(short) = IF s.cursor + 1 < MaxEvents THEN s.cursor + 1 ELSE MaxEvents
      /\ \A i \in 1 .. Len(short) : short[i].cursor = s.cursor + 1 - Len(short) + i
  <2>0. /\ Len(s.events) \in Nat
        /\ Len(s.events) = IF s.cursor < MaxEvents THEN s.cursor ELSE MaxEvents
    BY <1>1, LenProperties DEF GapFree
  <2>1. CASE Len(long) <= MaxEvents
    <3>1. short = long
      BY <2>1 DEF Capped
    <3> QED
      BY <3>1, <2>0, <2>1, <1>1, <1>3, <1>4
  <2>2. CASE ~(Len(long) <= MaxEvents)
    <3> DEFINE m == Len(long) - MaxEvents + 1
    <3>1. short = SubSeq(long, m, Len(long))
      BY <2>2 DEF Capped
    <3> HIDE DEF m
    <3>2. /\ Len(s.events) = MaxEvents
          /\ m = 2
          /\ Len(long) = MaxEvents + 1
          /\ MaxEvents <= s.cursor
      BY <2>0, <2>2, <1>1, <1>3 DEF m
    <3>3. \A i \in 2 .. MaxEvents + 1 : long[i] \in Item
      <4> HIDE DEF Item, short
      <4> SUFFICES ASSUME NEW i \in 2 .. MaxEvents + 1
                   PROVE  long[i] \in Item
        OBVIOUS
      <4>1. i \in 1 .. Len(long)
        BY <3>2
      <4> QED
        BY <4>1, <1>3, ElementOfSeq
    <3>4. short = SubSeq(long, 2, MaxEvents + 1)
      BY <3>1, <3>2
    <3>5. /\ short \in Seq(Item)
          /\ Len(short) = MaxEvents
          /\ \A i \in 1 .. MaxEvents : short[i] = long[i + 1]
      <4> HIDE DEF Item, short
      <4>1. /\ SubSeq(long, 2, MaxEvents + 1) \in Seq(Item)
            /\ Len(SubSeq(long, 2, MaxEvents + 1)) = MaxEvents
            /\ \A i \in 1 .. MaxEvents : SubSeq(long, 2, MaxEvents + 1)[i] = long[2 + i - 1]
        BY <3>3, SubSeqProperties
      <4> QED
        BY <3>4, <4>1
    <3>6. ASSUME NEW i \in 1 .. MaxEvents
          PROVE  short[i].cursor = s.cursor + 1 - MaxEvents + i
      <4> HIDE DEF Item, short
      <4>1. i + 1 \in 1 .. Len(long)
        BY <3>2
      <4>2. long[i + 1].cursor = s.cursor + 1 - Len(long) + (i + 1)
        BY <4>1, <1>4
      <4>3. short[i] = long[i + 1]
        BY <3>5
      <4>4. Len(long) = MaxEvents + 1 /\ s.cursor \in Int /\ i \in Int
        BY <3>2, <1>1
      <4> QED
        BY <4>2, <4>3, <4>4
    <3> HIDE DEF Item, short
    <3> QED
      BY <3>2, <3>5, <3>6, <1>0, <1>1
  <2> QED
    BY <2>1, <2>2
<1> HIDE DEF short
<1> DEFINE finished == s.done \/ e \in TerminalEvents
<1>6. Logged(s, e) = [events |-> short, done |-> finished, cursor |-> s.cursor + 1,
                      idle |-> 0]
  BY DEF Logged, short, long, new
<1>7. finished \in BOOLEAN
  BY <1>1, Zenon
<1> HIDE DEF finished
<1>8. Logged(s, e) \in RunState
  BY <1>0, <1>1, <1>5, <1>6, <1>7 DEF RunState
<1>9. GapFree(Logged(s, e))
  BY <1>1, <1>5, <1>6 DEF GapFree
<1>10. Logged(s, e).cursor > 0
  BY <1>1, <1>6
<1>11. Logged(s, e).done = finished
  BY <1>6
<1> QED
  BY <1>8, <1>9, <1>10, <1>11 DEF finished

(* The part of the inductive invariant that speaks of the store alone.     *)
StoreInv == StoreTypeOK /\ LogIsGapFree /\ DoneRunHasEvents

(* What a change of the store may do: a done run stays done or is          *)
(* remembered as lost, and a run that is open afterwards was open before,  *)
(* unless it is one of R.                                                  *)
Conservative(R) ==
  /\ lost \subseteq lost'
  /\ \A x \in DOMAIN runs : runs[x].done => x \in lost' \/ IsDone(x)'
  /\ \A x \in DOMAIN runs' \ lost' :
       ~runs'[x].done => x \in R \/ (x \in DOMAIN runs \ lost /\ ~runs[x].done)

(* Inserting a run, with the eviction that may follow, keeps the new run   *)
(* and changes no other one that it keeps.                                 *)
LEMMA EnsuredKeepsRuns ==
  ASSUME StoreInv, NEW r \in RunId, NEW rs \in Ensured(r)
  PROVE  /\ rs \in [DOMAIN rs -> RunState]
         /\ DOMAIN rs \subseteq RunId
         /\ r \in DOMAIN rs
         /\ r \in DOMAIN runs => rs[r] = runs[r]
         /\ \A x \in DOMAIN rs : x # r => x \in DOMAIN runs /\ rs[x] = runs[x]
         /\ \A x \in DOMAIN rs : GapFree(rs[x]) /\ (rs[x].done => rs[x].cursor > 0)
<1>1. /\ DOMAIN runs \subseteq RunId
      /\ runs \in [DOMAIN runs -> RunState]
      /\ \A x \in DOMAIN runs : GapFree(runs[x])
      /\ \A x \in DOMAIN runs : runs[x].done => runs[x].cursor > 0
  BY DEF StoreInv, StoreTypeOK, LogIsGapFree, DoneRunHasEvents
<1>2. /\ FreshRun \in RunState
      /\ GapFree(FreshRun)
      /\ ~FreshRun.done
  <2>1. << >> \in Seq([cursor : Nat, event : LogEvents]) /\ Len(<< >>) = 0
    BY EmptySeq
  <2> QED
    BY <2>1 DEF FreshRun, RunState, GapFree
<1>3. CASE Has(r)
  <2>1. rs = runs
    BY <1>3 DEF Ensured
  <2> QED
    BY <1>1, <1>3, <2>1 DEF Has
<1>4. CASE ~Has(r)
  <2> DEFINE ins == Inserted(r)
  <2>1. /\ DOMAIN ins = DOMAIN runs \cup {r}
        /\ ins[r] = FreshRun
        /\ \A x \in DOMAIN ins : x # r => x \in DOMAIN runs /\ ins[x] = runs[x]
        /\ ins = [x \in DOMAIN ins |-> ins[x]]
    BY DEF Inserted
  <2> HIDE DEF ins
  <2>2. rs = ins \/ \E v \in Victims(ins, r) : rs = Without(ins, v)
    BY <1>4 DEF Ensured, ins
  <2>3. CASE rs = ins
    BY <1>1, <1>2, <1>4, <2>1, <2>3 DEF Has
  <2>4. ASSUME NEW v \in Victims(ins, r), rs = Without(ins, v)
        PROVE  /\ DOMAIN rs = (DOMAIN runs \cup {r}) \ {v}
               /\ v # r
               /\ \A x \in DOMAIN rs : rs[x] = ins[x]
               /\ rs = [x \in DOMAIN rs |-> rs[x]]
    BY <2>1, <2>4 DEF Victims, Without
  <2>5. CASE \E v \in Victims(ins, r) : rs = Without(ins, v)
    <3>1. PICK v \in Victims(ins, r) : rs = Without(ins, v)
      BY <2>5
    <3>2. /\ DOMAIN rs = (DOMAIN runs \cup {r}) \ {v}
          /\ v # r
          /\ \A x \in DOMAIN rs : rs[x] = ins[x]
          /\ rs = [x \in DOMAIN rs |-> rs[x]]
      BY <2>4, <3>1
    <3>3. \A x \in DOMAIN rs : rs[x] \in RunState
      BY <1>1, <1>2, <2>1, <3>2
    <3>4. rs \in [DOMAIN rs -> RunState]
      BY <3>2, <3>3
    <3>5. rs[r] = FreshRun /\ r \in DOMAIN rs
      BY <2>1, <3>2
    <3>6. \A x \in DOMAIN rs : x # r => x \in DOMAIN runs /\ rs[x] = runs[x]
      BY <2>1, <3>2
    <3> QED
      BY <1>1, <1>2, <1>4, <3>2, <3>4, <3>5, <3>6 DEF Has
  <2> QED
    BY <2>2, <2>3, <2>5
<1> QED
  BY <1>3, <1>4

(* Replacing the log of a run after its insertion, by one that is done if  *)
(* the old one was: the rest of the store is left as it was or evicted.    *)
LEMMA ReplaceKeepsStore ==
  ASSUME StoreInv, NEW r \in RunId, NEW rs \in Ensured(r),
         NEW log \in RunState, GapFree(log), log.done => log.cursor > 0,
         rs[r].done => log.done,
         StoreStep([rs EXCEPT ![r] = log])
  PROVE  /\ StoreInv'
         /\ Conservative({r})
         /\ log.done => IsDone(r)' /\ Conservative({})
         /\ IsDone(r) => IsDone(r)'
<1>2. /\ rs \in [DOMAIN rs -> RunState]
      /\ DOMAIN rs \subseteq RunId
      /\ r \in DOMAIN rs
      /\ r \in DOMAIN runs => rs[r] = runs[r]
      /\ \A x \in DOMAIN rs : x # r => x \in DOMAIN runs /\ rs[x] = runs[x]
      /\ \A x \in DOMAIN rs : GapFree(rs[x]) /\ (rs[x].done => rs[x].cursor > 0)
  BY EnsuredKeepsRuns
<1>4. /\ runs' = [rs EXCEPT ![r] = log]
      /\ lost' = lost \cup {x \in DOMAIN runs \ DOMAIN runs' : runs[x].cursor > 0}
  BY DEF StoreStep
<1>5. /\ DOMAIN runs' = DOMAIN rs
      /\ runs'[r] = log
      /\ \A x \in DOMAIN rs : x # r => runs'[x] = rs[x]
      /\ runs' \in [DOMAIN rs -> RunState]
  BY <1>2, <1>4
<1>6. /\ lost \subseteq RunId
      /\ DOMAIN runs \subseteq RunId
      /\ \A x \in DOMAIN runs : runs[x].done => runs[x].cursor > 0
  BY DEF StoreInv, StoreTypeOK, DoneRunHasEvents
<1>7. StoreTypeOK'
  BY <1>2, <1>4, <1>5, <1>6 DEF StoreTypeOK
<1>8. LogIsGapFree'
  BY <1>2, <1>5 DEF LogIsGapFree, GapFree
<1>9. DoneRunHasEvents'
  BY <1>2, <1>5 DEF DoneRunHasEvents
<1>10. IsDone(r)' <=> log.done
  BY <1>2, <1>5 DEF IsDone, Has
<1>11. IsDone(r) => rs[r].done
  BY <1>2 DEF IsDone, Has
<1>12. Conservative({r})
  <2>1. ASSUME NEW x \in DOMAIN runs, runs[x].done
        PROVE  x \in lost' \/ IsDone(x)'
    <3>1. CASE x \in DOMAIN runs'
      BY <2>1, <3>1, <1>2, <1>5 DEF IsDone, Has
    <3>2. CASE x \notin DOMAIN runs'
      BY <2>1, <3>2, <1>4, <1>6
    <3> QED
      BY <3>1, <3>2
  <2>2. ASSUME NEW x \in DOMAIN runs' \ lost', ~runs'[x].done, x # r
        PROVE  x \in DOMAIN runs \ lost /\ ~runs[x].done
    BY <2>2, <1>2, <1>4, <1>5
  <2>3. lost \subseteq lost'
    BY <1>4
  <2> QED
    BY <2>1, <2>2, <2>3 DEF Conservative
<1>13. log.done => Conservative({})
  BY <1>2, <1>5, <1>12 DEF Conservative
<1> QED
  BY <1>7, <1>8, <1>9, <1>10, <1>11, <1>12, <1>13 DEF StoreInv

(* append: the run is retained, done if the event is terminal, done if it  *)
(* was.                                                                    *)
LEMMA AppendKeepsStore ==
  ASSUME StoreInv, NEW r \in RunId, NEW e \in LogEvents, StoreAppend(r, e)
  PROVE  /\ StoreInv'
         /\ Conservative({r})
         /\ e \in TerminalEvents => IsDone(r)' /\ Conservative({})
         /\ IsDone(r) => IsDone(r)'
<1>1. PICK rs \in Ensured(r) : StoreStep([rs EXCEPT ![r] = Logged(rs[r], e)])
  BY DEF StoreAppend
<1>2. rs[r] \in RunState /\ GapFree(rs[r])
  BY EnsuredKeepsRuns
<1> DEFINE log == Logged(rs[r], e)
<1>3. /\ log \in RunState
      /\ GapFree(log)
      /\ log.cursor > 0
      /\ e \in TerminalEvents => log.done
      /\ rs[r].done => log.done
  BY <1>2, LoggedIsGapFree
<1>4. StoreStep([rs EXCEPT ![r] = log])
  BY <1>1
<1> HIDE DEF log
<1> QED
  BY <1>3, <1>4, ReplaceKeepsStore

(* start over the cap: the run is opened and failed at once.               *)
LEMMA OpenAndFailKeepsStore ==
  ASSUME StoreInv, NEW r \in RunId, NEW rs \in Ensured(r),
         StoreStep([rs EXCEPT ![r] = Logged(Logged(rs[r], "run.started"), "run.failed")])
  PROVE  StoreInv' /\ Conservative({})
<1> DEFINE opened == Logged(rs[r], "run.started")
           log == Logged(opened, "run.failed")
<1>1. rs[r] \in RunState /\ GapFree(rs[r])
  BY EnsuredKeepsRuns
<1>2. /\ "run.started" \in LogEvents
      /\ "run.failed" \in LogEvents
      /\ "run.failed" \in TerminalEvents
  BY DEF LogEvents, TerminalEvents
<1>3. opened \in RunState /\ GapFree(opened) /\ (rs[r].done => opened.done)
  BY <1>1, <1>2, LoggedIsGapFree
<1> HIDE DEF opened
<1>4. log \in RunState /\ GapFree(log) /\ log.cursor > 0 /\ log.done
  BY <1>2, <1>3, LoggedIsGapFree
<1>5. StoreStep([rs EXCEPT ![r] = log])
  BY DEF opened
<1> HIDE DEF log
<1> QED
  BY <1>4, <1>5, ReplaceKeepsStore

(* subscribe to a run that is not retained: an empty log is begun.         *)
LEMMA EnsureKeepsStore ==
  ASSUME StoreInv, NEW r \in RunId, StoreEnsure(r)
  PROVE  StoreInv' /\ Conservative({r})
<1>1. PICK rs \in Ensured(r) : StoreStep(rs)
  BY DEF StoreEnsure
<1>2. /\ rs \in [DOMAIN rs -> RunState]
      /\ r \in DOMAIN rs
      /\ GapFree(rs[r])
      /\ rs[r].done => rs[r].cursor > 0
  BY EnsuredKeepsRuns
<1>3. [rs EXCEPT ![r] = rs[r]] = rs
  BY <1>2
<1>4. PICK log \in RunState : log = rs[r]
  BY <1>2
<1>5. StoreStep([rs EXCEPT ![r] = log])
  BY <1>1, <1>3, <1>4
<1> QED
  BY <1>2, <1>4, <1>5, ReplaceKeepsStore

(* Nothing is retained after a crash.                                      *)
LEMMA ForgetKeepsStore ==
  ASSUME StoreInv, StoreStep(NoRuns)
  PROVE  StoreInv' /\ Conservative({})
<1>1. /\ DOMAIN runs' = {}
      /\ runs' \in [DOMAIN runs' -> RunState]
      /\ lost' = lost \cup {x \in DOMAIN runs : runs[x].cursor > 0}
  BY DEF StoreStep, NoRuns
<1>2. DOMAIN runs \subseteq RunId /\ lost \subseteq RunId /\ DoneRunHasEvents
  BY DEF StoreInv, StoreTypeOK
<1>3. StoreInv'
  BY <1>1, <1>2 DEF StoreInv, StoreTypeOK, LogIsGapFree, DoneRunHasEvents
<1>4. Conservative({})
  BY <1>1, <1>2 DEF Conservative, DoneRunHasEvents
<1> QED
  BY <1>3, <1>4

(* A terminal append that is skipped when the run is done: done either way. *)
LEMMA AppendUnlessDoneFinishes ==
  ASSUME StoreInv, NEW r \in RunId, NEW e \in TerminalEvents, AppendUnlessDone(r, e)
  PROVE  StoreInv' /\ Conservative({}) /\ IsDone(r)'
<1>1. e \in LogEvents
  BY DEF LogEvents
<1>2. CASE IsDone(r)
  <2>1. runs' = runs /\ lost' = lost
    BY <1>2 DEF AppendUnlessDone, storeVars
  <2> QED
    BY <1>2, <2>1 DEF StoreInv, StoreTypeOK, LogIsGapFree, DoneRunHasEvents,
                      Conservative, IsDone, Has
<1>3. CASE ~IsDone(r)
  BY <1>1, <1>3, AppendKeepsStore DEF AppendUnlessDone
<1> QED
  BY <1>2, <1>3

(* Dropping a run keeps the invariant of the store and opens nothing.      *)
LEMMA DropKeepsStore ==
  ASSUME StoreInv, NEW r \in RunId, StoreStep(Without(runs, r))
  PROVE  StoreInv' /\ Conservative({})
<1>1. /\ DOMAIN runs' = DOMAIN runs \ {r}
      /\ \A x \in DOMAIN runs' : runs'[x] = runs[x]
      /\ runs' = [x \in DOMAIN runs' |-> runs'[x]]
      /\ lost' = lost \cup {x \in DOMAIN runs \ DOMAIN runs' : runs[x].cursor > 0}
  BY DEF StoreStep, Without
<1>2. /\ DOMAIN runs \subseteq RunId
      /\ lost \subseteq RunId
      /\ runs \in [DOMAIN runs -> RunState]
      /\ LogIsGapFree
      /\ DoneRunHasEvents
  BY DEF StoreInv, StoreTypeOK
<1>3. StoreTypeOK'
  <2>1. \A x \in DOMAIN runs' : runs'[x] \in RunState
    BY <1>1, <1>2
  <2>2. runs' \in [DOMAIN runs' -> RunState]
    BY <1>1, <2>1
  <2> QED
    BY <1>1, <1>2, <2>2 DEF StoreTypeOK
<1>4. LogIsGapFree' /\ DoneRunHasEvents'
  BY <1>1, <1>2 DEF LogIsGapFree, DoneRunHasEvents, GapFree
<1>5. Conservative({})
  <2>1. ASSUME NEW x \in DOMAIN runs, runs[x].done
        PROVE  x \in lost' \/ IsDone(x)'
    BY <1>1, <1>2, <2>1 DEF DoneRunHasEvents, IsDone, Has
  <2> QED
    BY <1>1, <2>1 DEF Conservative
<1> QED
  BY <1>3, <1>4, <1>5 DEF StoreInv

(* Changing nothing but idle counters keeps the store.                     *)
LEMMA IdleKeepsStore ==
  ASSUME StoreInv, UNCHANGED lost, DOMAIN runs' = DOMAIN runs,
         runs' \in [DOMAIN runs -> RunState],
         \A x \in DOMAIN runs : /\ runs'[x].events = runs[x].events
                                /\ runs'[x].cursor = runs[x].cursor
                                /\ runs'[x].done = runs[x].done
  PROVE  StoreInv' /\ Conservative({})
<1>1. StoreTypeOK'
  BY DEF StoreInv, StoreTypeOK
<1>2. LogIsGapFree' /\ DoneRunHasEvents'
  BY DEF StoreInv, LogIsGapFree, DoneRunHasEvents, GapFree
<1>3. Conservative({})
  BY DEF Conservative, IsDone, Has
<1> QED
  BY <1>1, <1>2, <1>3 DEF StoreInv

LEMMA UnchangedKeepsStore ==
  ASSUME StoreInv, UNCHANGED storeVars
  PROVE  StoreInv' /\ Conservative({})
<1>1. runs' = runs /\ lost' = lost
  BY DEF storeVars
<1>2. runs \in [DOMAIN runs -> RunState]
  BY DEF StoreInv, StoreTypeOK
<1> QED
  BY <1>1, <1>2, IdleKeepsStore

LEMMA BroadcastKeepsStore ==
  ASSUME StoreInv, NEW r \in RunId, StoreBroadcast(r)
  PROVE  StoreInv' /\ Conservative({})
<1>1. runs \in [DOMAIN runs -> RunState]
  BY DEF StoreInv, StoreTypeOK
<1>2. CASE Has(r) /\ ~IsDone(r)
  <2>1. runs' = [runs EXCEPT ![r].idle = 0] /\ lost' = lost
    BY <1>2 DEF StoreBroadcast
  <2>2. runs[r] \in RunState
    BY <1>1, <1>2 DEF Has
  <2>3. [runs[r] EXCEPT !.idle = 0] \in RunState
    <3>1. 0 \in 0 .. IdleTtl + 1
      OBVIOUS
    <3> QED
      BY <2>2, <3>1 DEF RunState
  <2>4. /\ DOMAIN runs' = DOMAIN runs
        /\ runs' \in [DOMAIN runs -> RunState]
    BY <1>1, <2>1, <2>3
  <2>5. ASSUME NEW x \in DOMAIN runs
        PROVE  /\ runs'[x].events = runs[x].events
               /\ runs'[x].cursor = runs[x].cursor
               /\ runs'[x].done = runs[x].done
    <3>1. CASE x = r
      <4>1. runs'[x] = [runs[r] EXCEPT !.idle = 0]
        BY <3>1, <2>1, <1>1
      <4> QED
        BY <4>1, <3>1, <2>2 DEF RunState
    <3>2. CASE x # r
      BY <3>2, <2>1, <1>1
    <3> QED
      BY <3>1, <3>2
  <2> QED
    BY <2>1, <2>4, <2>5, IdleKeepsStore
<1>3. CASE ~(Has(r) /\ ~IsDone(r))
  BY <1>3, UnchangedKeepsStore DEF StoreBroadcast, storeVars
<1> QED
  BY <1>2, <1>3

LEMMA AgingKeepsStore ==
  ASSUME StoreInv, runs' = Aged, UNCHANGED lost
  PROVE  StoreInv' /\ Conservative({})
<1>1. runs \in [DOMAIN runs -> RunState]
  BY DEF StoreInv, StoreTypeOK
<1>2. ASSUME NEW x \in DOMAIN runs
      PROVE  /\ runs'[x] \in RunState
             /\ runs'[x].events = runs[x].events
             /\ runs'[x].cursor = runs[x].cursor
             /\ runs'[x].done = runs[x].done
  <2>1. runs[x] \in RunState
    BY <1>1
  <2>2. runs'[x] = [runs[x] EXCEPT !.idle = IF @ > IdleTtl THEN @ ELSE @ + 1]
    BY DEF Aged
  <2>3. [runs[x] EXCEPT !.idle = IF @ > IdleTtl THEN @ ELSE @ + 1] \in RunState
    <3> DEFINE i == IF runs[x].idle > IdleTtl THEN runs[x].idle ELSE runs[x].idle + 1
    <3>1. i \in 0 .. IdleTtl + 1
      BY <2>1 DEF RunState
    <3> HIDE DEF i
    <3>2. [runs[x] EXCEPT !.idle = i] \in RunState
      BY <2>1, <3>1 DEF RunState
    <3> QED
      BY <3>2 DEF i
  <2>4. /\ runs'[x].events = runs[x].events
        /\ runs'[x].cursor = runs[x].cursor
        /\ runs'[x].done = runs[x].done
    BY <2>1, <2>2 DEF RunState
  <2> QED
    BY <2>2, <2>3, <2>4
<1>3. DOMAIN runs' = DOMAIN runs /\ runs' = [x \in DOMAIN runs |-> runs'[x]]
  BY DEF Aged
<1> QED
  BY <1>2, <1>3, IdleKeepsStore

-----------------------------------------------------------------------------
(***************************************************************************)
(* Every step of the manager keeps the inductive invariant.                *)
(***************************************************************************)

LEMMA InductiveUnfolded ==
  ASSUME Inductive
  PROVE  /\ StoreInv
         /\ DOMAIN pumps \subseteq RunId
         /\ pumps \in [DOMAIN pumps -> [pump : PumpId, idle : 0 .. IdleTimeout + 1]]
         /\ stream \in [PumpId -> StreamState]
         /\ approvalOpen \subseteq RunId
         /\ OnePumpPerRun
         /\ EntryPointsAtLivePump
         /\ EveryPumpIsWatched
         /\ OpenRunIsDrained
         /\ OpenGateHasPump
         /\ AbortedRunIsOver
BY DEF Inductive, TypeOK, StoreInv

LEMMA InductiveFolded ==
  ASSUME StoreInv',
         (DOMAIN pumps \subseteq RunId)',
         (pumps \in [DOMAIN pumps -> [pump : PumpId, idle : 0 .. IdleTimeout + 1]])',
         (stream \in [PumpId -> StreamState])',
         (approvalOpen \subseteq RunId)',
         OnePumpPerRun', EntryPointsAtLivePump', EveryPumpIsWatched',
         OpenRunIsDrained', OpenGateHasPump', AbortedRunIsOver'
  PROVE  Inductive'
BY DEF Inductive, TypeOK, StoreInv

LEMMA LaunchKeeps ==
  ASSUME Inductive, NEW r \in RunId, NeverPumped(r), Launch(r),
         StoreAppend(r, "run.started"), UNCHANGED approvalOpen
  PROVE  Inductive'
<1> USE InductiveUnfolded
<1>1. PICK p \in PumpId :
         /\ stream[p].phase = "unused"
         /\ pumps' = Registered(r, p)
         /\ stream' = [stream EXCEPT ![p] = [phase |-> "streaming", run |-> r,
                                             aborted |-> FALSE, frames |-> 0]]
  BY DEF Launch
<1>2. approvalOpen' = approvalOpen
  OBVIOUS
<1>3. StoreInv' /\ Conservative({r})
  BY AppendKeepsStore DEF LogEvents
<1>4. /\ stream'[p] = [phase |-> "streaming", run |-> r, aborted |-> FALSE, frames |-> 0]
      /\ \A q \in PumpId : q # p => stream'[q] = stream[q]
      /\ stream' \in [PumpId -> StreamState]
  <2>1. [phase |-> "streaming", run |-> r, aborted |-> FALSE, frames |-> 0] \in StreamState
    BY DEF StreamState
  <2> QED
    BY <1>1, <2>1
<1>5. /\ DOMAIN pumps' = DOMAIN pumps \cup {r}
      /\ pumps'[r].pump = p
      /\ \A x \in DOMAIN pumps : x # r => pumps'[x] = pumps[x]
      /\ pumps' \in [DOMAIN pumps' -> [pump : PumpId, idle : 0 .. IdleTimeout + 1]]
  <2>1. [pump |-> p, idle |-> 0] \in [pump : PumpId, idle : 0 .. IdleTimeout + 1]
    OBVIOUS
  <2> QED
    BY <1>1, <2>1 DEF Registered
<1>6. \A q \in PumpId : stream[q].phase # "unused" => stream[q].run # r /\ q # p
  BY <1>1 DEF NeverPumped
<1>7. OnePumpPerRun'
  BY <1>4, <1>6 DEF OnePumpPerRun
<1>8. EntryPointsAtLivePump'
  BY <1>1, <1>4, <1>5 DEF EntryPointsAtLivePump, Drains, Streaming
<1>9. EveryPumpIsWatched'
  BY <1>4, <1>5, <1>6 DEF EveryPumpIsWatched, Streaming, IsActive
<1>10. OpenRunIsDrained'
  <2> SUFFICES ASSUME NEW x \in DOMAIN runs' \ lost', ~runs'[x].done
               PROVE  \E q \in PumpId : Drains(q, x)'
    BY DEF OpenRunIsDrained
  <2>1. CASE x = r
    BY <2>1, <1>4 DEF Drains, Streaming
  <2>2. CASE x # r
    <3>1. x \in DOMAIN runs \ lost /\ ~runs[x].done
      BY <2>2, <1>3 DEF Conservative
    <3>2. PICK q \in PumpId : Drains(q, x)
      BY <3>1 DEF OpenRunIsDrained
    <3>3. q # p
      BY <3>2, <1>1 DEF Drains, Streaming
    <3> QED
      BY <3>2, <3>3, <1>4 DEF Drains, Streaming
  <2> QED
    BY <2>1, <2>2
<1>11. OpenGateHasPump'
  BY <1>1, <1>2, <1>4 DEF OpenGateHasPump, Streaming
<1>12. AbortedRunIsOver'
  <2> SUFFICES ASSUME NEW q \in PumpId, stream'[q].aborted, NEW x, x = stream'[q].run
               PROVE  x \in lost' \/ IsDone(x)'
    BY DEF AbortedRunIsOver
  <2>1. x \in lost \/ IsDone(x)
    BY <1>4 DEF AbortedRunIsOver
  <2> QED
    BY <2>1, <1>3 DEF Conservative, IsDone, Has
<1> QED
  BY <1>2, <1>3, <1>4, <1>5, <1>7, <1>8, <1>9, <1>10, <1>11, <1>12, InductiveFolded

(* What an open run and an aborted pump need of a change of the store in   *)
(* which no iteration starts, ends or is aborted.                          *)
LEMMA StoreChangeKeeps ==
  ASSUME Inductive, NEW R, StoreInv', Conservative(R),
         stream' \in [PumpId -> StreamState],
         \A q \in PumpId : /\ stream'[q].phase = stream[q].phase
                           /\ stream'[q].run = stream[q].run
                           /\ stream'[q].aborted = stream[q].aborted,
         DOMAIN pumps' = DOMAIN pumps,
         pumps' \in [DOMAIN pumps -> [pump : PumpId, idle : 0 .. IdleTimeout + 1]],
         \A x \in DOMAIN pumps : pumps'[x].pump = pumps[x].pump,
         approvalOpen' \subseteq RunId,
         OpenGateHasPump',
         \A x \in R : x \in lost' \/ IsDone(x)' \/ \E q \in PumpId : Drains(q, x)
  PROVE  Inductive'
<1> USE InductiveUnfolded
<1>1. OnePumpPerRun'
  BY DEF OnePumpPerRun
<1>2. EntryPointsAtLivePump'
  BY DEF EntryPointsAtLivePump, Drains, Streaming
<1>3. EveryPumpIsWatched'
  BY DEF EveryPumpIsWatched, Streaming, IsActive
<1>4. OpenRunIsDrained'
  <2> SUFFICES ASSUME NEW x \in DOMAIN runs' \ lost', ~runs'[x].done
               PROVE  \E q \in PumpId : Drains(q, x)'
    BY DEF OpenRunIsDrained
  <2>1. \E q \in PumpId : Drains(q, x)
    BY DEF Conservative, OpenRunIsDrained, IsDone, Has
  <2> QED
    BY <2>1 DEF Drains, Streaming
<1>5. AbortedRunIsOver'
  <2> SUFFICES ASSUME NEW q \in PumpId, stream[q].aborted
               PROVE  stream[q].run \in lost' \/ IsDone(stream[q].run)'
    BY DEF AbortedRunIsOver, IsDone, Has
  <2>1. stream[q].run \in lost \/ IsDone(stream[q].run)
    BY DEF AbortedRunIsOver
  <2> QED
    BY <2>1 DEF Conservative, IsDone, Has
<1> QED
  BY <1>1, <1>2, <1>3, <1>4, <1>5, InductiveFolded

LEMMA StartKeeps ==
  ASSUME Inductive, NEW r \in RunId, Start(r)
  PROVE  Inductive'
<1> USE InductiveUnfolded
<1>1. CASE Launch(r) /\ StoreAppend(r, "run.started")
  BY <1>1, LaunchKeeps DEF Start
<1>2. ASSUME NEW rs \in Ensured(r), UNCHANGED <<pumps, stream>>,
             StoreStep([rs EXCEPT ![r] = Logged(Logged(rs[r], "run.started"), "run.failed")])
      PROVE  Inductive'
  <2>1. StoreInv' /\ Conservative({})
    BY <1>2, OpenAndFailKeepsStore
  <2>2. pumps' = pumps /\ stream' = stream /\ approvalOpen' = approvalOpen
    BY <1>2 DEF Start
  <2>3. OpenGateHasPump'
    BY <2>2 DEF OpenGateHasPump, Streaming
  <2> QED
    BY <2>1, <2>2, <2>3, StoreChangeKeeps
<1> QED
  BY <1>1, <1>2 DEF Start

LEMMA RebeginKeeps ==
  ASSUME Inductive, NEW r \in RunId, Rebegin(r)
  PROVE  Inductive'
<1> USE InductiveUnfolded
<1>1. StoreInv' /\ Conservative({r})
  BY EnsureKeepsStore DEF Rebegin
<1>2. pumps' = pumps /\ stream' = stream /\ approvalOpen' = approvalOpen
  BY DEF Rebegin
<1>3. OpenGateHasPump'
  BY <1>2 DEF OpenGateHasPump, Streaming
<1>4. PICK q \in PumpId : Drains(q, r)
  BY DEF Rebegin, IsActive, EntryPointsAtLivePump
<1>5. \A x \in {r} : x \in lost' \/ IsDone(x)' \/ \E p \in PumpId : Drains(p, x)
  BY <1>4
<1> QED
  BY <1>1, <1>2, <1>3, <1>5, StoreChangeKeeps

LEMMA CrashKeeps ==
  ASSUME Inductive, Crash
  PROVE  Inductive'
<1> USE InductiveUnfolded
<1>1. StoreInv' /\ Conservative({})
  BY ForgetKeepsStore DEF Crash
<1>2. /\ DOMAIN runs' = {}
      /\ DOMAIN pumps' = {}
      /\ pumps' \in [DOMAIN pumps' -> [pump : PumpId, idle : 0 .. IdleTimeout + 1]]
      /\ approvalOpen' = {}
  BY DEF Crash, StoreStep, NoRuns, NoPumps
<1>3. ASSUME NEW q \in PumpId
      PROVE  /\ stream'[q] \in StreamState
             /\ stream'[q].phase # "streaming"
             /\ stream'[q].phase = "unused" <=> stream[q].phase = "unused"
             /\ stream'[q].run = stream[q].run
             /\ stream'[q].aborted = stream[q].aborted
  <2>1. stream[q] \in StreamState
    OBVIOUS
  <2>2. stream'[q] = IF Streaming(q) THEN [stream[q] EXCEPT !.phase = "finished"]
                                     ELSE stream[q]
    BY DEF Crash
  <2>3. [stream[q] EXCEPT !.phase = "finished"] \in StreamState
    BY <2>1 DEF StreamState
  <2> QED
    BY <2>1, <2>2, <2>3 DEF StreamState, Streaming
<1>4. stream' \in [PumpId -> StreamState]
  BY <1>3 DEF Crash
<1>5. OnePumpPerRun'
  BY <1>3 DEF OnePumpPerRun
<1>6. EntryPointsAtLivePump' /\ OpenRunIsDrained' /\ OpenGateHasPump'
  BY <1>2 DEF EntryPointsAtLivePump, OpenRunIsDrained, OpenGateHasPump
<1>7. EveryPumpIsWatched'
  BY <1>3 DEF EveryPumpIsWatched, Streaming
<1>8. AbortedRunIsOver'
  <2> SUFFICES ASSUME NEW q \in PumpId, stream'[q].aborted, NEW x, x = stream'[q].run
               PROVE  x \in lost' \/ IsDone(x)'
    BY DEF AbortedRunIsOver
  <2>1. x \in lost \/ IsDone(x)
    BY <1>3 DEF AbortedRunIsOver
  <2> QED
    BY <2>1, <1>1 DEF Conservative, IsDone, Has
<1> QED
  BY <1>1, <1>2, <1>4, <1>5, <1>6, <1>7, <1>8, InductiveFolded

LEMMA ClearApprovalKeeps ==
  ASSUME Inductive, NEW r \in RunId, ClearApproval(r)
  PROVE  Inductive'
<1> USE InductiveUnfolded
<1>1. /\ pumps' = pumps /\ stream' = stream
      /\ approvalOpen' = approvalOpen \ {r}
      /\ UNCHANGED storeVars
  BY DEF ClearApproval, storeVars
<1>2. StoreInv' /\ Conservative({})
  BY <1>1, UnchangedKeepsStore
<1>3. OpenGateHasPump'
  BY <1>1 DEF OpenGateHasPump, Streaming
<1> QED
  BY <1>1, <1>2, <1>3, StoreChangeKeeps

LEMMA StoreTimerKeeps ==
  ASSUME Inductive, StoreTimer
  PROVE  Inductive'
<1> USE InductiveUnfolded
<1>1. PICK r \in RunId : EvictTerminal(r) \/ SweepIdle(r)
  BY DEF StoreTimer, Retired
<1>2. StoreInv' /\ Conservative({})
  BY <1>1, DropKeepsStore DEF EvictTerminal, SweepIdle
<1>3. pumps' = pumps /\ stream' = stream /\ approvalOpen' = approvalOpen
  BY DEF StoreTimer
<1>4. OpenGateHasPump'
  BY <1>3 DEF OpenGateHasPump, Streaming
<1> QED
  BY <1>2, <1>3, <1>4, StoreChangeKeeps

LEMMA TickKeeps ==
  ASSUME Inductive, Tick
  PROVE  Inductive'
<1> USE InductiveUnfolded
<1>1. /\ stream' = stream /\ approvalOpen' = approvalOpen
      /\ runs' = Aged /\ UNCHANGED lost
      /\ pumps' = [x \in DOMAIN pumps |-> [pumps[x] EXCEPT !.idle = @ + 1]]
      /\ \A x \in DOMAIN pumps : ~(pumps[x].idle > IdleTimeout)
  BY DEF Tick, Stale, IsActive
<1>2. StoreInv' /\ Conservative({})
  BY <1>1, AgingKeepsStore
<1>3. ASSUME NEW x \in DOMAIN pumps
      PROVE  /\ pumps'[x] \in [pump : PumpId, idle : 0 .. IdleTimeout + 1]
             /\ pumps'[x].pump = pumps[x].pump
  <2>1. pumps[x] \in [pump : PumpId, idle : 0 .. IdleTimeout + 1]
    OBVIOUS
  <2>2. pumps'[x] = [pumps[x] EXCEPT !.idle = @ + 1]
    BY <1>1
  <2> QED
    BY <1>1, <2>1, <2>2
<1>4. /\ DOMAIN pumps' = DOMAIN pumps
      /\ pumps' \in [DOMAIN pumps -> [pump : PumpId, idle : 0 .. IdleTimeout + 1]]
  BY <1>1, <1>3
<1>5. OpenGateHasPump'
  BY <1>1 DEF OpenGateHasPump, Streaming
<1> QED
  BY <1>1, <1>2, <1>3, <1>4, <1>5, StoreChangeKeeps

LEMMA FrameKeeps ==
  ASSUME Inductive, NEW p \in PumpId, NEW raw \in RawFrames, Frame(p, raw)
  PROVE  Inductive'
<1> USE InductiveUnfolded
<1> DEFINE e == MapGatewayEvent(raw)
<1>1. PICK r \in RunId : r = stream[p].run
  BY DEF Frame, OnePumpPerRun, Streaming
<1>2. /\ Streaming(p)
      /\ stream[p].frames < MaxFrames
      /\ stream' = [stream EXCEPT ![p].frames = @ + 1]
      /\ pumps' = Touched(r)
      /\ SignalApproval(r, e)
      /\ \/ e = Dropped /\ UNCHANGED storeVars
         \/ e = "run.heartbeat" /\ StoreBroadcast(r)
         \/ e \in LogEvents /\ StoreAppend(r, e)
  BY <1>1 DEF Frame
<1> HIDE DEF e
<1>3. /\ stream' \in [PumpId -> StreamState]
      /\ \A q \in PumpId : /\ stream'[q].phase = stream[q].phase
                           /\ stream'[q].run = stream[q].run
                           /\ stream'[q].aborted = stream[q].aborted
  <2>1. stream[p] \in StreamState
    OBVIOUS
  <2>2. stream[p].frames + 1 \in 0 .. MaxFrames
    BY <1>2, <2>1 DEF StreamState
  <2>3. [stream[p] EXCEPT !.frames = @ + 1] \in StreamState
    BY <2>1, <2>2 DEF StreamState
  <2>4. stream'[p] = [stream[p] EXCEPT !.frames = @ + 1]
    BY <1>2
  <2>5. \A q \in PumpId : q # p => stream'[q] = stream[q]
    BY <1>2
  <2>6. /\ stream'[p].phase = stream[p].phase
        /\ stream'[p].run = stream[p].run
        /\ stream'[p].aborted = stream[p].aborted
    BY <2>1, <2>4 DEF StreamState
  <2> QED
    BY <1>2, <2>3, <2>4, <2>5, <2>6
<1>4. /\ DOMAIN pumps' = DOMAIN pumps
      /\ pumps' \in [DOMAIN pumps -> [pump : PumpId, idle : 0 .. IdleTimeout + 1]]
      /\ \A x \in DOMAIN pumps : pumps'[x].pump = pumps[x].pump
  <2>1. CASE IsActive(r)
    <3>1. pumps' = [pumps EXCEPT ![r].idle = 0] /\ r \in DOMAIN pumps
      BY <1>2, <2>1 DEF Touched, IsActive
    <3>2. pumps[r] \in [pump : PumpId, idle : 0 .. IdleTimeout + 1]
      BY <3>1
    <3>3. [pumps[r] EXCEPT !.idle = 0] \in [pump : PumpId, idle : 0 .. IdleTimeout + 1]
      BY <3>2
    <3> QED
      BY <3>1, <3>2, <3>3
  <2>2. CASE ~IsActive(r)
    BY <1>2, <2>2 DEF Touched
  <2> QED
    BY <2>1, <2>2
<1>5. approvalOpen' \subseteq approvalOpen \cup {r}
  BY <1>2 DEF SignalApproval
<1>6. OpenGateHasPump'
  BY <1>2, <1>1, <1>3, <1>5 DEF OpenGateHasPump, Streaming
<1>7. CASE UNCHANGED storeVars \/ StoreBroadcast(r)
  <2>1. StoreInv' /\ Conservative({})
    BY <1>1, <1>7, UnchangedKeepsStore, BroadcastKeepsStore
  <2> QED
    BY <1>1, <1>3, <1>4, <1>5, <1>6, <2>1, StoreChangeKeeps
<1>8. CASE e \in LogEvents /\ StoreAppend(r, e)
  <2>1. StoreInv' /\ Conservative({r}) /\ (IsDone(r) => IsDone(r)')
    BY <1>1, <1>8, AppendKeepsStore
  <2>2. r \in lost' \/ IsDone(r)' \/ Drains(p, r)
    <3>1. CASE stream[p].aborted
      <4>1. r \in lost \/ IsDone(r)
        BY <1>1, <3>1 DEF AbortedRunIsOver
      <4> QED
        BY <4>1, <2>1 DEF Conservative
    <3>2. CASE ~stream[p].aborted
      BY <1>2, <1>1, <3>2 DEF Drains
    <3> QED
      BY <3>1, <3>2
  <2> QED
    <3>1. \A x \in {r} : x \in lost' \/ IsDone(x)' \/ \E q \in PumpId : Drains(q, x)
      BY <2>2
    <3> QED
      BY <1>1, <1>3, <1>4, <1>5, <1>6, <2>1, <3>1, StoreChangeKeeps
<1> QED
  BY <1>2, <1>7, <1>8

(* The end of an iteration that leaves its run done, or that was aborted.  *)
LEMMA FinallyKeeps ==
  ASSUME Inductive, NEW p \in PumpId, NEW r \in RunId, r = stream[p].run,
         Streaming(p), Finally(p), StoreInv', Conservative({}),
         stream[p].aborted \/ IsDone(r)'
  PROVE  Inductive'
<1> USE InductiveUnfolded
<1>1. /\ stream' = [stream EXCEPT ![p].phase = "finished"]
      /\ pumps' = Unregistered(r)
      /\ approvalOpen' = approvalOpen \ {r}
  BY DEF Finally
<1>3. /\ stream' \in [PumpId -> StreamState]
      /\ stream'[p].phase = "finished"
      /\ stream'[p].run = r
      /\ stream'[p].aborted = stream[p].aborted
      /\ \A q \in PumpId : q # p => stream'[q] = stream[q]
  <2>1. stream[p] \in StreamState
    OBVIOUS
  <2>2. [stream[p] EXCEPT !.phase = "finished"] \in StreamState
    BY <2>1 DEF StreamState
  <2>3. stream'[p] = [stream[p] EXCEPT !.phase = "finished"]
    BY <1>1
  <2> QED
    BY <1>1, <2>1, <2>2, <2>3 DEF StreamState
<1>4. /\ DOMAIN pumps' = DOMAIN pumps \ {r}
      /\ \A x \in DOMAIN pumps' : pumps'[x] = pumps[x]
      /\ pumps' \in [DOMAIN pumps' -> [pump : PumpId, idle : 0 .. IdleTimeout + 1]]
  BY <1>1 DEF Unregistered
<1>5. OnePumpPerRun'
  BY <1>3 DEF OnePumpPerRun, Streaming
<1>6. \A q \in PumpId : q # p /\ stream[q].phase # "unused" => stream[q].run # r
  BY DEF OnePumpPerRun, Streaming
<1>7. EntryPointsAtLivePump'
  <2> SUFFICES ASSUME NEW x \in DOMAIN pumps'
               PROVE  /\ stream'[pumps'[x].pump].phase = "streaming"
                      /\ stream'[pumps'[x].pump].run = x
                      /\ ~stream'[pumps'[x].pump].aborted
    BY DEF EntryPointsAtLivePump, Drains, Streaming
  <2>1. /\ x \in DOMAIN pumps /\ x # r
        /\ pumps'[x].pump = pumps[x].pump
        /\ pumps[x].pump \in PumpId
    BY <1>4
  <2>2. Drains(pumps[x].pump, x)
    BY <2>1 DEF EntryPointsAtLivePump
  <2>3. pumps[x].pump # p
    BY <2>1, <2>2 DEF Drains
  <2> QED
    BY <1>3, <2>1, <2>2, <2>3 DEF Drains, Streaming
<1>8. EveryPumpIsWatched'
  <2> SUFFICES ASSUME NEW q \in PumpId, stream'[q].phase = "streaming",
                      ~stream'[q].aborted
               PROVE  /\ stream'[q].run \in DOMAIN pumps'
                      /\ pumps'[stream'[q].run].pump = q
    BY DEF EveryPumpIsWatched, IsActive, Streaming
  <2>1. q # p
    BY <1>3 DEF Streaming
  <2>2. IsActive(stream[q].run) /\ pumps[stream[q].run].pump = q
    BY <1>3, <2>1 DEF EveryPumpIsWatched, Streaming
  <2> QED
    BY <1>3, <1>4, <1>6, <2>1, <2>2 DEF Streaming, IsActive
<1>9. OpenRunIsDrained'
  <2> SUFFICES ASSUME NEW x \in DOMAIN runs' \ lost', ~runs'[x].done
               PROVE  \E q \in PumpId : Drains(q, x)'
    BY DEF OpenRunIsDrained
  <2>1. x \in DOMAIN runs \ lost /\ ~runs[x].done
    BY DEF Conservative
  <2>2. PICK q \in PumpId : Drains(q, x)
    BY <2>1 DEF OpenRunIsDrained
  <2>3. q # p
    BY <2>2 DEF Drains, IsDone, Has
  <2> QED
    BY <1>3, <2>2, <2>3 DEF Drains, Streaming
<1>10. OpenGateHasPump'
  <2> SUFFICES ASSUME NEW x \in approvalOpen'
               PROVE  \E q \in PumpId : Streaming(q)' /\ stream'[q].run = x
    BY DEF OpenGateHasPump
  <2>1. PICK q \in PumpId : Streaming(q) /\ stream[q].run = x
    BY <1>1 DEF OpenGateHasPump
  <2>2. q # p
    BY <1>1, <2>1
  <2> QED
    BY <1>3, <2>1, <2>2 DEF Streaming
<1>11. AbortedRunIsOver'
  <2> SUFFICES ASSUME NEW q \in PumpId, stream'[q].aborted, NEW x, x = stream'[q].run
               PROVE  x \in lost' \/ IsDone(x)'
    BY DEF AbortedRunIsOver
  <2>1. x \in lost \/ IsDone(x)
    BY <1>3 DEF AbortedRunIsOver
  <2> QED
    BY <2>1 DEF Conservative, IsDone, Has
<1>12. approvalOpen' \subseteq RunId /\ DOMAIN pumps' \subseteq RunId
  BY <1>1, <1>4
<1> QED
  BY <1>3, <1>4, <1>5, <1>7, <1>8, <1>9, <1>10, <1>11, <1>12, InductiveFolded

LEMMA StreamEndKeeps ==
  ASSUME Inductive, NEW p \in PumpId, StreamEnd(p)
  PROVE  Inductive'
<1> USE InductiveUnfolded
<1>1. PICK r \in RunId : r = stream[p].run /\ Streaming(p) /\ Finally(p)
  BY DEF StreamEnd, OnePumpPerRun, Streaming
<1>2. CASE stream[p].aborted
  <2>1. StoreInv' /\ Conservative({})
    BY <1>2, UnchangedKeepsStore DEF StreamEnd
  <2> QED
    BY <1>1, <1>2, <2>1, FinallyKeeps
<1>3. CASE ~stream[p].aborted
  <2>1. AppendUnlessDone(r, "run.failed")
    BY <1>1, <1>3 DEF StreamEnd
  <2>2. StoreInv' /\ Conservative({}) /\ IsDone(r)'
    BY <1>1, <2>1, AppendUnlessDoneFinishes DEF TerminalEvents
  <2> QED
    BY <1>1, <2>2, FinallyKeeps
<1> QED
  BY <1>2, <1>3

LEMMA StreamErrorKeeps ==
  ASSUME Inductive, NEW p \in PumpId, StreamError(p)
  PROVE  Inductive'
<1> USE InductiveUnfolded
<1>1. PICK r \in RunId : r = stream[p].run /\ Streaming(p) /\ Finally(p)
  BY DEF StreamError, OnePumpPerRun, Streaming
<1>2. CASE stream[p].aborted
  <2>1. StoreInv' /\ Conservative({})
    BY <1>2, UnchangedKeepsStore DEF StreamError
  <2> QED
    BY <1>1, <1>2, <2>1, FinallyKeeps
<1>3. CASE ~stream[p].aborted
  <2>1. StoreAppend(r, "run.failed")
    BY <1>1, <1>3 DEF StreamError
  <2>2. "run.failed" \in TerminalEvents /\ "run.failed" \in LogEvents
    BY DEF TerminalEvents, LogEvents
  <2>3. StoreInv' /\ Conservative({}) /\ IsDone(r)'
    BY <1>1, <2>1, <2>2, AppendKeepsStore
  <2> QED
    BY <1>1, <2>3, FinallyKeeps
<1> QED
  BY <1>2, <1>3

(* abort and the reaper: the registered pump is aborted, its run is done.  *)
LEMMA CancelKeeps ==
  ASSUME Inductive, NEW r \in RunId, NEW e \in TerminalEvents, IsActive(r), Cancel(r, e)
  PROVE  Inductive'
<1> USE InductiveUnfolded
<1>1. PICK p \in PumpId : p = pumps[r].pump
  BY DEF IsActive
<1>2. /\ stream' = [stream EXCEPT ![p].aborted = TRUE]
      /\ pumps' = Unregistered(r)
      /\ approvalOpen' = approvalOpen
  BY <1>1 DEF Cancel
<1>3. StoreInv' /\ Conservative({}) /\ IsDone(r)'
  BY AppendUnlessDoneFinishes DEF Cancel
<1>4. stream[p].phase = "streaming" /\ stream[p].run = r
  BY <1>1 DEF EntryPointsAtLivePump, IsActive, Drains, Streaming
<1>5. /\ stream' \in [PumpId -> StreamState]
      /\ stream'[p].phase = "streaming"
      /\ stream'[p].run = r
      /\ stream'[p].aborted = TRUE
      /\ \A q \in PumpId : q # p => stream'[q] = stream[q]
  <2>1. stream[p] \in StreamState
    OBVIOUS
  <2>2. [stream[p] EXCEPT !.aborted = TRUE] \in StreamState
    BY <2>1 DEF StreamState
  <2>3. stream'[p] = [stream[p] EXCEPT !.aborted = TRUE]
    BY <1>2
  <2> QED
    BY <1>2, <1>4, <2>1, <2>2, <2>3 DEF StreamState
<1>6. /\ DOMAIN pumps' = DOMAIN pumps \ {r}
      /\ \A x \in DOMAIN pumps' : pumps'[x] = pumps[x]
      /\ pumps' \in [DOMAIN pumps' -> [pump : PumpId, idle : 0 .. IdleTimeout + 1]]
  BY <1>2 DEF Unregistered
<1>7. OnePumpPerRun'
  BY <1>4, <1>5 DEF OnePumpPerRun
<1>8. \A q \in PumpId : q # p /\ stream[q].phase # "unused" => stream[q].run # r
  BY <1>4 DEF OnePumpPerRun
<1>9. EntryPointsAtLivePump'
  <2> SUFFICES ASSUME NEW x \in DOMAIN pumps'
               PROVE  /\ stream'[pumps'[x].pump].phase = "streaming"
                      /\ stream'[pumps'[x].pump].run = x
                      /\ ~stream'[pumps'[x].pump].aborted
    BY DEF EntryPointsAtLivePump, Drains, Streaming
  <2>1. /\ x \in DOMAIN pumps /\ x # r
        /\ pumps'[x].pump = pumps[x].pump
        /\ pumps[x].pump \in PumpId
    BY <1>6
  <2>2. Drains(pumps[x].pump, x)
    BY <2>1 DEF EntryPointsAtLivePump
  <2>3. pumps[x].pump # p
    BY <1>4, <2>1, <2>2 DEF Drains
  <2> QED
    BY <1>5, <2>1, <2>2, <2>3 DEF Drains, Streaming
<1>10. EveryPumpIsWatched'
  <2> SUFFICES ASSUME NEW q \in PumpId, stream'[q].phase = "streaming",
                      ~stream'[q].aborted
               PROVE  /\ stream'[q].run \in DOMAIN pumps'
                      /\ pumps'[stream'[q].run].pump = q
    BY DEF EveryPumpIsWatched, IsActive, Streaming
  <2>1. q # p
    BY <1>5
  <2>2. stream[q].run \in DOMAIN pumps /\ pumps[stream[q].run].pump = q
    BY <1>5, <2>1 DEF EveryPumpIsWatched, Streaming, IsActive
  <2> QED
    BY <1>5, <1>6, <1>8, <2>1, <2>2
<1>11. OpenRunIsDrained'
  <2> SUFFICES ASSUME NEW x \in DOMAIN runs' \ lost', ~runs'[x].done
               PROVE  \E q \in PumpId : Drains(q, x)'
    BY DEF OpenRunIsDrained
  <2>1. x \in DOMAIN runs \ lost /\ ~runs[x].done
    BY <1>3 DEF Conservative
  <2>2. PICK q \in PumpId : Drains(q, x)
    BY <2>1 DEF OpenRunIsDrained
  <2>3. q # p
    BY <1>3, <1>4, <2>2 DEF Drains, IsDone, Has
  <2> QED
    BY <1>5, <2>2, <2>3 DEF Drains, Streaming
<1>12. OpenGateHasPump'
  BY <1>2, <1>4, <1>5 DEF OpenGateHasPump, Streaming
<1>13. AbortedRunIsOver'
  <2> SUFFICES ASSUME NEW q \in PumpId, stream'[q].aborted, NEW x, x = stream'[q].run
               PROVE  x \in lost' \/ IsDone(x)'
    BY DEF AbortedRunIsOver
  <2>1. CASE q = p
    BY <1>3, <1>5, <2>1
  <2>2. CASE q # p
    <3>1. x \in lost \/ IsDone(x)
      BY <1>5, <2>2 DEF AbortedRunIsOver
    <3> QED
      BY <1>3, <3>1 DEF Conservative, IsDone, Has
  <2> QED
    BY <2>1, <2>2
<1>14. approvalOpen' \subseteq RunId /\ DOMAIN pumps' \subseteq RunId
  BY <1>2, <1>6
<1> QED
  BY <1>3, <1>5, <1>6, <1>7, <1>9, <1>10, <1>11, <1>12, <1>13, <1>14, InductiveFolded

-----------------------------------------------------------------------------
(***************************************************************************)
(* The theorems.                                                           *)
(***************************************************************************)

LEMMA InitInductive == ManagerInit => Inductive
<1> SUFFICES ASSUME ManagerInit
             PROVE  Inductive
  OBVIOUS
<1>1. /\ DOMAIN runs = {} /\ runs \in [DOMAIN runs -> RunState] /\ lost = {}
      /\ DOMAIN pumps = {} /\ approvalOpen = {}
      /\ pumps \in [DOMAIN pumps -> [pump : PumpId, idle : 0 .. IdleTimeout + 1]]
  BY DEF ManagerInit, StoreInit, NoRuns, NoPumps
<1>2. /\ stream \in [PumpId -> StreamState]
      /\ \A p \in PumpId : stream[p].phase = "unused" /\ stream[p].aborted = FALSE
  BY DEF ManagerInit, StreamState
<1>3. TypeOK
  BY <1>1, <1>2 DEF TypeOK, StoreTypeOK
<1>4. LogIsGapFree /\ DoneRunHasEvents /\ OpenRunIsDrained /\ OpenGateHasPump
      /\ EntryPointsAtLivePump
  BY <1>1 DEF LogIsGapFree, DoneRunHasEvents, OpenRunIsDrained, OpenGateHasPump,
              EntryPointsAtLivePump
<1>5. OnePumpPerRun /\ EveryPumpIsWatched /\ AbortedRunIsOver
  BY <1>2 DEF OnePumpPerRun, EveryPumpIsWatched, AbortedRunIsOver, Streaming
<1> QED
  BY <1>3, <1>4, <1>5 DEF Inductive

LEMMA NextInductive == Inductive /\ [ManagerNext]_managerVars => Inductive'
<1> SUFFICES ASSUME Inductive, [ManagerNext]_managerVars
             PROVE  Inductive'
  OBVIOUS
<1> USE InductiveUnfolded
<1>1. ASSUME NEW r \in RunId, Start(r) PROVE Inductive'
  BY <1>1, StartKeeps
<1>2. ASSUME NEW r \in RunId, Abort(r) PROVE Inductive'
  BY <1>2, CancelKeeps DEF Abort, TerminalEvents
<1>3. ASSUME NEW r \in RunId, Reap(r) PROVE Inductive'
  BY <1>3, CancelKeeps DEF Reap, Stale, TerminalEvents
<1>4. ASSUME NEW r \in RunId, ClearApproval(r) PROVE Inductive'
  BY <1>4, ClearApprovalKeeps
<1>5. ASSUME NEW p \in PumpId, PumpStep(p) PROVE Inductive'
  BY <1>5, FrameKeeps, StreamEndKeeps, StreamErrorKeeps DEF PumpStep
<1>6. CASE StoreTimer
  BY <1>6, StoreTimerKeeps
<1>7. CASE Tick
  BY <1>7, TickKeeps
<1>8. CASE UNCHANGED managerVars
  <2>1. /\ runs' = runs /\ lost' = lost /\ pumps' = pumps
        /\ stream' = stream /\ approvalOpen' = approvalOpen
    BY <1>8 DEF managerVars
  <2>2. StoreInv' /\ Conservative({})
    BY <2>1, UnchangedKeepsStore DEF storeVars
  <2>3. OpenGateHasPump'
    BY <2>1 DEF OpenGateHasPump, Streaming
  <2> QED
    BY <2>1, <2>2, <2>3, StoreChangeKeeps
<1>9. ASSUME NEW r \in RunId, Rebegin(r) PROVE Inductive'
  BY <1>9, RebeginKeeps
<1>10. CASE Crash
  BY <1>10, CrashKeeps
<1> QED
  BY <1>1, <1>2, <1>3, <1>4, <1>5, <1>6, <1>7, <1>8, <1>9, <1>10 DEF ManagerNext

(* The inductive invariant holds of every behaviour of the manager.        *)
THEOREM InductiveHolds == Spec => []Inductive
<1>1. ManagerInit => Inductive
  BY InitInductive
<1>2. Inductive /\ [ManagerNext]_managerVars => Inductive'
  BY NextInductive
<1> QED
  BY <1>1, <1>2, PTL DEF Spec

(* Every variable keeps its type (runStore.ts 19-29, runManager.ts 129-164). *)
THEOREM TypeCorrect == Spec => []TypeOK
<1>1. Inductive => TypeOK
  BY DEF Inductive
<1> QED
  BY <1>1, InductiveHolds, PTL

(* Replay is truthful: the events a log holds carry the last consecutive    *)
(* cursors of its run (runStore.ts 104-123).                                *)
THEOREM ReplayIsGapFree == Spec => []LogIsGapFree
<1>1. Inductive => LogIsGapFree
  BY DEF Inductive
<1> QED
  BY <1>1, InductiveHolds, PTL

(* No run is left open without a pump that will end it (runManager.ts 17-29, *)
(* 388-417).                                                                *)
THEOREM NoRunLeftOpen == Spec => []OpenRunIsDrained
<1>1. Inductive => OpenRunIsDrained
  BY DEF Inductive
<1> QED
  BY <1>1, InductiveHolds, PTL

(* No live pump escapes the reaper and Stop (runManager.ts 287-345).        *)
THEOREM NoPumpEscapes == Spec => []EveryPumpIsWatched
<1>1. Inductive => EveryPumpIsWatched
  BY DEF Inductive
<1> QED
  BY <1>1, InductiveHolds, PTL

(* No pump slot outlives the iteration it belongs to (runManager.ts 333-345, *)
(* 406-417).                                                                *)
THEOREM NothingOutlivesItsPump == Spec => []EntryPointsAtLivePump
<1>1. Inductive => EntryPointsAtLivePump
  BY DEF Inductive
<1> QED
  BY <1>1, InductiveHolds, PTL

(* No approval badge outlives the iteration that withdraws it               *)
(* (runManager.ts 160-162, 412-415).                                        *)
THEOREM NoBadgeOutlivesItsPump == Spec => []OpenGateHasPump
<1>1. Inductive => OpenGateHasPump
  BY DEF Inductive
<1> QED
  BY <1>1, InductiveHolds, PTL

-----------------------------------------------------------------------------
(***************************************************************************)
(* The two maps of the server stay within their caps: the retained runs    *)
(* within maxRuns, the live pumps within maxConcurrentPumps.  The first    *)
(* needs nothing but the operators of the store; the second also rests on  *)
(* the pumps being registered, which is proved above.                      *)
(***************************************************************************)
Within(S, n) == IsFiniteSet(S) /\ Cardinality(S) <= n

LEMMA SubsetWithin ==
  ASSUME NEW S, NEW n \in Nat, Within(S, n), NEW T, T \subseteq S
  PROVE  Within(T, n)
<1>1. IsFiniteSet(T) /\ Cardinality(T) <= Cardinality(S)
  BY FS_Subset DEF Within
<1> QED
  BY <1>1, FS_CardinalityType DEF Within

-----------------------------------------------------------------------------
(***************************************************************************)
(* The store.                                                              *)
(***************************************************************************)

(* ensure with enforceMaxRuns leaves no more than maxRuns runs behind.     *)
LEMMA EnsuredWithin ==
  ASSUME Within(DOMAIN runs, MaxRuns), NEW r, NEW rs \in Ensured(r)
  PROVE  Within(DOMAIN rs, MaxRuns)
<1> DEFINE S == DOMAIN runs \cup {r}
<1>1. CASE Has(r)
  BY <1>1 DEF Ensured
<1>2. CASE ~Has(r)
  <2>1. DOMAIN Inserted(r) = S
    BY DEF Inserted
  <2>2. IsFiniteSet(S) /\ Cardinality(S) = Cardinality(DOMAIN runs) + 1
    BY <1>2, FS_AddElement DEF Within, Has
  <2>3. CASE rs = Inserted(r) /\ Cardinality(DOMAIN Inserted(r)) <= MaxRuns
    BY <2>1, <2>2, <2>3 DEF Within
  <2>4. ASSUME NEW v \in Victims(Inserted(r), r), rs = Without(Inserted(r), v)
        PROVE  Within(DOMAIN rs, MaxRuns)
    <3>1. v \in S
      BY <2>1 DEF Victims
    <3>2. DOMAIN rs = S \ {v}
      BY <2>1, <2>4 DEF Without
    <3>3. IsFiniteSet(S \ {v}) /\ Cardinality(S \ {v}) = Cardinality(S) - 1
      BY <2>2, <3>1, FS_RemoveElement
    <3>4. Cardinality(DOMAIN runs) \in Nat
      BY FS_CardinalityType DEF Within
    <3> QED
      BY <2>2, <3>2, <3>3, <3>4 DEF Within
  <2> QED
    BY <1>2, <2>3, <2>4 DEF Ensured
<1> QED
  BY <1>1, <1>2

\* What a step does to the set of retained runs: it ensures one, or adds none.
RetainsWithin ==
  \/ DOMAIN runs' \subseteq DOMAIN runs
  \/ \E r \in RunId : \E rs \in Ensured(r) : DOMAIN runs' = DOMAIN rs

LEMMA AppendRetains ==
  ASSUME NEW r \in RunId, NEW e, StoreAppend(r, e) \/ AppendUnlessDone(r, e)
  PROVE  RetainsWithin
BY DEF StoreAppend, AppendUnlessDone, StoreStep, storeVars, RetainsWithin

LEMMA ManagerRetains ==
  ASSUME TypeOK, OnePumpPerRun, [ManagerNext]_managerVars
  PROVE  RetainsWithin
<1>1. ASSUME NEW r \in RunId, Start(r) PROVE RetainsWithin
  <2>1. CASE StoreAppend(r, "run.started")
    BY <2>1, AppendRetains
  <2>2. CASE \E rs \in Ensured(r) :
               StoreStep([rs EXCEPT ![r] = Logged(Logged(rs[r], "run.started"), "run.failed")])
    BY <2>2 DEF StoreStep, RetainsWithin
  <2> QED
    BY <1>1, <2>1, <2>2 DEF Start
<1>2. ASSUME NEW r \in RunId, Abort(r) \/ Reap(r) PROVE RetainsWithin
  BY <1>2, AppendRetains DEF Abort, Reap, Cancel
<1>3. ASSUME NEW r \in RunId, Rebegin(r) PROVE RetainsWithin
  BY <1>3 DEF Rebegin, StoreEnsure, StoreStep, RetainsWithin
<1>4. ASSUME NEW p \in PumpId, PumpStep(p) PROVE RetainsWithin
  <2>1. stream[p].run \in RunId
    BY <1>4 DEF PumpStep, Frame, StreamEnd, StreamError, Streaming, OnePumpPerRun
  <2>2. ASSUME NEW raw \in RawFrames, Frame(p, raw) PROVE RetainsWithin
    <3>1. CASE StoreAppend(stream[p].run, MapGatewayEvent(raw))
      BY <2>1, <3>1, AppendRetains
    <3>2. CASE StoreBroadcast(stream[p].run)
      BY <3>2 DEF StoreBroadcast, RetainsWithin
    <3>3. CASE UNCHANGED storeVars
      BY <3>3 DEF storeVars, RetainsWithin
    <3> QED
      BY <2>2, <3>1, <3>2, <3>3 DEF Frame
  <2>3. CASE StreamEnd(p)
    BY <2>1, <2>3, AppendRetains DEF StreamEnd, storeVars, RetainsWithin
  <2>4. CASE StreamError(p)
    BY <2>1, <2>4, AppendRetains DEF StreamError, storeVars, RetainsWithin
  <2> QED
    BY <1>4, <2>2, <2>3, <2>4 DEF PumpStep
<1>5. CASE StoreTimer
  BY <1>5 DEF StoreTimer, Retired, EvictTerminal, SweepIdle, StoreStep, Without, RetainsWithin
<1>6. CASE Tick
  BY <1>6 DEF Tick, Aged, RetainsWithin
<1>7. CASE Crash
  BY <1>7 DEF Crash, StoreStep, NoRuns, RetainsWithin
<1>8. CASE UNCHANGED managerVars \/ \E r \in RunId : ClearApproval(r)
  BY <1>8 DEF managerVars, ClearApproval, RetainsWithin
<1> QED
  BY <1>1, <1>2, <1>3, <1>4, <1>5, <1>6, <1>7, <1>8 DEF ManagerNext

(* At most maxRuns runs are retained (runStore.ts 140-149).                *)
THEOREM RetentionStaysBounded == Spec => []RetentionBounded
<1>1. ManagerInit => Within(DOMAIN runs, MaxRuns)
  <2> SUFFICES ASSUME ManagerInit PROVE Within(DOMAIN runs, MaxRuns)
    OBVIOUS
  <2>1. DOMAIN runs = {}
    BY DEF ManagerInit, StoreInit, NoRuns
  <2> QED
    BY <2>1, FS_EmptySet, RunStoreAssumption DEF Within
<1>2. Within(DOMAIN runs, MaxRuns) /\ RetainsWithin => Within(DOMAIN runs, MaxRuns)'
  <2> SUFFICES ASSUME Within(DOMAIN runs, MaxRuns), RetainsWithin
               PROVE  Within(DOMAIN runs', MaxRuns)
    BY DEF Within
  <2>1. CASE DOMAIN runs' \subseteq DOMAIN runs
    BY <2>1, SubsetWithin, RunStoreAssumption
  <2>2. ASSUME NEW r \in RunId, NEW rs \in Ensured(r), DOMAIN runs' = DOMAIN rs
        PROVE  Within(DOMAIN runs', MaxRuns)
    BY <2>2, EnsuredWithin
  <2> QED
    BY <2>1, <2>2 DEF RetainsWithin
<1>3. Inductive /\ [ManagerNext]_managerVars => RetainsWithin
  BY ManagerRetains DEF Inductive
<1>4. Within(DOMAIN runs, MaxRuns) => RetentionBounded
  BY DEF Within, RetentionBounded
<1> QED
  BY <1>1, <1>2, <1>3, <1>4, InductiveHolds, PTL DEF Spec

-----------------------------------------------------------------------------
(***************************************************************************)
(* The pumps.                                                              *)
(***************************************************************************)

(* Only a launch below the cap registers a pump.                           *)
LEMMA SlotsStayWithin ==
  ASSUME Within(DOMAIN pumps, MaxPumps), [ManagerNext]_managerVars
  PROVE  Within(DOMAIN pumps', MaxPumps)
<1>1. ASSUME NEW r \in RunId, Start(r) PROVE Within(DOMAIN pumps', MaxPumps)
  <2>1. CASE Launch(r)
    <3> DEFINE S == DOMAIN pumps
    <3>1. ~AtCapacity /\ DOMAIN pumps' = S \cup {r}
      BY <2>1 DEF Launch, Registered
    <3>2. Cardinality(S) \in Nat /\ IsFiniteSet(S)
      BY FS_CardinalityType DEF Within
    <3>3. IsFiniteSet(S \cup {r})
          /\ (Cardinality(S \cup {r}) = Cardinality(S) \/ Cardinality(S \cup {r}) = Cardinality(S) + 1)
      BY <3>2, FS_AddElement
    <3>4. Cardinality(S) < MaxPumps
      BY <3>1, <3>2, RunManagerAssumption DEF AtCapacity
    <3> QED
      BY <3>1, <3>2, <3>3, <3>4, RunManagerAssumption DEF Within
  <2>2. CASE UNCHANGED pumps
    BY <2>2
  <2> QED
    BY <1>1, <2>1, <2>2 DEF Start
<1>2. CASE DOMAIN pumps' \subseteq DOMAIN pumps
  BY <1>2, SubsetWithin, RunManagerAssumption
<1>3. ASSUME NEW r \in RunId, Abort(r) \/ Reap(r) \/ ClearApproval(r) \/ Rebegin(r)
      PROVE  DOMAIN pumps' \subseteq DOMAIN pumps
  BY <1>3 DEF Abort, Reap, Cancel, ClearApproval, Rebegin, Unregistered
<1>4. ASSUME NEW p \in PumpId, PumpStep(p)
      PROVE  DOMAIN pumps' \subseteq DOMAIN pumps
  BY <1>4 DEF PumpStep, Frame, StreamEnd, StreamError, Finally, Touched, Unregistered
<1>5. StoreTimer \/ Tick \/ Crash \/ UNCHANGED managerVars
        => DOMAIN pumps' \subseteq DOMAIN pumps
  BY DEF StoreTimer, Tick, Crash, NoPumps, managerVars
<1> QED
  BY <1>1, <1>2, <1>3, <1>4, <1>5 DEF ManagerNext

(* The pumps that were not aborted are no more than the registered ones:    *)
(* each is the pump of its run's entry, so the entries tell them apart.     *)
LEMMA LiveWithinSlots ==
  ASSUME Within(DOMAIN pumps, MaxPumps), EveryPumpIsWatched
  PROVE  LivePumpsBounded
<1> DEFINE Live == {p \in PumpId : Streaming(p) /\ ~stream[p].aborted}
           f == [p \in Live |-> stream[p].run]
<1>1. \A p \in Live : f[p] \in DOMAIN pumps /\ pumps[f[p]].pump = p
  BY DEF EveryPumpIsWatched, IsActive
<1>2. f \in [Live -> DOMAIN pumps]
  BY <1>1
<1>3. \A p, q \in Live : f[p] = f[q] => p = q
  BY <1>1
<1> HIDE DEF f
<1>4. f \in Injection(Live, DOMAIN pumps)
  BY <1>2, <1>3 DEF Injection, IsInjective
<1>5. IsFiniteSet(Live) /\ Cardinality(Live) <= Cardinality(DOMAIN pumps)
  BY <1>4, FS_Injection DEF Within
<1>6. Cardinality(Live) \in Nat /\ Cardinality(DOMAIN pumps) \in Nat
  BY <1>5, FS_CardinalityType DEF Within
<1>7. Cardinality(Live) <= MaxPumps
  <2> HIDE DEF Live
  <2> QED
    BY <1>5, <1>6, RunManagerAssumption DEF Within
<1> QED
  BY <1>7 DEF LivePumpsBounded

(* The live pumps never outnumber maxConcurrentPumps (runManager.ts         *)
(* 245-263), however entries are dropped and taken again.                   *)
THEOREM LivePumpsStayBounded == Spec => []LivePumpsBounded
<1>1. ManagerInit => Within(DOMAIN pumps, MaxPumps)
  <2> SUFFICES ASSUME ManagerInit PROVE Within(DOMAIN pumps, MaxPumps)
    OBVIOUS
  <2>1. DOMAIN pumps = {}
    BY DEF ManagerInit, NoPumps
  <2> QED
    BY <2>1, FS_EmptySet, RunManagerAssumption DEF Within
<1>2. Within(DOMAIN pumps, MaxPumps) /\ [ManagerNext]_managerVars
        => Within(DOMAIN pumps, MaxPumps)'
  BY SlotsStayWithin DEF Within
<1>3. Inductive /\ Within(DOMAIN pumps, MaxPumps) => LivePumpsBounded
  BY LiveWithinSlots DEF Inductive
<1> QED
  BY <1>1, <1>2, <1>3, InductiveHolds, PTL DEF Spec
=============================================================================
