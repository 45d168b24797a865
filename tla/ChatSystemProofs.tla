-------------------------- MODULE ChatSystemProofs --------------------------
(***************************************************************************)
(* The chat as a whole: tab, wire and server.                              *)
(*   1. It implements the manager: each of its steps is, on the manager's  *)
(*      variables, a step of RunManager or none, so that what is proved of *)
(*      RunManager holds of the whole chat.                                *)
(*   2. What a subsequence, a log, a subscription and a frame are made of: *)
(*      the lemmas that the type invariant and the delivery of events      *)
(*      (ChatDeliveryProofs) rest on.                                      *)
(*   3. Its types, and that only what the protocol names is on the wire.   *)
(*   4. No subscription outlives its run.                                  *)
(***************************************************************************)
EXTENDS ChatSystem, RunManagerProofs

\* Only ids of runs reach the handlers that wait for the gateway.
CallsOfRuns == \A c \in calls : c.run \in RunId

LEMMA DeliverMaps ==
  ASSUME Inductive, CallsOfRuns, Deliver
  PROVE  [ManagerNext]_managerVars /\ CallsOfRuns'
<1> USE InductiveUnfolded
<1>1. PICK s \in Socket, r \in RunId :
        \/ RunCommand(s, r)
        \/ ResumeCommand(s, r, Head(up).cursor)
        \/ AbortCommand(s, r)
        \/ RespondCommand(s, r, Head(up).cursor)
  BY DEF Deliver
<1>2. CASE RunCommand(s, r)
  BY <1>2 DEF RunCommand, CallsOfRuns
<1>3. CASE ResumeCommand(s, r, Head(up).cursor)
  BY <1>3 DEF ResumeCommand, CallsOfRuns, ManagerNext
<1>4. CASE AbortCommand(s, r)
  BY <1>4 DEF AbortCommand, CallsOfRuns, ManagerNext
<1>5. CASE RespondCommand(s, r, Head(up).cursor)
  BY <1>5 DEF RespondCommand, CallsOfRuns
<1> QED
  BY <1>1, <1>2, <1>3, <1>4, <1>5

LEMMA AnswerMaps ==
  ASSUME CallsOfRuns, GatewayAnswers
  PROVE  [ManagerNext]_managerVars /\ CallsOfRuns'
<1>1. PICK c \in calls :
        RunAccepted(c) \/ AbortAccepted(c) \/ RespondAccepted(c) \/ Rejected(c)
  BY DEF GatewayAnswers
<1>2. c.run \in RunId
  BY DEF CallsOfRuns
<1>3. CASE RunAccepted(c)
  BY <1>2, <1>3 DEF RunAccepted, CallsOfRuns, ManagerNext
<1>4. CASE AbortAccepted(c)
  BY <1>4 DEF AbortAccepted, CallsOfRuns
<1>5. CASE RespondAccepted(c)
  BY <1>2, <1>5 DEF RespondAccepted, CallsOfRuns, ManagerNext
<1>6. CASE Rejected(c)
  BY <1>6 DEF Rejected, CallsOfRuns
<1> QED
  BY <1>1, <1>3, <1>4, <1>5, <1>6

LEMMA BackgroundMaps ==
  ASSUME CallsOfRuns, Background
  PROVE  [ManagerNext]_managerVars /\ CallsOfRuns'
<1>1. CASE \E s \in Socket : Disconnect(s)
  BY <1>1 DEF Disconnect, CallsOfRuns
<1>2. CASE \E p \in PumpId : Pumped(p)
  BY <1>2 DEF Pumped, CallsOfRuns, ManagerNext
<1>3. CASE \E r \in RunId : Reaped(r)
  BY <1>3 DEF Reaped, CallsOfRuns, ManagerNext
<1>4. CASE TimePasses
  BY <1>4 DEF TimePasses, CallsOfRuns, ManagerNext
<1> QED
  BY <1>1, <1>2, <1>3, <1>4 DEF Background

LEMMA StepMaps ==
  ASSUME Inductive, CallsOfRuns, [SystemNext]_vars
  PROVE  [ManagerNext]_managerVars /\ CallsOfRuns'
<1>1. CASE UNCHANGED vars
  BY <1>1 DEF vars, wireVars, CallsOfRuns
<1>2. CASE \E r \in RunId : Send(r)
  BY <1>2 DEF Send, wireVars, CallsOfRuns
<1>3. CASE Stop \/ Respond \/ NewChat
  BY <1>3 DEF Stop, Respond, NewChat, wireVars, CallsOfRuns
<1>4. CASE Lose
  BY <1>4 DEF Lose, LinkLost, CallsOfRuns
<1>5. CASE Reload
  BY <1>5 DEF Reload, LinkLost, wireVars, CallsOfRuns
<1>6. CASE Connect
  BY <1>6 DEF Connect, Connected, CallsOfRuns
<1>7. CASE Deliver
  BY <1>7, DeliverMaps
<1>8. CASE Receive
  BY <1>8 DEF Receive, CallsOfRuns
<1>9. CASE GatewayAnswers
  BY <1>9, AnswerMaps
<1>10. CASE Background
  BY <1>10, BackgroundMaps
<1>11. CASE ServerDies
  BY <1>11 DEF ServerDies, ServerCrash, CallsOfRuns, ManagerNext
<1> QED
  BY <1>1, <1>2, <1>3, <1>4, <1>5, <1>6, <1>7, <1>8, <1>9, <1>10, <1>11
     DEF SystemNext

(* The chat implements the manager (chatRun.ts 94-346 over runManager.ts):    *)
(* whatever sockets, handlers and the tab do, the run lifecycle moves only as *)
(* RunManager's own specification allows.                                     *)
THEOREM ChatImplementsManager == SystemSpec => ManagerSpec
<1>1. SystemInit => ManagerInit /\ Inductive /\ CallsOfRuns
  BY InitInductive DEF SystemInit, WireInit, CallsOfRuns
<1>2. Inductive /\ CallsOfRuns /\ [SystemNext]_vars
        => [ManagerNext]_managerVars /\ (Inductive /\ CallsOfRuns)'
  BY StepMaps, NextInductive
<1> QED
  BY <1>1, <1>2, PTL DEF SystemSpec, ManagerSpec, Spec

(* In the whole chat, whatever tab and connections do, no run is left open    *)
(* without a pump that will close it, and no pump runs unwatched              *)
(* (runManager.ts 17-29).                                                     *)
THEOREM ChatLeavesNoRunOpen == SystemSpec => [](OpenRunIsDrained /\ EveryPumpIsWatched)
BY ChatImplementsManager, NoRunLeftOpen, NoPumpEscapes, PTL DEF ManagerSpec

-----------------------------------------------------------------------------
(***************************************************************************)
(* Subsequences.                                                           *)
(***************************************************************************)

(* The ranks of the positions in I are 1 .. Cardinality(I), each once.     *)
LEMMA RanksAreOnto ==
  ASSUME NEW n \in Nat, NEW I \in SUBSET (1 .. n)
  PROVE  /\ IsFiniteSet(I) /\ Cardinality(I) \in Nat
         /\ \A i \in I : Rank(i, I) \in 1 .. Cardinality(I)
         /\ \A i, j \in I : Rank(i, I) = Rank(j, I) => i = j
         /\ \A k \in 1 .. Cardinality(I) : \E i \in I : Rank(i, I) = k
<1> DEFINE Upto(i) == {j \in I : j <= i}
           f == [i \in I |-> Rank(i, I)]
<1>1. IsFiniteSet(I) /\ Cardinality(I) \in Nat
  <2>1. IsFiniteSet(1 .. n)
    BY FS_Interval
  <2> QED
    BY <2>1, FS_Subset, FS_CardinalityType
<1>2. \A i \in I : IsFiniteSet(Upto(i)) /\ Cardinality(Upto(i)) \in Nat
                   /\ Cardinality(Upto(i)) <= Cardinality(I)
  BY <1>1, FS_Subset, FS_CardinalityType
<1>3. \A i \in I : Rank(i, I) \in 1 .. Cardinality(I)
  <2> TAKE i \in I
  <2>1. Upto(i) # {}
    OBVIOUS
  <2>2. Cardinality(Upto(i)) # 0
    BY <1>2, <2>1, FS_EmptySet
  <2> QED
    BY <1>1, <1>2, <2>2 DEF Rank
<1>4. ASSUME NEW i \in I, NEW j \in I, i < j PROVE Rank(i, I) < Rank(j, I)
  <2>0. \A k \in I : k \in Int
    OBVIOUS
  <2>1. Upto(i) \subseteq Upto(j)
    <3> SUFFICES ASSUME NEW k \in I, k <= i PROVE k <= j
      OBVIOUS
    <3> QED
      BY <1>4, <2>0
  <2>3. j <= j /\ ~(j <= i)
    BY <1>4, <2>0
  <2>4. j \in Upto(j) /\ j \notin Upto(i)
    BY <2>3
  <2>2. Cardinality(Upto(i)) <= Cardinality(Upto(j)) /\ Cardinality(Upto(i)) # Cardinality(Upto(j))
    BY <1>2, <2>1, <2>4, FS_Subset
  <2> QED
    BY <1>2, <2>2 DEF Rank
<1>5. \A i, j \in I : Rank(i, I) = Rank(j, I) => i = j
  BY <1>3, <1>4
<1>6. f \in Injection(I, 1 .. Cardinality(I))
  BY <1>3, <1>5 DEF Injection, IsInjective
<1>7. f \in Surjection(I, 1 .. Cardinality(I))
  <2>1. IsFiniteSet(1 .. Cardinality(I)) /\ Cardinality(1 .. Cardinality(I)) = Cardinality(I)
    BY <1>1, FS_Interval
  <2> HIDE DEF f
  <2> QED
    BY <1>6, <2>1, FS_Injection
<1>8. \A k \in 1 .. Cardinality(I) : \E i \in I : Rank(i, I) = k
  BY <1>7 DEF Surjection
<1> QED
  BY <1>1, <1>3, <1>5, <1>8

(* A subsequence has the elements at its positions, and no others.         *)
LEMMA SubsequenceOf ==
  ASSUME NEW S, NEW s \in Seq(S), NEW I \in SUBSET DOMAIN s
  PROVE  /\ Subsequence(s, I) \in Seq(S)
         /\ Len(Subsequence(s, I)) = Cardinality(I)
         /\ \A k \in 1 .. Len(Subsequence(s, I)) : \E i \in I : Subsequence(s, I)[k] = s[i]
<1> DEFINE pick(k) == CHOOSE i \in I : Rank(i, I) = k
           t == Subsequence(s, I)
<1>1. Len(s) \in Nat /\ DOMAIN s = 1 .. Len(s) /\ \A i \in DOMAIN s : s[i] \in S
  BY LenProperties, ElementOfSeq
<1>2. /\ Cardinality(I) \in Nat
      /\ \A k \in 1 .. Cardinality(I) : pick(k) \in I
  BY <1>1, RanksAreOnto
<1> HIDE DEF pick
<1>3. t = [k \in 1 .. Cardinality(I) |-> s[pick(k)]]
  BY DEF Subsequence, pick
<1>4. t \in [1 .. Cardinality(I) -> S]
  BY <1>1, <1>2, <1>3
<1>5. t \in Seq(S)
  BY <1>2, <1>4, SeqDef
<1>6. Len(t) = Cardinality(I)
  BY <1>2, <1>4, <1>5, LenProperties
<1> QED
  BY <1>2, <1>3, <1>5, <1>6

(* A subsequence has every element at its positions.                       *)
LEMMA SubsequenceKeeps ==
  ASSUME NEW S, NEW s \in Seq(S), NEW I \in SUBSET DOMAIN s, NEW i \in I
  PROVE  \E k \in 1 .. Len(Subsequence(s, I)) : Subsequence(s, I)[k] = s[i]
<1>1. Len(s) \in Nat /\ DOMAIN s = 1 .. Len(s)
  BY LenProperties
<1>2. /\ Rank(i, I) \in 1 .. Cardinality(I)
      /\ \A j \in I : Rank(j, I) = Rank(i, I) => j = i
  BY <1>1, RanksAreOnto
<1>3. (CHOOSE j \in I : Rank(j, I) = Rank(i, I)) = i
  BY <1>2
<1>4. Subsequence(s, I)[Rank(i, I)] = s[i]
  BY <1>2, <1>3 DEF Subsequence
<1> QED
  BY <1>2, <1>4, SubsequenceOf

(* A subsequence that takes everything after position a.                   *)
LEMMA SubsequenceSuffix ==
  ASSUME NEW S, NEW s \in Seq(S), NEW a \in 0 .. Len(s)
  PROVE  /\ Subsequence(s, a + 1 .. Len(s)) \in Seq(S)
         /\ Len(Subsequence(s, a + 1 .. Len(s))) = Len(s) - a
         /\ \A k \in 1 .. Len(s) - a : Subsequence(s, a + 1 .. Len(s))[k] = s[a + k]
<1> DEFINE I == a + 1 .. Len(s)
<1>1. Len(s) \in Nat /\ DOMAIN s = 1 .. Len(s)
  BY LenProperties
<1>2. I \in SUBSET DOMAIN s
  BY <1>1
<1>3. Cardinality(I) = Len(s) - a
  <2>1. a + 1 \in Int /\ Len(s) \in Int
    BY <1>1
  <2>2. Cardinality(a + 1 .. Len(s)) = IF a + 1 > Len(s) THEN 0 ELSE Len(s) - (a + 1) + 1
    BY <2>1, FS_Interval
  <2> QED
    BY <1>1, <2>2
<1>4. \A i \in I : Rank(i, I) = i - a
  <2> TAKE i \in I
  <2>1. {j \in I : j <= i} = a + 1 .. i
    BY <1>1
  <2>2. Cardinality(a + 1 .. i) = i - a
    BY <1>1, FS_Interval
  <2> QED
    BY <2>1, <2>2 DEF Rank
<1>5. \A k \in 1 .. Len(s) - a : (CHOOSE i \in I : Rank(i, I) = k) = a + k
  <2> TAKE k \in 1 .. Len(s) - a
  <2>1. a + k \in I /\ Rank(a + k, I) = k
    BY <1>1, <1>4
  <2>2. \A i \in I : Rank(i, I) = k => i = a + k
    BY <1>1, <1>4
  <2> QED
    BY <2>1, <2>2
<1>6. \A k \in 1 .. Len(s) - a : Subsequence(s, I)[k] = s[a + k]
  BY <1>3, <1>5 DEF Subsequence
<1> QED
  BY <1>1, <1>2, <1>3, <1>6, SubsequenceOf

-----------------------------------------------------------------------------
(***************************************************************************)
(* Types.  A frame that rejects no command names a run, and so does a card *)
(* that is on the screen or put away.                                      *)
(***************************************************************************)
Event == [cursor : Nat, event : LogEvents]

NamedFrame == {f \in WireFrame : f.event \notin Rejections => f.run \in RunId}

NamedCard == {c \in [run : RunId \cup {None}, gate : Nat] : c = NoCard \/ c.run \in RunId}

NamedTab == {t \in TabState : t.card \in NamedCard /\ t.cleared \in NamedCard}

TypeInv ==
  /\ TypeOK
  /\ link \in [Socket -> {"unused", "open", "gone", "closed"}]
  /\ tails \in [Socket -> Seq(TailState)]
  /\ calls \subseteq Call
  /\ down \in Seq(NamedFrame)
  /\ tab \in NamedTab
  /\ up \in Seq(Command)
  /\ asked \subseteq RunId
  /\ left \subseteq asked
  /\ answered \subseteq RunId \X Nat

LEMMA TypesAreNamed == TypeInv => SystemTypeOK
<1> SUFFICES ASSUME TypeInv PROVE SystemTypeOK
  OBVIOUS
<1>1. down \in Seq(WireFrame)
  BY SeqMonotonic DEF TypeInv, NamedFrame
<1> QED
  BY <1>1 DEF TypeInv, SystemTypeOK, WireTypeOK, NamedTab

LEMMA RejectionsAreFour ==
  Rejections = {"run rejected", "resume rejected", "abort rejected", "respond rejected"}
<1>1. DOMAIN Rejection = {"run", "resume", "abort", "respond"}
  BY DEF Rejection
<1>2. /\ Rejection["run"] = "run rejected"
      /\ Rejection["resume"] = "resume rejected"
      /\ Rejection["abort"] = "abort rejected"
      /\ Rejection["respond"] = "respond rejected"
  BY DEF Rejection
<1> QED
  BY <1>1, <1>2 DEF Rejections

(* The frames a handler makes.                                             *)
LEMMA TransientIsNamed ==
  ASSUME NEW r \in RunId,
         NEW e \in {"run.stopping", "approval.pending", "approval.cleared"}
  PROVE  Transient(e, r) \in Seq(NamedFrame)
<1>1. [event |-> e, run |-> r, cursor |-> 0, gate |-> 0] \in NamedFrame
  BY DEF NamedFrame, WireFrame
<1> QED
  BY <1>1 DEF Transient

LEMMA RejectionIsNamed ==
  ASSUME NEW c \in DOMAIN Rejection
  PROVE  Transient(Rejection[c], "none") \in Seq(NamedFrame)
<1>1. Rejection[c] \in Rejections
  BY DEF Rejections
<1>2. [event |-> Rejection[c], run |-> "none", cursor |-> 0, gate |-> 0] \in NamedFrame
  BY <1>1 DEF NamedFrame, WireFrame
<1> QED
  BY <1>2 DEF Transient

LEMMA ForwardedIsNamed ==
  ASSUME NEW r \in RunId, NEW events \in Seq(Event)
  PROVE  /\ Forwarded(r, events) \in Seq(NamedFrame)
         /\ Len(Forwarded(r, events)) = Len(events)
         /\ \A i \in 1 .. Len(events) :
              /\ Forwarded(r, events)[i].run = r
              /\ Forwarded(r, events)[i].cursor = events[i].cursor
              /\ Forwarded(r, events)[i].event = events[i].event
<1> DEFINE frame(i) ==
             [event |-> events[i].event, run |-> r, cursor |-> events[i].cursor,
              gate |-> IF events[i].event = "approval.request" THEN events[i].cursor ELSE 0]
           t == Forwarded(r, events)
<1>1. /\ Len(events) \in Nat
      /\ DOMAIN events = 1 .. Len(events)
      /\ \A i \in 1 .. Len(events) : events[i].cursor \in Nat /\ events[i].event \in LogEvents
  <2>1. \A i \in 1 .. Len(events) : events[i] \in Event
    BY ElementOfSeq
  <2> QED
    BY <2>1, LenProperties DEF Event
<1>2. \A e \in LogEvents : e \notin Rejections
  BY RejectionsAreFour DEF LogEvents, TerminalEvents
<1>3. \A i \in 1 .. Len(events) : frame(i) \in NamedFrame
  BY <1>1, <1>2 DEF NamedFrame, WireFrame
<1>4. t = [i \in 1 .. Len(events) |-> frame(i)]
  BY <1>1 DEF Forwarded
<1>5. t \in [1 .. Len(events) -> NamedFrame]
  BY <1>3, <1>4
<1>6. t \in Seq(NamedFrame)
  BY <1>1, <1>5, SeqDef
<1>7. Len(t) = Len(events)
  BY <1>1, <1>5, <1>6, LenProperties
<1> QED
  BY <1>4, <1>6, <1>7

LEMMA AfterIsTyped ==
  ASSUME NEW events \in Seq(Event), NEW k
  PROVE  After(events, k) \in Seq(Event)
<1>1. {i \in DOMAIN events : events[i].cursor > k} \in SUBSET DOMAIN events
  OBVIOUS
<1> QED
  BY <1>1, SubsequenceOf DEF After

LEMMA PendingGateIsTyped ==
  ASSUME NEW events \in Seq(Event)
  PROVE  PendingGate(events) \in Nat
<1>1. Gates(events) \in Seq(Event)
  <2>1. {i \in DOMAIN events : events[i].event \in {"approval.request", "approval.responded"}}
           \in SUBSET DOMAIN events
    OBVIOUS
  <2> QED
    BY <2>1, SubsequenceOf DEF Gates
<1>2. ASSUME Gates(events) # << >> PROVE Last(Gates(events)) \in Event
  <2>1. Len(Gates(events)) \in Nat \ {0}
    BY <1>1, <1>2, EmptySeq
  <2>2. Len(Gates(events)) \in 1 .. Len(Gates(events))
    BY <2>1
  <2> QED
    BY <1>1, <2>2, ElementOfSeq DEF Last
<1> QED
  BY <1>2 DEF PendingGate, Event

LEMMA PendingApprovalIsNamed ==
  ASSUME NEW r \in RunId, NEW events \in Seq(Event), NEW k
  PROVE  PendingApprovalBefore(r, events, k) \in Seq(NamedFrame)
<1> DEFINE f == [event |-> "approval.request", run |-> r, cursor |-> 0,
                 gate |-> PendingGate(events)]
<1>1. f \in NamedFrame
  BY PendingGateIsTyped DEF NamedFrame, WireFrame, LogEvents
<1>2. << >> \in Seq(NamedFrame) /\ <<f>> \in Seq(NamedFrame)
  BY <1>1, EmptySeq
<1> QED
  BY <1>2 DEF PendingApprovalBefore

LEMMA LogIsTyped ==
  ASSUME StoreTypeOK, NEW r \in DOMAIN runs
  PROVE  runs[r].events \in Seq(Event) /\ runs[r].cursor \in Nat /\ runs[r].done \in BOOLEAN
BY DEF StoreTypeOK, RunState, Event

LEMMA NewsIsTyped ==
  ASSUME StoreTypeOK', NEW r
  PROVE  News(r) \in Seq(Event)
<1>1. CASE r \in DOMAIN runs'
  <2>1. runs'[r].events \in Seq(Event)
    BY <1>1 DEF StoreTypeOK, RunState, Event
  <2> QED
    BY <1>1, <2>1, AfterIsTyped DEF News
<1>2. CASE r \notin DOMAIN runs'
  BY <1>2, EmptySeq DEF News
<1> QED
  BY <1>1, <1>2

LEMMA HeardIsNamed ==
  ASSUME StoreTypeOK', NEW s, NEW r \in RunId
  PROVE  Heard(s, r) \in Seq(NamedFrame)
<1>1. << >> \in Seq(NamedFrame)
  BY EmptySeq
<1>2. \A k : Forwarded(r, After(News(r), k)) \in Seq(NamedFrame)
  BY NewsIsTyped, AfterIsTyped, ForwardedIsNamed
<1> QED
  BY <1>1, <1>2 DEF Heard

(* The subscriptions after a step.                                         *)
LEMMA RetainedTails ==
  ASSUME NEW ts \in Seq(TailState)
  PROVE  /\ Retained(ts) \in Seq(TailState)
         /\ Len(Retained(ts)) = Len(ts)
         /\ \A i \in 1 .. Len(ts) :
              /\ Retained(ts)[i].run = ts[i].run
              /\ Retained(ts)[i].gate = ts[i].gate
              /\ Retained(ts)[i].live <=> ts[i].live /\ ts[i].run \in DOMAIN runs'
<1> DEFINE alive(i) == ts[i].live /\ ts[i].run \in DOMAIN runs'
           kept(i) == [ts[i] EXCEPT !.live = alive(i)]
           t == Retained(ts)
<1>1. /\ Len(ts) \in Nat
      /\ DOMAIN ts = 1 .. Len(ts)
      /\ \A i \in 1 .. Len(ts) : ts[i] \in TailState
  BY ElementOfSeq, LenProperties
<1>2. \A i \in 1 .. Len(ts) : alive(i) \in BOOLEAN
  BY <1>1, Zenon DEF TailState
<1>3. t = [i \in 1 .. Len(ts) |-> kept(i)]
  BY <1>1 DEF Retained
<1> HIDE DEF alive
<1>4. \A i \in 1 .. Len(ts) : /\ kept(i) \in TailState
                              /\ kept(i).run = ts[i].run
                              /\ kept(i).gate = ts[i].gate
                              /\ kept(i).live = alive(i)
  BY <1>1, <1>2 DEF TailState
<1>5. t \in [1 .. Len(ts) -> TailState]
  BY <1>3, <1>4
<1>6. t \in Seq(TailState) /\ Len(t) = Len(ts)
  <2>1. t \in Seq(TailState)
    BY <1>1, <1>5, SeqDef
  <2> QED
    BY <1>1, <1>5, <2>1, LenProperties
<1>7. \A i \in 1 .. Len(ts) : t[i].live <=> alive(i)
  BY <1>3, <1>4
<1> QED
  BY <1>3, <1>4, <1>6, <1>7 DEF alive

LEMMA TailsAfterAreTails ==
  ASSUME NEW s, tails[s] \in Seq(TailState), NEW r
  PROVE  TailsAfter(s, r) \in Seq(TailState)
<1>1. DOMAIN tails[s] \ LiveTails(s, r) \in SUBSET DOMAIN tails[s]
  OBVIOUS
<1>2. Subsequence(tails[s], DOMAIN tails[s] \ LiveTails(s, r)) \in Seq(TailState)
  BY <1>1, SubsequenceOf
<1> QED
  BY <1>2, RetainedTails DEF TailsAfter

(* The tails that Attach leaves on the socket, before the cap and after.   *)
Added(s, r, gate) ==
  Append(WithoutTail(tails[s], r), [run |-> r, gate |-> gate, live |-> TRUE])

Kept(ts) == SubSeq(ts, IF Len(ts) > MaxTails THEN 2 ELSE 1, Len(ts))

LEMMA KeptTails ==
  ASSUME NEW ts \in Seq(TailState)
  PROVE  /\ Kept(ts) \in Seq(TailState)
         /\ \A k \in 1 .. Len(Kept(ts)) : \E i \in 1 .. Len(ts) : Kept(ts)[k] = ts[i]
<1> DEFINE m == IF Len(ts) > MaxTails THEN 2 ELSE 1
<1>1. Len(ts) \in Nat /\ \A i \in 1 .. Len(ts) : ts[i] \in TailState
  BY ElementOfSeq, LenProperties
<1>2. m \in 1 .. 2
  OBVIOUS
<1> HIDE DEF m
<1>3. \A i \in m .. Len(ts) : ts[i] \in TailState
  BY <1>1, <1>2
<1>4. /\ SubSeq(ts, m, Len(ts)) \in Seq(TailState)
      /\ Len(SubSeq(ts, m, Len(ts))) = IF m <= Len(ts) THEN Len(ts) - m + 1 ELSE 0
      /\ \A i \in 1 .. Len(ts) - m + 1 : SubSeq(ts, m, Len(ts))[i] = ts[m + i - 1]
  BY <1>1, <1>2, <1>3, SubSeqProperties
<1>5. Kept(ts) = SubSeq(ts, m, Len(ts))
  BY DEF Kept, m
<1>6. ASSUME NEW k \in 1 .. Len(Kept(ts))
      PROVE  \E i \in 1 .. Len(ts) : Kept(ts)[k] = ts[i]
  <2>1. m <= Len(ts) /\ k \in 1 .. Len(ts) - m + 1
    BY <1>1, <1>2, <1>4, <1>5
  <2>2. m + k - 1 \in 1 .. Len(ts) /\ Kept(ts)[k] = ts[m + k - 1]
    BY <1>1, <1>2, <1>4, <1>5, <2>1
  <2> QED
    BY <2>2
<1> QED
  BY <1>4, <1>5, <1>6

LEMMA OtherTails ==
  ASSUME NEW ts \in Seq(TailState), NEW r
  PROVE  /\ WithoutTail(ts, r) \in Seq(TailState)
         /\ \A k \in 1 .. Len(WithoutTail(ts, r)) :
              \E i \in 1 .. Len(ts) : WithoutTail(ts, r)[k] = ts[i] /\ ts[i].run # r
<1> DEFINE I == {i \in DOMAIN ts : ts[i].run # r}
<1>1. /\ I \in SUBSET DOMAIN ts
      /\ \A i \in I : i \in 1 .. Len(ts) /\ ts[i].run # r
  BY LenProperties
<1>2. WithoutTail(ts, r) = Subsequence(ts, I)
  BY DEF WithoutTail
<1> HIDE DEF I
<1>3. /\ Subsequence(ts, I) \in Seq(TailState)
      /\ \A k \in 1 .. Len(Subsequence(ts, I)) : \E i \in I : Subsequence(ts, I)[k] = ts[i]
  BY <1>1, SubsequenceOf
<1> QED
  BY <1>1, <1>2, <1>3

LEMMA AddedTails ==
  ASSUME NEW s, tails[s] \in Seq(TailState), NEW r \in RunId, NEW gate \in Nat
  PROVE  /\ Added(s, r, gate) \in Seq(TailState)
         /\ \A k \in 1 .. Len(Added(s, r, gate)) :
              \/ Added(s, r, gate)[k] = [run |-> r, gate |-> gate, live |-> TRUE]
              \/ \E i \in 1 .. Len(tails[s]) : /\ Added(s, r, gate)[k] = tails[s][i]
                                               /\ tails[s][i].run # r
<1> DEFINE new == [run |-> r, gate |-> gate, live |-> TRUE]
           others == WithoutTail(tails[s], r)
<1>1. new \in TailState
  BY DEF TailState
<1>2. /\ others \in Seq(TailState)
      /\ \A k \in 1 .. Len(others) :
           \E i \in 1 .. Len(tails[s]) : others[k] = tails[s][i] /\ tails[s][i].run # r
  BY OtherTails
<1>3. Len(others) \in Nat
  BY <1>2, LenProperties
<1> HIDE DEF new, others
<1>4. /\ Append(others, new) \in Seq(TailState)
      /\ Len(Append(others, new)) = Len(others) + 1
      /\ \A k \in 1 .. Len(others) : Append(others, new)[k] = others[k]
      /\ Append(others, new)[Len(others) + 1] = new
  BY <1>1, <1>2, AppendProperties
<1>5. Added(s, r, gate) = Append(others, new)
  BY DEF Added, new, others
<1>6. \A k \in 1 .. Len(others) + 1 :
        \/ Append(others, new)[k] = new
        \/ \E i \in 1 .. Len(tails[s]) : Append(others, new)[k] = tails[s][i] /\ tails[s][i].run # r
  BY <1>2, <1>3, <1>4
<1> QED
  BY <1>4, <1>5, <1>6 DEF new

\* Tail t was a live one of socket s before the step.
WasTail(t, s) ==
  \E i \in 1 .. Len(tails[s]) :
    tails[s][i].live /\ tails[s][i].run = t.run /\ tails[s][i].gate = t.gate

HasTerminal(events) == \E i \in DOMAIN events : events[i].event \in TerminalEvents

(* A subscription that is left is one of before, of a retained run, and not *)
(* of a run that the step has ended.                                        *)
LEMMA TailsAfterWere ==
  ASSUME NEW s, tails[s] \in Seq(TailState), NEW r,
         NEW k \in 1 .. Len(TailsAfter(s, r)), TailsAfter(s, r)[k].live
  PROVE  /\ TailsAfter(s, r)[k].run \in DOMAIN runs'
         /\ WasTail(TailsAfter(s, r)[k], s)
         /\ HasTerminal(News(r)) => TailsAfter(s, r)[k].run # r
<1> DEFINE I == DOMAIN tails[s] \ LiveTails(s, r)
           ts == IF HasTerminal(News(r)) THEN Subsequence(tails[s], I) ELSE tails[s]
<1>1. /\ I \in SUBSET DOMAIN tails[s]
      /\ DOMAIN tails[s] = 1 .. Len(tails[s])
      /\ \A i \in I : ~(tails[s][i].run = r /\ tails[s][i].live)
  BY LenProperties DEF LiveTails
<1>2. TailsAfter(s, r) = Retained(ts)
  BY DEF TailsAfter, HasTerminal
<1> HIDE DEF I
<1>3. /\ Subsequence(tails[s], I) \in Seq(TailState)
      /\ \A n \in 1 .. Len(Subsequence(tails[s], I)) :
           \E i \in I : Subsequence(tails[s], I)[n] = tails[s][i]
  BY <1>1, SubsequenceOf
<1>4. /\ ts \in Seq(TailState)
      /\ \A n \in 1 .. Len(ts) : \E i \in 1 .. Len(tails[s]) :
           /\ ts[n] = tails[s][i]
           /\ HasTerminal(News(r)) => ~(tails[s][i].run = r /\ tails[s][i].live)
  <2>1. CASE HasTerminal(News(r))
    <3>1. ts = Subsequence(tails[s], I)
      BY <2>1
    <3> HIDE DEF ts
    <3> QED
      BY <1>1, <1>3, <3>1
  <2>2. CASE ~HasTerminal(News(r))
    BY <2>2
  <2> QED
    BY <2>1, <2>2
<1> HIDE DEF ts
<1>5. /\ Len(Retained(ts)) = Len(ts)
      /\ \A i \in 1 .. Len(ts) :
           /\ Retained(ts)[i].run = ts[i].run
           /\ Retained(ts)[i].gate = ts[i].gate
           /\ Retained(ts)[i].live <=> ts[i].live /\ ts[i].run \in DOMAIN runs'
  BY <1>4, RetainedTails
<1>6. k \in 1 .. Len(ts) /\ ts[k].live /\ ts[k].run \in DOMAIN runs'
  BY <1>2, <1>5
<1>7. PICK i \in 1 .. Len(tails[s]) :
        /\ ts[k] = tails[s][i]
        /\ HasTerminal(News(r)) => ~(tails[s][i].run = r /\ tails[s][i].live)
  BY <1>4, <1>6
<1> QED
  BY <1>2, <1>5, <1>6, <1>7 DEF WasTail

(* What a step that every follower of r hears does to subscriptions, and   *)
(* to the types of the wire.                                               *)
LEMMA NotifyUnfolded ==
  ASSUME StoreTypeOK', tails \in [Socket -> Seq(TailState)], down \in Seq(NamedFrame),
         NEW r \in RunId, NEW t, NEW early \in Seq(NamedFrame), Notify(r, t, early)
  PROVE  /\ tails' \in [Socket -> Seq(TailState)]
         /\ down' \in Seq(NamedFrame)
         /\ \A s \in Socket : \A k \in 1 .. Len(tails'[s]) :
              tails'[s][k].live =>
                /\ tails'[s][k].run \in DOMAIN runs'
                /\ WasTail(tails'[s][k], s)
                /\ HasTerminal(News(r)) => tails'[s][k].run # r
<1>1. tails' = [s \in Socket |-> TailsAfter(s, r)]
  BY DEF Notify
<1>2. tails' \in [Socket -> Seq(TailState)]
  BY <1>1, TailsAfterAreTails
<1>3. \A s \in Socket : \A k \in 1 .. Len(tails'[s]) :
        tails'[s][k].live =>
          /\ tails'[s][k].run \in DOMAIN runs'
          /\ WasTail(tails'[s][k], s)
          /\ HasTerminal(News(r)) => tails'[s][k].run # r
  <2> SUFFICES ASSUME NEW s \in Socket, NEW k \in 1 .. Len(tails'[s]), tails'[s][k].live
               PROVE  /\ tails'[s][k].run \in DOMAIN runs'
                      /\ WasTail(tails'[s][k], s)
                      /\ HasTerminal(News(r)) => tails'[s][k].run # r
    OBVIOUS
  <2>1. tails'[s] = TailsAfter(s, r) /\ tails[s] \in Seq(TailState)
    BY <1>1
  <2> QED
    BY <2>1, TailsAfterWere
<1>4. Announcements(r) \in Seq(NamedFrame)
  BY TransientIsNamed, EmptySeq DEF Announcements
<1>5. \A s : Heard(s, r) \in Seq(NamedFrame)
  BY HeardIsNamed
<1>6. \A s : down \o (IF s = t THEN early ELSE << >>) \o Announcements(r) \o Heard(s, r)
               \in Seq(NamedFrame)
  <2> TAKE s
  <2>1. (IF s = t THEN early ELSE << >>) \in Seq(NamedFrame)
    BY EmptySeq
  <2> QED
    BY <1>4, <1>5, <2>1, ConcatProperties
<1>7. down' \in Seq(NamedFrame)
  BY <1>6 DEF Notify
<1> QED
  BY <1>2, <1>3, <1>7

\* The gate of the tail that Attach makes: what it has replayed.
ReplayGate(log, after) ==
  LET replay == After(log.events, after)
  IN  IF replay = << >> THEN after ELSE Last(replay).cursor

(* What a subscription does to subscriptions, and to the types of the wire. *)
LEMMA AttachUnfolded ==
  ASSUME StoreTypeOK', tails \in [Socket -> Seq(TailState)], down \in Seq(NamedFrame),
         NEW s \in Socket, NEW r \in RunId, r \in DOMAIN runs', NEW after \in Nat,
         Attach(s, r, after)
  PROVE  /\ tails' \in [Socket -> Seq(TailState)]
         /\ down' \in Seq(NamedFrame)
         /\ \A x \in Socket : \A k \in 1 .. Len(tails'[x]) :
              tails'[x][k].live =>
                /\ tails'[x][k].run \in DOMAIN runs'
                /\ \/ WasTail(tails'[x][k], x) /\ (x = s => tails'[x][k].run # r)
                   \/ /\ x = s /\ tails'[x][k].run = r
                      /\ tails'[x][k].gate = ReplayGate(runs'[r], after)
                      /\ ~runs'[r].done
<1> DEFINE log == runs'[r]
           replay == After(log.events, after)
           gate == ReplayGate(log, after)
           added == IF log.done THEN WithoutTail(tails[s], r) ELSE Added(s, r, gate)
<1>1. log.events \in Seq(Event)
  BY DEF StoreTypeOK, RunState, Event
<1>2. replay \in Seq(Event)
  BY <1>1, AfterIsTyped
<1>3. gate \in Nat
  <2>1. ASSUME replay # << >> PROVE Last(replay).cursor \in Nat
    <3>1. Len(replay) \in Nat \ {0}
      BY <1>2, <2>1, EmptySeq
    <3>2. Len(replay) \in 1 .. Len(replay)
      BY <3>1
    <3>3. replay[Len(replay)] \in Event
      BY <1>2, <3>2, ElementOfSeq
    <3> QED
      BY <3>3 DEF Last, Event
  <2> QED
    BY <2>1 DEF ReplayGate
<1>4. /\ tails' = [x \in Socket |-> Retained(IF x = s THEN Kept(added) ELSE tails[x])]
      /\ Emit(s, Forwarded(r, replay) \o
                 IF log.done THEN << >> ELSE PendingApprovalBefore(r, log.events, after))
  BY DEF Attach, Added, Kept, ReplayGate
<1>5. tails[s] \in Seq(TailState)
  OBVIOUS
<1>6. /\ added \in Seq(TailState)
      /\ \A k \in 1 .. Len(added) :
           \/ added[k] = [run |-> r, gate |-> gate, live |-> TRUE] /\ ~log.done
           \/ \E i \in 1 .. Len(tails[s]) : added[k] = tails[s][i] /\ tails[s][i].run # r
  <2>1. CASE log.done
    <3>1. added = WithoutTail(tails[s], r)
      BY <2>1
    <3> HIDE DEF added
    <3> QED
      BY <1>5, <3>1, OtherTails
  <2>2. CASE ~log.done
    <3>1. added = Added(s, r, gate)
      BY <2>2
    <3> HIDE DEF added, gate, log
    <3> QED
      BY <1>3, <1>5, <2>2, <3>1, AddedTails
  <2> QED
    BY <2>1, <2>2
<1>7. Emit(s, Forwarded(r, replay) \o
              IF log.done THEN << >> ELSE PendingApprovalBefore(r, log.events, after))
        => down' \in Seq(NamedFrame)
  <2>1. Forwarded(r, replay) \in Seq(NamedFrame)
    BY <1>2, ForwardedIsNamed
  <2>2. PendingApprovalBefore(r, log.events, after) \in Seq(NamedFrame)
    BY <1>1, PendingApprovalIsNamed
  <2>3. (IF log.done THEN << >> ELSE PendingApprovalBefore(r, log.events, after))
           \in Seq(NamedFrame)
    BY <2>2, EmptySeq
  <2> HIDE DEF log, replay
  <2> QED
    BY <2>1, <2>3, ConcatProperties DEF Emit
<1>8. down' \in Seq(NamedFrame)
  BY <1>4, <1>7
<1> HIDE DEF added, gate, replay, log
<1> DEFINE before(x) == IF x = s THEN Kept(added) ELSE tails[x]
<1>9. ASSUME NEW x \in Socket
      PROVE  /\ before(x) \in Seq(TailState)
             /\ \A k \in 1 .. Len(before(x)) :
                  \/ \E i \in 1 .. Len(tails[x]) : /\ before(x)[k] = tails[x][i]
                                                   /\ x = s => tails[x][i].run # r
                  \/ x = s /\ ~log.done /\ before(x)[k] = [run |-> r, gate |-> gate, live |-> TRUE]
  <2>1. CASE x = s
    <3>1. /\ Kept(added) \in Seq(TailState)
          /\ \A k \in 1 .. Len(Kept(added)) : \E i \in 1 .. Len(added) : Kept(added)[k] = added[i]
      BY <1>6, KeptTails
    <3>2. before(x) = Kept(added)
      BY <2>1
    <3>3. ASSUME NEW k \in 1 .. Len(Kept(added))
          PROVE  \/ \E i \in 1 .. Len(tails[s]) : /\ Kept(added)[k] = tails[s][i]
                                                  /\ tails[s][i].run # r
                 \/ ~log.done /\ Kept(added)[k] = [run |-> r, gate |-> gate, live |-> TRUE]
      <4>1. PICK i \in 1 .. Len(added) : Kept(added)[k] = added[i]
        BY <3>1
      <4> QED
        BY <1>6, <4>1
    <3> HIDE DEF before
    <3> QED
      BY <2>1, <3>1, <3>2, <3>3, Zenon
  <2>2. CASE x # s
    BY <2>2
  <2> QED
    BY <2>1, <2>2
<1>10. tails' = [x \in Socket |-> Retained(before(x))]
  BY <1>4
<1> HIDE DEF before
<1>11. \A x \in Socket :
         /\ Retained(before(x)) \in Seq(TailState)
         /\ Len(Retained(before(x))) = Len(before(x))
         /\ \A i \in 1 .. Len(before(x)) :
              /\ Retained(before(x))[i].run = before(x)[i].run
              /\ Retained(before(x))[i].gate = before(x)[i].gate
              /\ Retained(before(x))[i].live
                   <=> before(x)[i].live /\ before(x)[i].run \in DOMAIN runs'
  BY <1>9, RetainedTails
<1>12. tails' \in [Socket -> Seq(TailState)]
  BY <1>10, <1>11
<1>13. ASSUME NEW x \in Socket, NEW k \in 1 .. Len(tails'[x]), tails'[x][k].live
       PROVE  /\ tails'[x][k].run \in DOMAIN runs'
              /\ \/ WasTail(tails'[x][k], x) /\ (x = s => tails'[x][k].run # r)
                 \/ /\ x = s /\ tails'[x][k].run = r
                    /\ tails'[x][k].gate = gate
                    /\ ~log.done
  <2>1. /\ k \in 1 .. Len(before(x))
        /\ tails'[x][k].run = before(x)[k].run
        /\ tails'[x][k].gate = before(x)[k].gate
        /\ before(x)[k].live /\ before(x)[k].run \in DOMAIN runs'
    BY <1>10, <1>11, <1>13
  <2>2. CASE \E i \in 1 .. Len(tails[x]) : /\ before(x)[k] = tails[x][i]
                                           /\ x = s => tails[x][i].run # r
    BY <2>1, <2>2 DEF WasTail
  <2>3. CASE x = s /\ ~log.done /\ before(x)[k] = [run |-> r, gate |-> gate, live |-> TRUE]
    BY <2>1, <2>3
  <2> QED
    BY <1>9, <2>1, <2>2, <2>3
<1> QED
  BY <1>8, <1>12, <1>13 DEF gate, log

(* The handlers of the tab.                                                *)
LEMMA NoCardIsNamed == NoCard \in NamedCard
BY DEF NoCard, NamedCard

LEMMA NewTabIsNamed == NewTab \in NamedTab
BY NoCardIsNamed, EmptySeq DEF NewTab, NamedTab, TabState, NamedCard

LEMMA UserKeepsTab ==
  ASSUME NEW t \in NamedTab
  PROVE  Issued(t) \in NamedTab /\ Detached(t) \in NamedTab
         /\ Responded(t) \in NamedTab /\ Reloaded(t) \in NamedTab
<1> USE NoCardIsNamed, EmptySeq DEF NamedTab, TabState
<1>1. Issued(t) \in NamedTab
  BY DEF Issued
<1>2. Detached(t) \in NamedTab
  BY DEF Detached, NamedCard
<1>3. Responded(t) \in NamedTab
  BY DEF Responded, NamedCard
<1>4. Reloaded(t) \in NamedTab
  BY NewTabIsNamed DEF Reloaded, NewTab
<1> QED
  BY <1>1, <1>2, <1>3, <1>4

\* A frame that belongs to a run.
RunFrames == {f \in WireFrame : f.run \in RunId /\ f.event \in LogEvents \cup {"run.stopping"}}

LEMMA ShownKeepsTab ==
  ASSUME NEW t \in NamedTab, NEW f \in RunFrames
  PROVE  Shown(t, f) \in NamedTab
<1> USE NoCardIsNamed DEF NamedTab, TabState
<1>1. [run |-> f.run, gate |-> f.gate] \in NamedCard /\ f.run \in RunId
  BY DEF NamedCard, RunFrames, WireFrame
<1>2. [t EXCEPT !.shown = f.run, !.status = "running", !.card = NoCard] \in NamedTab
  BY <1>1 DEF NamedCard
<1>3. [t EXCEPT !.working = TRUE] \in NamedTab
  BY DEF NamedCard
<1>4. [t EXCEPT !.card = [run |-> f.run, gate |-> f.gate]] \in NamedTab
  BY <1>1 DEF NamedCard
<1>5. [t EXCEPT !.card = NoCard] \in NamedTab
  BY DEF NamedCard
<1>6. [t EXCEPT !.status = IF @ = "idle" THEN @ ELSE "stopping"] \in NamedTab
  <2> DEFINE next == IF t.status = "idle" THEN t.status ELSE "stopping"
  <2>1. next \in {"idle", "running", "stopping"}
    OBVIOUS
  <2> HIDE DEF next
  <2>2. [t EXCEPT !.status = next] \in NamedTab
    BY <2>1 DEF NamedCard
  <2> QED
    BY <2>2 DEF next
<1>7. [t EXCEPT !.status = "idle", !.working = FALSE, !.card = NoCard] \in NamedTab
  BY DEF NamedCard
<1> HIDE DEF NamedTab
<1> QED
  BY <1>2, <1>3, <1>4, <1>5, <1>6, <1>7 DEF Shown, RunFrames, LogEvents, TerminalEvents

LEMMA AppliedKeepsTab ==
  ASSUME NEW t \in NamedTab, NEW f \in RunFrames
  PROVE  Applied(t, f) \in NamedTab
<1> DEFINE over == f.event \in TerminalEvents
           c == IF f.cursor = 0 THEN t.cursor ELSE f.cursor
           a == IF f.cursor = 0 THEN t.applied ELSE Append(t.applied, <<f.run, f.cursor>>)
           d == t.done \/ over
           w == IF over THEN None ELSE t.run
           l == IF f.event = "approval.responded" THEN NoCard ELSE t.cleared
           kept == [t EXCEPT !.cursor = c, !.applied = a, !.done = d, !.saved = w, !.cleared = l]
<1>1. c \in Nat /\ w \in RunId \cup {None} /\ l \in NamedCard
  BY NoCardIsNamed DEF NamedTab, TabState, RunFrames, WireFrame
<1>2. a \in Seq(RunId \X Nat)
  <2>1. t.applied \in Seq(RunId \X Nat) /\ <<f.run, f.cursor>> \in RunId \X Nat
    BY DEF NamedTab, TabState, RunFrames, WireFrame
  <2> QED
    BY <2>1, AppendProperties
<1>3. d \in BOOLEAN
  BY Zenon DEF NamedTab, TabState
<1>4. Applied(t, f) = Shown(kept, f)
  BY DEF Applied
<1> HIDE DEF c, a, d, w, l
<1>5. kept \in NamedTab
  BY <1>1, <1>2, <1>3 DEF NamedTab, TabState, NamedCard
<1> HIDE DEF kept
<1> QED
  BY <1>4, <1>5, ShownKeepsTab

LEMMA RunFrameKeepsTab ==
  ASSUME NEW t \in NamedTab, NEW f \in RunFrames
  PROVE  RunFrame(t, f) \in NamedTab
<1> DEFINE own == [t EXCEPT !.run = f.run, !.done = FALSE, !.expecting = FALSE]
<1>1. own \in NamedTab
  BY DEF NamedTab, TabState, RunFrames
<1>2. Applied(t, f) \in NamedTab
  BY AppliedKeepsTab
<1> HIDE DEF own
<1>3. Applied(own, f) \in NamedTab
  BY <1>1, AppliedKeepsTab
<1> QED
  BY <1>1, <1>2, <1>3 DEF RunFrame, own

LEMMA ReceivedKeepsTab ==
  ASSUME NEW t \in NamedTab, NEW f \in NamedFrame
  PROVE  Received(t, f) \in NamedTab
<1>1. f \in WireFrame /\ (f.event \in Rejections \/ f.run \in RunId)
  BY DEF NamedFrame
<1>2. CASE f.event \in {"approval.pending", "approval.cleared"}
  <2>1. f.event \notin Rejections
    BY <1>2, RejectionsAreFour
  <2>2. /\ [t EXCEPT !.inbox = @ \cup {f.run}] \in NamedTab
        /\ [t EXCEPT !.inbox = @ \ {f.run}] \in NamedTab
    BY <1>1, <2>1 DEF NamedTab, TabState
  <2> QED
    BY <1>2, <2>2 DEF Received
<1>3. CASE f.event \in Rejections
  <2>1. /\ [t EXCEPT !.card = t.cleared, !.cleared = NoCard] \in NamedTab
        /\ [t EXCEPT !.status = "idle", !.working = FALSE, !.card = NoCard] \in NamedTab
    BY NoCardIsNamed DEF NamedTab, TabState, NamedCard
  <2>2. Failed(t, f.event) \in NamedTab
    BY <2>1 DEF Failed
  <2>3. /\ f.event \in {"run rejected", "resume rejected", "abort rejected", "respond rejected"}
        /\ f.event # "approval.pending" /\ f.event # "approval.cleared"
    BY <1>3, RejectionsAreFour
  <2> QED
    BY <2>2, <2>3 DEF Received
<1>4. CASE f.event \notin Rejections /\ f.event \notin {"approval.pending", "approval.cleared"}
  <2>1. f \in RunFrames
    BY <1>1, <1>4 DEF RunFrames, WireFrame
  <2>2. Received(t, f) = RunFrame(t, f)
    BY <1>4, RejectionsAreFour DEF Received
  <2> QED
    BY <2>1, <2>2, RunFrameKeepsTab
<1> QED
  BY <1>2, <1>3, <1>4

-----------------------------------------------------------------------------
(***************************************************************************)
(* What a step does to the logs: it touches that of one run at most.       *)
(***************************************************************************)
\* The log of x is as it was, or it has left the store.
SameLog(x) ==
  x \in DOMAIN runs' =>
    /\ x \in DOMAIN runs
    /\ runs'[x].events = runs[x].events
    /\ runs'[x].cursor = runs[x].cursor
    /\ runs'[x].done = runs[x].done

LostLogs == lost' = lost \cup {x \in DOMAIN runs \ DOMAIN runs' : runs[x].cursor > 0}

OnlyLog(r) == LostLogs /\ \A x : x # r => SameLog(x)

LogsKept == LostLogs /\ \A x : SameLog(x)

\* The log that an append finds.
Base(r) == IF Has(r) THEN runs[r] ELSE FreshRun

Extends(r, e) == r \in DOMAIN runs' /\ runs'[r] = Logged(Base(r), e)

LEMMA StoreOfInductive == Inductive => StoreInv
BY DEF Inductive, TypeOK, StoreInv

LEMMA EnsuredLogs ==
  ASSUME NEW r, NEW rs \in Ensured(r)
  PROVE  /\ r \in DOMAIN rs
         /\ rs[r] = Base(r)
         /\ \A x \in DOMAIN rs : x # r => x \in DOMAIN runs /\ rs[x] = runs[x]
<1>1. CASE Has(r)
  BY <1>1 DEF Ensured, Base, Has
<1>2. CASE ~Has(r)
  <2>1. /\ DOMAIN Inserted(r) = DOMAIN runs \cup {r}
        /\ Inserted(r)[r] = FreshRun
        /\ \A x \in DOMAIN Inserted(r) : x # r => x \in DOMAIN runs /\ Inserted(r)[x] = runs[x]
    BY DEF Inserted
  <2>2. CASE rs = Inserted(r)
    BY <1>2, <2>1, <2>2 DEF Base
  <2>3. CASE \E v \in Victims(Inserted(r), r) : rs = Without(Inserted(r), v)
    <3>1. PICK v \in Victims(Inserted(r), r) : rs = Without(Inserted(r), v)
      BY <2>3
    <3>2. v # r
      BY DEF Victims
    <3>3. /\ DOMAIN rs = DOMAIN Inserted(r) \ {v}
          /\ \A x \in DOMAIN rs : rs[x] = Inserted(r)[x]
      BY <3>1 DEF Without
    <3> QED
      BY <1>2, <2>1, <3>2, <3>3 DEF Base
  <2> QED
    BY <1>2, <2>2, <2>3 DEF Ensured
<1> QED
  BY <1>1, <1>2

\* A change of the store that leaves log as that of r.
LEMMA ReplaceMoves ==
  ASSUME NEW r, NEW rs \in Ensured(r), NEW log, StoreStep([rs EXCEPT ![r] = log])
  PROVE  OnlyLog(r) /\ r \in DOMAIN runs' /\ runs'[r] = log
<1>1. /\ r \in DOMAIN rs
      /\ \A x \in DOMAIN rs : x # r => x \in DOMAIN runs /\ rs[x] = runs[x]
  BY EnsuredLogs
<1>2. /\ DOMAIN runs' = DOMAIN rs
      /\ runs'[r] = log
      /\ \A x \in DOMAIN rs : x # r => runs'[x] = rs[x]
      /\ LostLogs
  BY <1>1 DEF StoreStep, LostLogs
<1> QED
  BY <1>1, <1>2 DEF OnlyLog, SameLog

LEMMA AppendMoves ==
  ASSUME NEW r, NEW e, StoreAppend(r, e)
  PROVE  OnlyLog(r) /\ Extends(r, e)
<1>1. PICK rs \in Ensured(r) : StoreStep([rs EXCEPT ![r] = Logged(rs[r], e)])
  BY DEF StoreAppend
<1>2. rs[r] = Base(r)
  BY EnsuredLogs
<1> QED
  BY <1>1, <1>2, ReplaceMoves DEF Extends

LEMMA SameStoreMoves ==
  ASSUME UNCHANGED storeVars
  PROVE  LogsKept
BY DEF storeVars, LogsKept, LostLogs, SameLog

LEMMA PumpMoves ==
  ASSUME NEW p \in PumpId, PumpStep(p), NEW r, r = stream[p].run
  PROVE  \/ LogsKept
         \/ OnlyLog(r) /\ \E e \in LogEvents \ {"run.started"} : Extends(r, e)
<1>1. ASSUME NEW raw \in RawFrames, Frame(p, raw)
      PROVE  \/ LogsKept
             \/ OnlyLog(r) /\ \E e \in LogEvents \ {"run.started"} : Extends(r, e)
  <2> DEFINE e == MapGatewayEvent(raw)
  <2>1. CASE UNCHANGED storeVars
    BY <2>1, SameStoreMoves
  <2>2. CASE StoreBroadcast(r)
    BY <2>2 DEF StoreBroadcast, LogsKept, LostLogs, SameLog, Has
  <2>3. CASE e \in LogEvents /\ StoreAppend(r, e)
    <3>1. e # "run.started"
      BY GatewayAssumption DEF GatewayAssumption, MapGatewayEvent, Dropped
    <3> HIDE DEF e
    <3> QED
      BY <2>3, <3>1, AppendMoves
  <2> QED
    BY <1>1, <2>1, <2>2, <2>3 DEF Frame
<1>2. CASE StreamEnd(p) \/ StreamError(p)
  <2>1. "run.failed" \in LogEvents \ {"run.started"}
    BY DEF LogEvents, TerminalEvents
  <2>2. UNCHANGED storeVars \/ StoreAppend(r, "run.failed")
    BY <1>2 DEF StreamEnd, StreamError, AppendUnlessDone
  <2> QED
    BY <2>1, <2>2, SameStoreMoves, AppendMoves
<1> QED
  BY <1>1, <1>2 DEF PumpStep

LEMMA CancelMoves ==
  ASSUME NEW r, Abort(r) \/ Reap(r)
  PROVE  \/ LogsKept
         \/ OnlyLog(r) /\ \E e \in LogEvents \ {"run.started"} : Extends(r, e)
<1>1. {"run.cancelled", "run.failed"} \subseteq LogEvents \ {"run.started"}
  BY DEF LogEvents, TerminalEvents
<1>2. \/ UNCHANGED storeVars
      \/ StoreAppend(r, "run.cancelled")
      \/ StoreAppend(r, "run.failed")
  BY DEF Abort, Reap, Cancel, AppendUnlessDone
<1> QED
  BY <1>1, <1>2, SameStoreMoves, AppendMoves

LEMMA TimeMoves ==
  ASSUME StoreTypeOK, StoreTimer \/ Tick
  PROVE  LogsKept
<1>1. ASSUME NEW r, StoreStep(Without(runs, r))
      PROVE  LogsKept
  BY <1>1 DEF StoreStep, Without, LogsKept, LostLogs, SameLog
<1>2. CASE StoreTimer
  BY <1>1, <1>2 DEF StoreTimer, Retired, EvictTerminal, SweepIdle
<1>3. CASE Tick
  <2>1. DOMAIN runs' = DOMAIN runs /\ lost' = lost
    BY <1>3 DEF Tick, Aged
  <2> DEFINE age(x) == IF runs[x].idle > IdleTtl THEN runs[x].idle ELSE runs[x].idle + 1
  <2>2. \A x \in DOMAIN runs : runs[x] \in RunState /\ runs'[x] = [runs[x] EXCEPT !.idle = age(x)]
    BY <1>3 DEF Tick, Aged, StoreTypeOK
  <2> HIDE DEF age
  <2>3. \A x \in DOMAIN runs : /\ runs'[x].events = runs[x].events
                               /\ runs'[x].cursor = runs[x].cursor
                               /\ runs'[x].done = runs[x].done
    BY <2>2 DEF RunState
  <2> QED
    BY <2>1, <2>3 DEF LogsKept, LostLogs, SameLog
<1> QED
  BY <1>2, <1>3

LEMMA StartMoves ==
  ASSUME NEW r, Start(r)
  PROVE  /\ ~Has(r) /\ r \notin lost
         /\ OnlyLog(r)
         /\ r \in DOMAIN runs'
         /\ \/ runs'[r] = Logged(FreshRun, "run.started")
            \/ runs'[r] = Logged(Logged(FreshRun, "run.started"), "run.failed")
<1>1. ~Has(r) /\ r \notin lost /\ Base(r) = FreshRun
  BY DEF Start, Base
<1>2. CASE StoreAppend(r, "run.started")
  BY <1>1, <1>2, AppendMoves DEF Extends
<1>3. CASE \E rs \in Ensured(r) :
             StoreStep([rs EXCEPT ![r] = Logged(Logged(rs[r], "run.started"), "run.failed")])
  <2>1. PICK rs \in Ensured(r) :
          StoreStep([rs EXCEPT ![r] = Logged(Logged(rs[r], "run.started"), "run.failed")])
    BY <1>3
  <2>2. rs[r] = FreshRun
    BY <1>1, EnsuredLogs
  <2> QED
    BY <1>1, <2>1, <2>2, ReplaceMoves
<1> QED
  BY <1>2, <1>3 DEF Start

LEMMA RebeginMoves ==
  ASSUME NEW r, Rebegin(r)
  PROVE  ~Has(r) /\ OnlyLog(r) /\ r \in DOMAIN runs' /\ runs'[r] = FreshRun
<1>1. ~Has(r) /\ Base(r) = FreshRun
  BY DEF Rebegin, Base
<1>2. PICK rs \in Ensured(r) : StoreStep(rs)
  BY DEF Rebegin, StoreEnsure
<1>3. /\ r \in DOMAIN rs
      /\ rs[r] = FreshRun
      /\ \A x \in DOMAIN rs : x # r => x \in DOMAIN runs /\ rs[x] = runs[x]
  BY <1>1, EnsuredLogs
<1> QED
  BY <1>1, <1>2, <1>3 DEF StoreStep, OnlyLog, LostLogs, SameLog

(* What a log has to say after cursor k.                                   *)
LEMMA AfterIsSuffix ==
  ASSUME NEW log, log.events \in Seq(Event), log.cursor \in Nat, GapFree(log), NEW k \in Nat
  PROVE  /\ After(log.events, k) \in Seq(Event)
         /\ k >= log.cursor => After(log.events, k) = << >>
         /\ log.cursor - Len(log.events) <= k /\ k <= log.cursor =>
              /\ Len(After(log.events, k)) = log.cursor - k
              /\ \A i \in 1 .. log.cursor - k :
                   After(log.events, k)[i] = log.events[Len(log.events) - (log.cursor - k) + i]
<1> DEFINE I == {i \in DOMAIN log.events : log.events[i].cursor > k}
           n == Len(log.events)
           c == log.cursor
<1>1. n \in Nat /\ DOMAIN log.events = 1 .. n /\ c \in Nat
  BY LenProperties
<1>2. \A i \in 1 .. n : log.events[i].cursor = c - n + i
  BY DEF GapFree
<1> HIDE DEF n, c
<1>3. I = {i \in 1 .. n : c - n + i > k}
  BY <1>1, <1>2
<1>4. I \in SUBSET DOMAIN log.events
  OBVIOUS
<1> HIDE DEF I
<1>5. After(log.events, k) = Subsequence(log.events, I) /\ After(log.events, k) \in Seq(Event)
  BY AfterIsTyped DEF After, I
<1>6. ASSUME k >= c PROVE After(log.events, k) = << >>
  <2>1. I = {}
    BY <1>1, <1>3, <1>6
  <2>2. Len(After(log.events, k)) = 0
    BY <1>4, <1>5, <2>1, SubsequenceOf, FS_EmptySet
  <2> QED
    BY <1>5, <2>2, EmptySeq
<1>7. ASSUME c - n <= k, k <= c
      PROVE  /\ Len(After(log.events, k)) = c - k
             /\ \A i \in 1 .. c - k : After(log.events, k)[i] = log.events[n - (c - k) + i]
  <2> DEFINE a == n - (c - k)
  <2>1. a \in 0 .. n /\ n - a = c - k
    BY <1>1, <1>7
  <2>2. I = a + 1 .. n
    <3>1. \A i \in 1 .. n : c - n + i > k <=> i > a
      BY <1>1
    <3>2. {i \in 1 .. n : i > a} = a + 1 .. n
      BY <1>1, <2>1
    <3> HIDE DEF a
    <3> QED
      BY <1>3, <3>1, <3>2
  <2>4. n = Len(log.events)
    BY DEF n
  <2> HIDE DEF a
  <2>3. /\ Len(Subsequence(log.events, I)) = n - a
        /\ \A i \in 1 .. n - a : Subsequence(log.events, I)[i] = log.events[a + i]
    <3>1. a \in 0 .. Len(log.events) /\ I = a + 1 .. Len(log.events)
      BY <2>1, <2>2, <2>4
    <3>2. /\ Len(Subsequence(log.events, a + 1 .. Len(log.events))) = Len(log.events) - a
          /\ \A i \in 1 .. Len(log.events) - a :
               Subsequence(log.events, a + 1 .. Len(log.events))[i] = log.events[a + i]
      BY <3>1, SubsequenceSuffix
    <3> QED
      BY <2>4, <3>1, <3>2
  <2> QED
    BY <1>5, <2>1, <2>3 DEF a
<1> QED
  BY <1>5, <1>6, <1>7 DEF n, c

\* The event that an append to log ends it with.
LEMMA LoggedEnds ==
  ASSUME NEW s \in RunState, GapFree(s), NEW e \in LogEvents
  PROVE  /\ Len(Logged(s, e).events) \in Nat \ {0}
         /\ Logged(s, e).events[Len(Logged(s, e).events)] = [cursor |-> s.cursor + 1, event |-> e]
         /\ Logged(s, e).cursor = s.cursor + 1
         /\ Logged(s, e).done <=> s.done \/ e \in TerminalEvents
<1> DEFINE new == [cursor |-> s.cursor + 1, event |-> e]
           long == Append(s.events, new)
<1>1. s.events \in Seq(Event) /\ new \in Event
  BY DEF RunState, Event
<1>2. Len(s.events) \in Nat
  BY <1>1, LenProperties
<1> HIDE DEF new
<1>3. /\ long \in Seq(Event)
      /\ Len(long) = Len(s.events) + 1
      /\ long[Len(long)] = new
  BY <1>1, <1>2, AppendProperties
<1> HIDE DEF long
<1>4. /\ Len(Capped(long)) \in Nat \ {0}
      /\ Capped(long)[Len(Capped(long))] = new
  <2>1. CASE Len(long) <= MaxEvents
    BY <1>2, <1>3, <2>1 DEF Capped
  <2>2. CASE ~(Len(long) <= MaxEvents)
    <3> DEFINE m == Len(long) - MaxEvents + 1
    <3>1. m \in 1 .. Len(long) /\ Len(long) \in Nat /\ Len(long) - m + 1 = MaxEvents
      BY <1>2, <1>3, <2>2, RunStoreAssumption DEF RunStoreAssumption
    <3>2. \A i \in m .. Len(long) : long[i] \in Event
      <4> SUFFICES ASSUME NEW i \in m .. Len(long) PROVE long[i] \in Event
        OBVIOUS
      <4>1. i \in 1 .. Len(long)
        BY <3>1
      <4> QED
        BY <1>3, <4>1, ElementOfSeq
    <3>3. Capped(long) = SubSeq(long, m, Len(long))
      BY <2>2 DEF Capped
    <3> HIDE DEF m
    <3>4. /\ Len(SubSeq(long, m, Len(long))) = Len(long) - m + 1
          /\ \A i \in 1 .. Len(long) - m + 1 : SubSeq(long, m, Len(long))[i] = long[m + i - 1]
      BY <3>1, <3>2, SubSeqProperties
    <3>5. m + MaxEvents - 1 = Len(long) /\ MaxEvents \in 1 .. MaxEvents
      BY <3>1, RunStoreAssumption DEF RunStoreAssumption
    <3>6. SubSeq(long, m, Len(long))[MaxEvents] = long[Len(long)]
      BY <3>1, <3>4, <3>5
    <3> QED
      BY <1>3, <3>1, <3>3, <3>4, <3>6, RunStoreAssumption DEF RunStoreAssumption
  <2> QED
    BY <2>1, <2>2
<1>5. Logged(s, e).events = Capped(long)
  BY DEF Logged, long, new
<1>6. Logged(s, e).cursor = s.cursor + 1 /\ Logged(s, e).done = (s.done \/ e \in TerminalEvents)
  BY DEF Logged
<1> QED
  BY <1>4, <1>5, <1>6 DEF new

LEMMA FreshIsALog == FreshRun \in RunState /\ GapFree(FreshRun)
<1>1. << >> \in Seq([cursor : Nat, event : LogEvents]) /\ Len(<< >>) = 0
  BY EmptySeq
<1> QED
  BY <1>1, RunStoreAssumption DEF FreshRun, RunState, GapFree, RunStoreAssumption

LEMMA BaseIsALog ==
  ASSUME StoreInv, NEW r
  PROVE  Base(r) \in RunState /\ GapFree(Base(r))
BY FreshIsALog DEF StoreInv, StoreTypeOK, LogIsGapFree, Base, Has

(* The followers of a run hear what is appended to it.                     *)
LEMMA NoNews ==
  ASSUME StoreInv, NEW r, SameLog(r)
  PROVE  News(r) = << >>
<1>1. CASE r \in DOMAIN runs'
  <2>1. /\ runs[r].events \in Seq(Event) /\ runs[r].cursor \in Nat /\ GapFree(runs[r])
        /\ r \in DOMAIN runs
    BY <1>1, LogIsTyped DEF SameLog, StoreInv, LogIsGapFree
  <2>2. runs[r].cursor >= runs[r].cursor
    BY <2>1
  <2>3. After(runs[r].events, runs[r].cursor) = << >>
    BY <2>1, <2>2, AfterIsSuffix
  <2>4. News(r) = After(runs[r].events, runs[r].cursor)
    BY <1>1, <2>1 DEF News, SameLog, Has
  <2> QED
    BY <2>3, <2>4
<1>2. CASE r \notin DOMAIN runs'
  BY <1>2 DEF News
<1> QED
  BY <1>1, <1>2

LEMMA NewsOfAppend ==
  ASSUME StoreInv, NEW r, NEW e \in LogEvents, Extends(r, e)
  PROVE  News(r) = <<[cursor |-> Base(r).cursor + 1, event |-> e]>>
<1> DEFINE log == Logged(Base(r), e)
           k == Base(r).cursor
           last == [cursor |-> Base(r).cursor + 1, event |-> e]
<1>1. Base(r) \in RunState /\ GapFree(Base(r)) /\ k \in Nat
  BY BaseIsALog DEF RunState
<1>2. log \in RunState /\ GapFree(log)
  BY <1>1, LoggedIsGapFree
<1>3. /\ Len(log.events) \in Nat \ {0}
      /\ log.events[Len(log.events)] = last
      /\ log.cursor = k + 1
  BY <1>1, LoggedEnds
<1>4. log.events \in Seq(Event) /\ log.cursor \in Nat
  BY <1>2 DEF RunState, Event
<1>5. k = IF Has(r) THEN runs[r].cursor ELSE 0
  BY DEF Base, FreshRun
<1>6. News(r) = After(log.events, k)
  BY <1>5 DEF News, Extends
<1> HIDE DEF log, k, last
<1>7. log.cursor - Len(log.events) <= k /\ k <= log.cursor /\ log.cursor - k = 1
  BY <1>1, <1>3
<1>8. /\ After(log.events, k) \in Seq(Event)
      /\ Len(After(log.events, k)) = 1
      /\ After(log.events, k)[1] = log.events[Len(log.events)]
  <2>1. /\ After(log.events, k) \in Seq(Event)
        /\ Len(After(log.events, k)) = log.cursor - k
        /\ \A i \in 1 .. log.cursor - k :
             After(log.events, k)[i] = log.events[Len(log.events) - (log.cursor - k) + i]
    BY <1>1, <1>2, <1>4, <1>7, AfterIsSuffix
  <2>2. Len(log.events) - 1 + 1 = Len(log.events) /\ 1 \in 1 .. 1
    BY <1>3
  <2> QED
    BY <1>7, <2>1, <2>2
<1>9. After(log.events, k) = <<last>>
  BY <1>3, <1>8
<1> QED
  BY <1>6, <1>9 DEF last

(* An iteration that takes a step was launched, for a run.                 *)
LEMMA PumpedRunIsARun ==
  ASSUME Inductive, NEW p \in PumpId, PumpStep(p)
  PROVE  stream[p].run \in RunId /\ stream[p].phase = "streaming"
<1>1. Streaming(p)
  BY DEF PumpStep, Frame, StreamEnd, StreamError
<1> QED
  BY <1>1 DEF Streaming, Inductive, OnePumpPerRun

(* The commands of the tab.                                                *)
LEMMA EmitsIsTyped ==
  ASSUME up \in Seq(Command), NEW do \in {"run", "resume", "abort", "respond"},
         NEW r \in RunId, NEW k \in Nat, Emits(do, r, k)
  PROVE  up' \in Seq(Command)
<1>1. [do |-> do, run |-> r, cursor |-> k] \in Command
  BY DEF Command
<1> QED
  BY <1>1, AppendProperties DEF Emits

LEMMA UserKeepsTypes ==
  ASSUME TypeInv, TypeOK', (\E r \in RunId : Send(r)) \/ Stop \/ Respond \/ NewChat
  PROVE  TypeInv'
<1>0. tab \in NamedTab /\ up \in Seq(Command)
  BY DEF TypeInv
<1>1. CASE \E r \in RunId : Send(r)
  <2>1. PICK r \in RunId : Send(r)
    BY <1>1
  <2>2. up' \in Seq(Command)
    BY <1>0, <2>1, EmitsIsTyped DEF Send
  <2>3. tab' \in NamedTab
    BY <1>0, <2>1, UserKeepsTab DEF Send
  <2> QED
    BY <2>1, <2>2, <2>3 DEF TypeInv, Send, wireVars
<1>2. CASE Stop
  <2>1. tab.run \in RunId
    BY <1>0, <1>2 DEF Stop, NamedTab, TabState
  <2>2. up' \in Seq(Command)
    BY <1>0, <1>2, <2>1, EmitsIsTyped DEF Stop
  <2> QED
    BY <1>2, <2>2 DEF TypeInv, Stop, wireVars
<1>3. CASE Respond
  <2>1. tab.card.run \in RunId /\ tab.card.gate \in Nat
    BY <1>0, <1>3 DEF Respond, NamedTab, NamedCard
  <2>2. up' \in Seq(Command)
    BY <1>0, <1>3, <2>1, EmitsIsTyped DEF Respond
  <2>3. tab' \in NamedTab
    BY <1>0, <1>3, UserKeepsTab DEF Respond
  <2> QED
    BY <1>3, <2>2, <2>3 DEF TypeInv, Respond, wireVars
<1>4. CASE NewChat
  <2>1. tab' \in NamedTab
    BY <1>0, <1>4, UserKeepsTab DEF NewChat
  <2> QED
    BY <1>4, <2>1 DEF TypeInv, NewChat, wireVars
<1> QED
  BY <1>1, <1>2, <1>3, <1>4

LEMMA ConnectionKeepsTypes ==
  ASSUME TypeInv, TypeOK', Lose \/ Reload \/ Connect \/ Receive
  PROVE  TypeInv'
<1>0. /\ tab \in NamedTab /\ up \in Seq(Command) /\ down \in Seq(NamedFrame)
      /\ link \in [Socket -> {"unused", "open", "gone", "closed"}]
      /\ << >> \in Seq(Command) /\ << >> \in Seq(NamedFrame)
  BY EmptySeq DEF TypeInv
<1>1. CASE Lose
  BY <1>0, <1>1 DEF TypeInv, Lose, LinkLost
<1>2. CASE Reload
  <2>1. tab' \in NamedTab /\ up' = << >>
    BY <1>0, <1>2, UserKeepsTab DEF Reload
  <2>2. /\ link' \in [Socket -> {"unused", "open", "gone", "closed"}]
        /\ down' \in Seq(NamedFrame)
        /\ UNCHANGED <<tails, calls>>
    BY <1>0, <1>2 DEF Reload, LinkLost, wireVars
  <2>3. UNCHANGED <<asked, left, answered>>
    BY <1>2 DEF Reload
  <2> QED
    BY <1>0, <2>1, <2>2, <2>3 DEF TypeInv
<1>3. CASE Connect
  <2>1. ASSUME tab.run # None
        PROVE  [do |-> "resume", run |-> tab.run, cursor |-> tab.cursor] \in Command
    BY <1>0, <2>1 DEF Command, NamedTab, TabState
  <2>2. up' \in Seq(Command)
    BY <1>0, <1>3, <2>1, AppendProperties DEF Connect, Resumption
  <2>3. link' \in [Socket -> {"unused", "open", "gone", "closed"}]
    BY <1>0, <1>3 DEF Connect, Connected
  <2> QED
    BY <1>3, <2>2, <2>3 DEF TypeInv, Connect, Connected
<1>4. CASE Receive
  <2>1. down # << >> /\ down' = Tail(down) /\ tab' = Received(tab, Head(down))
    BY <1>4 DEF Receive
  <2>2. Head(down) \in NamedFrame /\ Tail(down) \in Seq(NamedFrame)
    BY <1>0, <2>1, HeadTailProperties
  <2>3. tab' \in NamedTab
    BY <1>0, <2>1, <2>2, ReceivedKeepsTab
  <2> QED
    BY <1>4, <2>1, <2>2, <2>3 DEF TypeInv, Receive
<1> QED
  BY <1>1, <1>2, <1>3, <1>4

\* The part of TypeInv that handlers of the server change.
WireInv ==
  /\ link \in [Socket -> {"unused", "open", "gone", "closed"}]
  /\ tails \in [Socket -> Seq(TailState)]
  /\ calls \subseteq Call
  /\ down \in Seq(NamedFrame)

LEMMA EmitIsNamed ==
  ASSUME down \in Seq(NamedFrame), NEW s, NEW frames \in Seq(NamedFrame), Emit(s, frames)
  PROVE  down' \in Seq(NamedFrame)
BY ConcatProperties DEF Emit

LEMMA DeliverKeepsWire ==
  ASSUME WireInv, StoreTypeOK', NEW s \in Socket, NEW r \in RunId, NEW k \in Nat,
         \/ RunCommand(s, r)
         \/ ResumeCommand(s, r, k)
         \/ AbortCommand(s, r)
         \/ RespondCommand(s, r, k)
  PROVE  WireInv'
<1>0. /\ link \in [Socket -> {"unused", "open", "gone", "closed"}]
      /\ tails \in [Socket -> Seq(TailState)]
      /\ calls \subseteq Call
      /\ down \in Seq(NamedFrame)
  BY DEF WireInv
<1>1. CASE RunCommand(s, r)
  <2>1. [do |-> "run", socket |-> s, run |-> r, gate |-> 0] \in Call
    BY DEF Call
  <2> QED
    BY <1>0, <1>1, <2>1 DEF RunCommand, WireInv
<1>2. CASE ResumeCommand(s, r, k)
  <2>1. CASE Emit(s, Transient(Rejection.resume, "none")) /\ UNCHANGED <<link, tails, calls>>
    <3>1. "resume" \in DOMAIN Rejection
      BY DEF Rejection
    <3>2. Transient(Rejection["resume"], "none") \in Seq(NamedFrame)
      BY <3>1, RejectionIsNamed
    <3>3. Rejection.resume = Rejection["resume"]
      OBVIOUS
    <3>4. down' \in Seq(NamedFrame)
      BY <1>0, <2>1, <3>2, <3>3, EmitIsNamed
    <3> QED
      BY <1>0, <2>1, <3>4 DEF WireInv
  <2>2. CASE ((Has(r) /\ UNCHANGED managerVars) \/ Rebegin(r)) /\ Attach(s, r, k)
             /\ UNCHANGED <<link, calls>>
    <3>1. r \in DOMAIN runs'
      <4>1. CASE Has(r) /\ UNCHANGED managerVars
        BY <4>1 DEF Has, managerVars
      <4>2. CASE Rebegin(r)
        BY <4>2, RebeginMoves
      <4> QED
        BY <2>2, <4>1, <4>2
    <3>2. tails' \in [Socket -> Seq(TailState)] /\ down' \in Seq(NamedFrame)
      BY <1>0, <2>2, <3>1, AttachUnfolded
    <3> QED
      BY <1>0, <2>2, <3>2 DEF WireInv
  <2> QED
    BY <1>2, <2>1, <2>2 DEF ResumeCommand
<1>3. CASE AbortCommand(s, r)
  <2>1. [do |-> "abort", socket |-> s, run |-> r, gate |-> 0] \in Call
    BY DEF Call
  <2>2. Notify(r, s, Transient("run.stopping", r))
    BY <1>3 DEF AbortCommand
  <2>3. Transient("run.stopping", r) \in Seq(NamedFrame)
    BY TransientIsNamed
  <2>4. tails' \in [Socket -> Seq(TailState)] /\ down' \in Seq(NamedFrame)
    BY <1>0, <2>2, <2>3, NotifyUnfolded
  <2> QED
    BY <1>0, <1>3, <2>1, <2>4 DEF AbortCommand, WireInv
<1>4. CASE RespondCommand(s, r, k)
  <2>1. [do |-> "respond", socket |-> s, run |-> r, gate |-> k] \in Call
    BY DEF Call
  <2> QED
    BY <1>0, <1>4, <2>1 DEF RespondCommand, WireInv
<1> QED
  BY <1>1, <1>2, <1>3, <1>4

LEMMA AnswerKeepsWire ==
  ASSUME WireInv, TypeOK, StoreTypeOK', GatewayAnswers
  PROVE  WireInv'
<1>0. /\ link \in [Socket -> {"unused", "open", "gone", "closed"}]
      /\ tails \in [Socket -> Seq(TailState)]
      /\ calls \subseteq Call
      /\ down \in Seq(NamedFrame)
  BY DEF WireInv
<1>1. PICK c \in calls :
        RespondAccepted(c) \/ RunAccepted(c) \/ AbortAccepted(c) \/ Rejected(c)
  BY DEF GatewayAnswers
<1>2. c.run \in RunId /\ c.socket \in Socket /\ c.do \in {"run", "abort", "respond"}
  BY <1>0 DEF Call
<1>3. CASE RespondAccepted(c)
  <2>1. << >> \in Seq(NamedFrame)
    BY EmptySeq
  <2>2. Notify(c.run, c.socket, << >>)
    BY <1>3 DEF RespondAccepted
  <2>3. tails' \in [Socket -> Seq(TailState)] /\ down' \in Seq(NamedFrame)
    BY <1>0, <1>2, <2>1, <2>2, NotifyUnfolded
  <2> QED
    BY <1>0, <1>3, <2>3 DEF RespondAccepted, WireInv
<1>4. CASE RunAccepted(c)
  <2>1. c.run \in DOMAIN runs'
    BY <1>4, StartMoves DEF RunAccepted
  <2>2. Attach(c.socket, c.run, 0) /\ 0 \in Nat
    BY <1>4 DEF RunAccepted
  <2>3. tails' \in [Socket -> Seq(TailState)] /\ down' \in Seq(NamedFrame)
    BY <1>0, <1>2, <2>1, <2>2, AttachUnfolded
  <2> QED
    BY <1>0, <1>4, <2>3 DEF RunAccepted, WireInv
<1>5. CASE AbortAccepted(c)
  BY <1>0, <1>5 DEF AbortAccepted, WireInv
<1>6. CASE Rejected(c)
  <2>1. c.do \in DOMAIN Rejection
    BY <1>2 DEF Rejection
  <2>2. down' \in Seq(NamedFrame)
    BY <1>0, <1>6, <2>1, RejectionIsNamed, EmitIsNamed DEF Rejected
  <2> QED
    BY <1>0, <1>6, <2>2 DEF Rejected, WireInv
<1> QED
  BY <1>1, <1>3, <1>4, <1>5, <1>6

LEMMA BackgroundKeepsWire ==
  ASSUME WireInv, Inductive, StoreTypeOK', Background
  PROVE  WireInv'
<1>0. /\ link \in [Socket -> {"unused", "open", "gone", "closed"}]
      /\ tails \in [Socket -> Seq(TailState)]
      /\ calls \subseteq Call
      /\ down \in Seq(NamedFrame)
      /\ << >> \in Seq(NamedFrame)
  BY EmptySeq DEF WireInv
<1>1. CASE \E s \in Socket : Disconnect(s)
  <2>1. << >> \in Seq(TailState)
    BY EmptySeq
  <2> QED
    BY <1>0, <1>1, <2>1 DEF Disconnect, WireInv
<1>2. CASE \E p \in PumpId : Pumped(p)
  <2>1. PICK p \in PumpId : Pumped(p)
    BY <1>2
  <2>2. stream[p].run \in RunId
    BY <2>1, PumpedRunIsARun DEF Pumped
  <2>3. Notify(stream[p].run, "none", << >>)
    BY <2>1 DEF Pumped
  <2>4. tails' \in [Socket -> Seq(TailState)] /\ down' \in Seq(NamedFrame)
    BY <1>0, <2>2, <2>3, NotifyUnfolded
  <2> QED
    BY <1>0, <2>1, <2>4 DEF Pumped, WireInv
<1>3. CASE \E r \in RunId : Reaped(r)
  <2>1. PICK r \in RunId : Reaped(r)
    BY <1>3
  <2>2. Notify(r, "none", << >>)
    BY <2>1 DEF Reaped
  <2>3. tails' \in [Socket -> Seq(TailState)] /\ down' \in Seq(NamedFrame)
    BY <1>0, <2>2, NotifyUnfolded
  <2> QED
    BY <1>0, <2>1, <2>3 DEF Reaped, WireInv
<1>4. CASE TimePasses
  <2>1. tails' \in [Socket -> Seq(TailState)]
    BY <1>0, <1>4, RetainedTails DEF TimePasses
  <2> QED
    BY <1>0, <1>4, <2>1 DEF TimePasses, WireInv
<1> QED
  BY <1>1, <1>2, <1>3, <1>4 DEF Background

LEMMA StepKeepsTypes ==
  ASSUME TypeInv, Inductive, Inductive', [SystemNext]_vars
  PROVE  TypeInv'
<1>0. TypeOK' /\ StoreTypeOK' /\ TypeOK
  BY DEF Inductive, TypeOK
<1>w. WireInv
  BY DEF TypeInv, WireInv
<1>1. CASE UNCHANGED vars
  BY <1>0, <1>1 DEF vars, wireVars, tabVars, TypeInv
<1>2. CASE (\E r \in RunId : Send(r)) \/ Stop \/ Respond \/ NewChat
  BY <1>0, <1>2, UserKeepsTypes
<1>3. CASE Lose \/ Reload \/ Connect \/ Receive
  BY <1>0, <1>3, ConnectionKeepsTypes
<1>4. CASE Deliver
  <2>1. up \in Seq(Command) /\ up # << >>
    BY <1>4 DEF TypeInv, Deliver
  <2>2. Head(up) \in Command /\ Tail(up) \in Seq(Command)
    BY <2>1, HeadTailProperties
  <2>3. Head(up).cursor \in Nat
    BY <2>2 DEF Command
  <2>4. PICK s \in Socket, r \in RunId :
          \/ RunCommand(s, r)
          \/ ResumeCommand(s, r, Head(up).cursor)
          \/ AbortCommand(s, r)
          \/ RespondCommand(s, r, Head(up).cursor)
    BY <1>4 DEF Deliver
  <2>5. WireInv'
    BY <1>0, <1>w, <2>3, <2>4, DeliverKeepsWire
  <2> QED
    BY <1>0, <1>4, <2>2, <2>5 DEF Deliver, TypeInv, WireInv
<1>5. CASE GatewayAnswers
  <2>1. WireInv'
    BY <1>0, <1>w, <1>5, AnswerKeepsWire
  <2>2. answered' \subseteq RunId \X Nat
    BY <1>5 DEF GatewayAnswers, TypeInv, Call
  <2> QED
    BY <1>0, <1>5, <2>1, <2>2 DEF GatewayAnswers, TypeInv, WireInv
<1>6. CASE Background
  <2>1. WireInv'
    BY <1>0, <1>w, <1>6, BackgroundKeepsWire
  <2> QED
    BY <1>0, <1>6, <2>1 DEF Background, tabVars, TypeInv, WireInv
<1>7. CASE ServerDies
  <2>1. WireInv'
    <3>1. << >> \in Seq(NamedFrame) /\ << >> \in Seq(TailState)
      BY EmptySeq
    <3> QED
      BY <1>7, <1>w, <3>1 DEF ServerDies, ServerCrash, WireInv
  <2>2. up' \in Seq(Command)
    BY <1>7, EmptySeq DEF ServerDies, TypeInv
  <2> QED
    BY <1>0, <1>7, <2>1, <2>2 DEF ServerDies, TypeInv, WireInv
<1> QED
  BY <1>1, <1>2, <1>3, <1>4, <1>5, <1>6, <1>7 DEF SystemNext

ChatInductive == Inductive /\ CallsOfRuns /\ TypeInv

LEMMA InitTypes == SystemInit => ChatInductive
<1> SUFFICES ASSUME SystemInit PROVE ChatInductive
  OBVIOUS
<1>1. Inductive /\ CallsOfRuns
  BY InitInductive DEF SystemInit, WireInit, CallsOfRuns
<1>2. << >> \in Seq(NamedFrame) /\ << >> \in Seq(TailState) /\ << >> \in Seq(Command)
  BY EmptySeq
<1> QED
  BY <1>1, <1>2, NewTabIsNamed DEF SystemInit, WireInit, TypeInv, Inductive, ChatInductive

LEMMA StepKeepsInductive ==
  ASSUME ChatInductive, [SystemNext]_vars
  PROVE  ChatInductive'
<1>1. [ManagerNext]_managerVars /\ CallsOfRuns'
  BY StepMaps DEF ChatInductive
<1>2. Inductive'
  BY <1>1, NextInductive DEF ChatInductive
<1> QED
  BY <1>1, <1>2, StepKeepsTypes DEF ChatInductive

(* The frames, subscriptions and commands of the chat, and the state of the  *)
(* tab, stay within their types (chatRun.ts 94-346, chatSocket.ts).          *)
THEOREM ChatTypeCorrect == SystemSpec => []SystemTypeOK
<1>1. ChatInductive /\ [SystemNext]_vars => ChatInductive'
  BY StepKeepsInductive
<1>2. ChatInductive => SystemTypeOK
  BY TypesAreNamed DEF ChatInductive
<1> QED
  BY InitTypes, <1>1, <1>2, PTL DEF SystemSpec

-----------------------------------------------------------------------------
(***************************************************************************)
(* Subscriptions end with their run.                                       *)
(***************************************************************************)
\* A log that has not got its terminal event.
IsOpenLog(x) == x \in DOMAIN runs /\ ~runs[x].done

\* TailsAreOfOpenRuns with what makes it inductive: the log is still retained.
TailsOfOpenLogs ==
  \A s \in Socket : \A k \in 1 .. Len(tails[s]) :
    tails[s][k].live => IsOpenLog(tails[s][k].run)

\* What a step makes of the log of r: it is kept, or one event is appended to it.
Appends(r, E) == LogsKept \/ (OnlyLog(r) /\ \E e \in E : Extends(r, e))

LEMMA TailsImplyOpenRuns ==
  ASSUME tails \in [Socket -> Seq(TailState)], TailsOfOpenLogs
  PROVE  TailsAreOfOpenRuns
<1>1. \A s \in Socket : DOMAIN tails[s] = 1 .. Len(tails[s])
  BY LenProperties
<1> QED
  BY <1>1 DEF TailsOfOpenLogs, TailsAreOfOpenRuns, IsDone, IsOpenLog

(* A log that stays is open after the step if it was, unless the step       *)
(* appends its terminal event.                                              *)
LEMMA OpenLogsStay ==
  ASSUME StoreInv, NEW r, Appends(r, LogEvents), NEW x, IsOpenLog(x), x \in DOMAIN runs',
         x = r => ~HasTerminal(News(r))
  PROVE  IsOpenLog(x)'
<1>1. CASE SameLog(x)
  BY <1>1 DEF SameLog, IsOpenLog
<1>2. CASE x = r /\ \E e \in LogEvents : Extends(r, e)
  <2>1. PICK e \in LogEvents : Extends(r, e)
    BY <1>2
  <2>2. News(r) = <<[cursor |-> Base(r).cursor + 1, event |-> e]>>
    BY <2>1, NewsOfAppend
  <2>3. e \notin TerminalEvents
    BY <1>2, <2>2 DEF HasTerminal
  <2>4. Base(r) \in RunState /\ GapFree(Base(r)) /\ ~Base(r).done
    BY <1>2, BaseIsALog DEF Base, IsOpenLog, Has
  <2>5. ~Logged(Base(r), e).done
    BY <2>1, <2>3, <2>4, LoggedEnds
  <2> QED
    BY <1>2, <2>1, <2>5 DEF IsOpenLog, Extends
<1> QED
  BY <1>1, <1>2 DEF Appends, LogsKept, OnlyLog

LEMMA NotifyKeepsOpen ==
  ASSUME StoreInv, StoreTypeOK', WireInv, TailsOfOpenLogs,
         NEW r \in RunId, NEW t, NEW early \in Seq(NamedFrame), Notify(r, t, early),
         Appends(r, LogEvents)
  PROVE  TailsOfOpenLogs'
<1>1. \A s \in Socket : \A k \in 1 .. Len(tails'[s]) :
        tails'[s][k].live =>
          /\ tails'[s][k].run \in DOMAIN runs'
          /\ WasTail(tails'[s][k], s)
          /\ HasTerminal(News(r)) => tails'[s][k].run # r
  BY NotifyUnfolded DEF WireInv
<1>2. \A s \in Socket : \A t1 : WasTail(t1, s) => IsOpenLog(t1.run)
  BY DEF WasTail, TailsOfOpenLogs
<1>3. ASSUME NEW s \in Socket, NEW k \in 1 .. Len(tails'[s]), tails'[s][k].live
      PROVE  tails'[s][k].run \in DOMAIN runs' /\ ~runs'[tails'[s][k].run].done
  <2> DEFINE x == tails'[s][k].run
  <2>1. IsOpenLog(x) /\ x \in DOMAIN runs' /\ (x = r => ~HasTerminal(News(r)))
    BY <1>1, <1>2, <1>3
  <2> HIDE DEF x
  <2>2. \A y : IsOpenLog(y) /\ y \in DOMAIN runs' /\ (y = r => ~HasTerminal(News(r)))
                 => y \in DOMAIN runs' /\ ~runs'[y].done
    BY OpenLogsStay DEF IsOpenLog
  <2> QED
    BY <2>1, <2>2 DEF x
<1> QED
  BY <1>3 DEF TailsOfOpenLogs, IsOpenLog

LEMMA AttachKeepsOpen ==
  ASSUME StoreInv, StoreTypeOK', WireInv, TailsOfOpenLogs,
         NEW s \in Socket, NEW r \in RunId, r \in DOMAIN runs', NEW k \in Nat,
         Attach(s, r, k), LogsKept \/ (OnlyLog(r) /\ ~Has(r))
  PROVE  TailsOfOpenLogs'
<1>1. \A x \in Socket : \A i \in 1 .. Len(tails'[x]) :
        tails'[x][i].live =>
          /\ tails'[x][i].run \in DOMAIN runs'
          /\ \/ WasTail(tails'[x][i], x) /\ (x = s => tails'[x][i].run # r)
             \/ /\ x = s /\ tails'[x][i].run = r
                /\ tails'[x][i].gate = ReplayGate(runs'[r], k)
                /\ ~runs'[r].done
  BY AttachUnfolded DEF WireInv
<1>2. \A x \in Socket : \A t : WasTail(t, x) => IsOpenLog(t.run)
  BY DEF WasTail, TailsOfOpenLogs
<1>3. \A x : IsOpenLog(x) /\ x \in DOMAIN runs' => ~runs'[x].done
  BY DEF IsOpenLog, LogsKept, OnlyLog, SameLog, Has
<1> QED
  BY <1>1, <1>2, <1>3 DEF TailsOfOpenLogs, IsOpenLog

\* A log is neither dropped nor begun by a step that keeps the manager.
LEMMA SameManagerMoves ==
  ASSUME UNCHANGED managerVars
  PROVE  LogsKept
BY SameStoreMoves DEF managerVars, storeVars

LEMMA DeliverKeepsOpen ==
  ASSUME StoreInv, StoreTypeOK', WireInv, TailsOfOpenLogs,
         NEW s \in Socket, NEW r \in RunId, NEW k \in Nat,
         \/ RunCommand(s, r)
         \/ ResumeCommand(s, r, k)
         \/ AbortCommand(s, r)
         \/ RespondCommand(s, r, k)
  PROVE  TailsOfOpenLogs'
<1>0. ASSUME UNCHANGED managerVars, UNCHANGED tails
      PROVE  TailsOfOpenLogs'
  BY <1>0 DEF managerVars, TailsOfOpenLogs, IsOpenLog
<1>1. CASE RunCommand(s, r) \/ RespondCommand(s, r, k)
  BY <1>0, <1>1 DEF RunCommand, RespondCommand
<1>2. CASE ResumeCommand(s, r, k)
  <2>1. CASE UNCHANGED managerVars /\ UNCHANGED tails
    BY <1>0, <2>1
  <2>2. CASE ((Has(r) /\ UNCHANGED managerVars) \/ Rebegin(r)) /\ Attach(s, r, k)
    <3>1. r \in DOMAIN runs' /\ (LogsKept \/ (OnlyLog(r) /\ ~Has(r)))
      <4>1. CASE Has(r) /\ UNCHANGED managerVars
        BY <4>1, SameManagerMoves DEF Has, managerVars
      <4>2. CASE Rebegin(r)
        BY <4>2, RebeginMoves
      <4> QED
        BY <2>2, <4>1, <4>2
    <3> QED
      BY <2>2, <3>1, AttachKeepsOpen
  <2> QED
    BY <1>2, <2>1, <2>2 DEF ResumeCommand
<1>3. CASE AbortCommand(s, r)
  <2>1. Appends(r, LogEvents)
    BY <1>3, CancelMoves, SameManagerMoves DEF AbortCommand, Appends
  <2>2. Notify(r, s, Transient("run.stopping", r))
    BY <1>3 DEF AbortCommand
  <2>3. Transient("run.stopping", r) \in Seq(NamedFrame)
    BY TransientIsNamed
  <2> QED
    BY <2>1, <2>2, <2>3, NotifyKeepsOpen
<1> QED
  BY <1>1, <1>2, <1>3

LEMMA AnswerKeepsOpen ==
  ASSUME StoreInv, StoreTypeOK', WireInv, TailsOfOpenLogs, GatewayAnswers
  PROVE  TailsOfOpenLogs'
<1>1. PICK c \in calls :
        RespondAccepted(c) \/ RunAccepted(c) \/ AbortAccepted(c) \/ Rejected(c)
  BY DEF GatewayAnswers
<1>2. c.run \in RunId /\ c.socket \in Socket
  BY DEF WireInv, Call
<1>3. CASE RespondAccepted(c)
  <2>1. Notify(c.run, c.socket, << >>) /\ << >> \in Seq(NamedFrame)
    BY <1>3, EmptySeq DEF RespondAccepted
  <2>2. UNCHANGED storeVars
    BY <1>3 DEF RespondAccepted, ClearApproval, managerVars, storeVars
  <2>3. Appends(c.run, LogEvents)
    BY <2>2, SameStoreMoves DEF Appends
  <2> QED
    BY <1>2, <2>1, <2>3, NotifyKeepsOpen
<1>4. CASE RunAccepted(c)
  <2>1. ~Has(c.run) /\ OnlyLog(c.run) /\ c.run \in DOMAIN runs'
    BY <1>4, StartMoves DEF RunAccepted
  <2>2. Attach(c.socket, c.run, 0) /\ 0 \in Nat
    BY <1>4 DEF RunAccepted
  <2> QED
    BY <1>2, <2>1, <2>2, AttachKeepsOpen
<1>5. CASE AbortAccepted(c) \/ Rejected(c)
  <2>1. UNCHANGED runs /\ UNCHANGED tails
    BY <1>5 DEF AbortAccepted, Rejected, managerVars
  <2> QED
    BY <2>1 DEF TailsOfOpenLogs, IsOpenLog
<1> QED
  BY <1>1, <1>3, <1>4, <1>5

LEMMA BackgroundKeepsOpen ==
  ASSUME Inductive, StoreTypeOK', WireInv, TailsOfOpenLogs, Background
  PROVE  TailsOfOpenLogs'
<1>0. StoreInv
  BY StoreOfInductive
<1>1. CASE \E s \in Socket : Disconnect(s)
  <2>1. PICK s \in Socket : Disconnect(s)
    BY <1>1
  <2>2. /\ UNCHANGED runs
        /\ \A x \in Socket : tails'[x] = IF x = s THEN << >> ELSE tails[x]
    BY <2>1 DEF Disconnect, managerVars, WireInv
  <2>3. Len(<< >>) = 0
    BY EmptySeq
  <2>4. \A x \in Socket : \A k \in 1 .. Len(tails'[x]) : tails'[x] = tails[x]
    BY <2>2, <2>3
  <2> QED
    BY <2>2, <2>4 DEF TailsOfOpenLogs, IsOpenLog
<1>2. CASE \E p \in PumpId : Pumped(p)
  <2>1. PICK p \in PumpId : Pumped(p)
    BY <1>2
  <2>2. PumpStep(p) /\ Notify(stream[p].run, "none", << >>) /\ << >> \in Seq(NamedFrame)
    BY <2>1, EmptySeq DEF Pumped
  <2>3. stream[p].run \in RunId
    BY <2>2, PumpedRunIsARun
  <2>4. Appends(stream[p].run, LogEvents)
    BY <2>2, PumpMoves DEF Appends
  <2> QED
    BY <1>0, <2>2, <2>3, <2>4, NotifyKeepsOpen
<1>3. CASE \E r \in RunId : Reaped(r)
  <2>1. PICK r \in RunId : Reaped(r)
    BY <1>3
  <2>2. Notify(r, "none", << >>) /\ << >> \in Seq(NamedFrame)
    BY <2>1, EmptySeq DEF Reaped
  <2>3. Appends(r, LogEvents)
    BY <2>1, CancelMoves DEF Reaped, Appends
  <2> QED
    BY <1>0, <2>2, <2>3, NotifyKeepsOpen
<1>4. CASE TimePasses
  <2>1. LogsKept
    BY <1>0, <1>4, TimeMoves DEF TimePasses, StoreInv
  <2>2. \A s \in Socket : tails[s] \in Seq(TailState) /\ tails'[s] = Retained(tails[s])
    BY <1>4 DEF TimePasses, WireInv
  <2>3. \A s \in Socket :
          /\ Len(tails'[s]) = Len(tails[s])
          /\ \A i \in 1 .. Len(tails[s]) :
               /\ tails'[s][i].run = tails[s][i].run
               /\ tails'[s][i].live => tails[s][i].live /\ tails[s][i].run \in DOMAIN runs'
    BY <2>2, RetainedTails
  <2>4. \A x : IsOpenLog(x) /\ x \in DOMAIN runs' => ~runs'[x].done
    BY <2>1 DEF LogsKept, SameLog, IsOpenLog
  <2> QED
    BY <2>3, <2>4 DEF TailsOfOpenLogs, IsOpenLog
<1> QED
  BY <1>1, <1>2, <1>3, <1>4 DEF Background

LEMMA StepKeepsOpen ==
  ASSUME ChatInductive, ChatInductive', TailsOfOpenLogs, [SystemNext]_vars
  PROVE  TailsOfOpenLogs'
<1>0. /\ Inductive /\ StoreInv /\ WireInv /\ StoreTypeOK' /\ up \in Seq(Command)
  BY StoreOfInductive DEF ChatInductive, Inductive, TypeInv, TypeOK, WireInv
<1>1. ASSUME UNCHANGED <<runs, tails>>
      PROVE  TailsOfOpenLogs'
  BY <1>1 DEF TailsOfOpenLogs, IsOpenLog
<1>2. CASE UNCHANGED vars
  BY <1>1, <1>2 DEF vars, managerVars, wireVars
<1>3. CASE (\E r \in RunId : Send(r)) \/ Stop \/ Respond \/ NewChat
  BY <1>1, <1>3 DEF Send, Stop, Respond, NewChat, managerVars, wireVars
<1>4. CASE Lose \/ Reload \/ Connect \/ Receive
  BY <1>1, <1>4 DEF Lose, Reload, Connect, Receive, LinkLost, Connected, managerVars, wireVars
<1>5. CASE Deliver
  <2>1. up # << >>
    BY <1>5 DEF Deliver
  <2>2. Head(up) \in Command
    BY <1>0, <2>1, HeadTailProperties
  <2>3. Head(up).cursor \in Nat
    BY <2>2 DEF Command
  <2>4. PICK s \in Socket, r \in RunId :
          \/ RunCommand(s, r)
          \/ ResumeCommand(s, r, Head(up).cursor)
          \/ AbortCommand(s, r)
          \/ RespondCommand(s, r, Head(up).cursor)
    BY <1>5 DEF Deliver
  <2> QED
    BY <1>0, <2>3, <2>4, DeliverKeepsOpen
<1>6. CASE GatewayAnswers
  BY <1>0, <1>6, AnswerKeepsOpen
<1>7. CASE Background
  BY <1>0, <1>7, BackgroundKeepsOpen
<1>8. CASE ServerDies
  <2>1. \A s \in Socket : tails'[s] = << >>
    BY <1>8 DEF ServerDies, ServerCrash
  <2>2. Len(<< >>) = 0
    BY EmptySeq
  <2> QED
    BY <2>1, <2>2 DEF TailsOfOpenLogs
<1> QED
  BY <1>2, <1>3, <1>4, <1>5, <1>6, <1>7, <1>8 DEF SystemNext

LEMMA InitTails == SystemInit => TailsOfOpenLogs
<1>1. Len(<< >>) = 0
  BY EmptySeq
<1> QED
  BY <1>1 DEF SystemInit, WireInit, TailsOfOpenLogs

(* No subscription is left on a log that has its terminal event (chatRun.ts  *)
(* 167-186), for any number of connections, of runs and of pumps.            *)
THEOREM NoTailOutlivesItsRun == SystemSpec => []TailsAreOfOpenRuns
<1>1. ChatInductive /\ TailsOfOpenLogs /\ [SystemNext]_vars
        => (ChatInductive /\ TailsOfOpenLogs)'
  BY StepKeepsInductive, StepKeepsOpen
<1>2. ChatInductive /\ TailsOfOpenLogs => TailsAreOfOpenRuns
  BY TailsImplyOpenRuns DEF ChatInductive, TypeInv
<1> QED
  BY InitTypes, InitTails, <1>1, <1>2, PTL DEF SystemSpec
=============================================================================
